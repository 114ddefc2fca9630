-------------------------- MODULE RuleEngineProofs --------------------------
(***************************************************************************)
(* The geospatial telemetry and the fail-closed policy of the rule engine, *)
(* for any number of transactions, timestamps, places, orchestrations and  *)
(* faults.                                                                 *)
(***************************************************************************)
EXTENDS RuleEngine, TLAPS

\* An orchestration has a transaction while it runs, and a result of the
\* geospatial rule comes from a run of its script.
RunsFounded ==
  \A w \in Workers :
    /\ pc[w] # "idle" => of[w] \in Txs
    /\ pc[w] = "idle" => of[w] = NoTx
    /\ result[w]["geospatial"] \in {"quiet", "suspicious"} => of[w] \in seen

EngineInv == TypeOK /\ NewestTelemetry /\ TravelJustified /\ RunsFounded
               /\ ClearedWasJudged

NoResult == [r \in Rules |-> "pending"]

-----------------------------------------------------------------------------
LEMMA InitEstablishes == Init => EngineInv
<1> SUFFICES ASSUME Init PROVE EngineInv OBVIOUS
<1>1. \A w \in Workers : result[w]["geospatial"] = "pending"
  BY DEF Init, Rules
<1>2. TypeOK BY RulesAssumption DEF Init, TypeOK, Outcomes
<1>3. NewestTelemetry /\ ClearedWasJudged
  BY TimeAssumption DEF Init, NewestTelemetry, ClearedWasJudged
<1>4. TravelJustified /\ RunsFounded
  BY <1>1 DEF Init, TravelJustified, RunsFounded
<1> QED BY <1>2, <1>3, <1>4 DEF EngineInv

\* What settling the promise of one rule changes.
LEMMA SettleFrame ==
  ASSUME TypeOK, NEW w \in Workers, NEW rule \in Rules, NEW o \in Outcomes,
         Settle(w, rule, o)
  PROVE  /\ result' \in [Workers -> [Rules -> Outcomes]]
         /\ result'[w][rule] = o
         /\ \A r \in Rules \ {rule} : result'[w][r] = result[w][r]
         /\ \A v \in Workers \ {w} : result'[v] = result[v]
BY DEF Settle, TypeOK

\* What two timestamps say of their doubles, and the other way round.
LEMMA DoublesOrdered ==
  ASSUME NEW t \in Txs, NEW u \in Txs
  PROVE  /\ Ts[t] \in Nat /\ Ts[u] \in Nat
         /\ Rounded[t] \in Nat /\ Rounded[u] \in Nat
         /\ Ts[t] <= Ts[u] => Rounded[t] <= Rounded[u]
         /\ Ts[t] = Ts[u] => Rounded[t] = Rounded[u]
         /\ ~(Rounded[t] <= Rounded[u]) => Ts[u] <= Ts[t]
         /\ ~(Rounded[t] > Rounded[u])
              => Ts[t] <= Ts[u] \/ Rounded[t] = Rounded[u]
<1>1. /\ Ts[t] \in Nat /\ Ts[u] \in Nat
      /\ Rounded[t] \in Nat /\ Rounded[u] \in Nat
      /\ Ts[t] <= Ts[u] => Rounded[t] <= Rounded[u]
      /\ Ts[u] <= Ts[t] => Rounded[u] <= Rounded[t]
  BY TimeAssumption
<1> QED BY <1>1

\* A run of the script keeps the newest telemetry.
LEMMA ScriptStep ==
  ASSUME TypeOK, NewestTelemetry, NEW t \in Txs, GeoScript(t)
  PROVE  NewestTelemetry' /\ last' \in Txs \cup {NoTx} /\ seen' \subseteq Txs
         /\ seen \subseteq seen' /\ t \in seen'
<1>1. seen' = seen \cup {t} /\ last' = (IF Newer(t) THEN t ELSE last)
  BY DEF GeoScript
<1>2. t # NoTx /\ seen \subseteq Txs
  BY TimeAssumption DEF TypeOK
<1>3. CASE Newer(t)
  <2>1. last' = t BY <1>1, <1>3
  <2>2. ASSUME NEW u \in seen PROVE Ts[u] <= Ts[t]
    <3>1. last # NoTx /\ last \in Txs /\ u \in Txs
      BY <1>2, <2>2 DEF NewestTelemetry
    <3>2. Rounded[u] <= Rounded[last]
      BY <3>1, <2>2, DoublesOrdered DEF NewestTelemetry
    <3>3. Rounded[t] > Rounded[last] BY <3>1, <1>3 DEF Newer
    <3>4. ~(Rounded[t] <= Rounded[u]) BY <3>1, <3>2, <3>3, DoublesOrdered
    <3> QED BY <3>1, <3>4, DoublesOrdered
  <2>3. Ts[t] <= Ts[t] BY TimeAssumption
  <2> QED BY <1>1, <1>2, <2>1, <2>2, <2>3 DEF NewestTelemetry
<1>4. CASE ~Newer(t)
  <2>1. last' = last /\ last # NoTx /\ ~(Rounded[t] > Rounded[last])
    BY <1>1, <1>4 DEF Newer
  <2>2. /\ last \in seen /\ last \in Txs
        /\ \A u \in seen : Ts[u] <= Ts[last] \/ Rounded[u] = Rounded[last]
    BY <2>1, <1>2 DEF NewestTelemetry
  <2>3. Ts[t] <= Ts[last] \/ Rounded[t] = Rounded[last]
    BY <2>1, <2>2, DoublesOrdered
  <2> QED BY <1>1, <1>2, <2>1, <2>2, <2>3 DEF NewestTelemetry
<1> QED BY <1>3, <1>4

-----------------------------------------------------------------------------
LEMMA StartStep ==
  ASSUME EngineInv, NEW w \in Workers, NEW t \in Txs, Start(w, t)
  PROVE  EngineInv'
<1> USE DEF EngineInv
<1>0. TypeOK OBVIOUS
<1>1. /\ pc' = [pc EXCEPT ![w] = "rules"] /\ of' = [of EXCEPT ![w] = t]
      /\ result' = [result EXCEPT ![w] = NoResult]
      /\ UNCHANGED <<last, seen, cleared, faults>>
  BY DEF Start, NoResult
<1>2. /\ result'[w]["geospatial"] = "pending"
      /\ pc'[w] = "rules" /\ of'[w] = t
      /\ \A v \in Workers \ {w} :
           result'[v] = result[v] /\ of'[v] = of[v] /\ pc'[v] = pc[v]
  BY <1>0, <1>1 DEF TypeOK, NoResult, Rules
<1>3. TypeOK' BY <1>0, <1>1 DEF TypeOK, NoResult, Outcomes
<1>4. NewestTelemetry' /\ ClearedWasJudged'
  BY <1>1 DEF NewestTelemetry, ClearedWasJudged
<1>5. TravelJustified' BY <1>1, <1>2 DEF TravelJustified
<1>6. RunsFounded' BY <1>1, <1>2 DEF RunsFounded
<1> QED BY <1>3, <1>4, <1>5, <1>6

LEMMA OtherRulesStep ==
  ASSUME EngineInv, NEW w \in Workers,
         EvaluateBlacklist(w) \/ EvaluateVelocity(w) \/ VelocityFails(w)
  PROVE  EngineInv'
<1> USE DEF EngineInv
<1>0. TypeOK OBVIOUS
<1>1. PICK rule \in {"blacklist", "velocity"}, o \in Outcomes \ {"pending"} :
        Settle(w, rule, o)
  BY DEF EvaluateBlacklist, EvaluateVelocity, VelocityFails, Outcomes
<1>2. /\ UNCHANGED <<last, pc, of, seen, cleared>>
      /\ faults' \in 0..MaxFaults
  BY <1>0, RulesAssumption DEF EvaluateBlacklist, EvaluateVelocity,
     VelocityFails, Fault, TypeOK
<1>3. /\ result' \in [Workers -> [Rules -> Outcomes]]
      /\ \A v \in Workers : result'[v]["geospatial"] = result[v]["geospatial"]
  <2>1. rule \in Rules /\ "geospatial" \in Rules \ {rule} BY DEF Rules
  <2> QED BY <2>1, <1>0, <1>1, SettleFrame
<1>4. TypeOK' BY <1>0, <1>2, <1>3 DEF TypeOK
<1>5. NewestTelemetry' /\ ClearedWasJudged'
  BY <1>2 DEF NewestTelemetry, ClearedWasJudged
<1>6. TravelJustified' /\ RunsFounded'
  BY <1>2, <1>3 DEF TravelJustified, RunsFounded
<1> QED BY <1>4, <1>5, <1>6

LEMMA GeospatialStep ==
  ASSUME EngineInv, NEW w \in Workers,
         EvaluateGeospatial(w) \/ GeospatialResent(w) \/ GeospatialFails(w)
  PROVE  EngineInv'
<1> USE DEF EngineInv
<1>0. TypeOK OBVIOUS
<1>1. /\ pc[w] = "rules" /\ of[w] \in Txs
      /\ UNCHANGED <<pc, of, cleared>>
      /\ faults' \in 0..MaxFaults
  BY <1>0, RulesAssumption DEF EvaluateGeospatial, GeospatialResent,
     GeospatialFails, Settle, Fault, TypeOK, RunsFounded
<1>2. GeoScript(of[w]) \/ UNCHANGED <<last, seen>>
  BY DEF EvaluateGeospatial, GeospatialResent, GeospatialFails
<1>3. /\ NewestTelemetry' /\ last' \in Txs \cup {NoTx} /\ seen' \subseteq Txs
      /\ seen \subseteq seen'
  <2>1. CASE GeoScript(of[w]) BY <2>1, <1>0, <1>1, ScriptStep
  <2>2. CASE UNCHANGED <<last, seen>>
    BY <2>2, <1>0 DEF NewestTelemetry, TypeOK
  <2> QED BY <1>2, <2>1, <2>2
<1>4. /\ result' \in [Workers -> [Rules -> Outcomes]]
      /\ \A v \in Workers \ {w} : result'[v] = result[v]
      /\ \/ result' = result
         \/ result'[w]["geospatial"] = "failed"
         \/ GeoScript(of[w]) /\ result'[w]["geospatial"] = "quiet"
         \/ GeoScript(of[w]) /\ ImpossibleTravel(of[w])
  <2>1. "geospatial" \in Rules BY DEF Rules
  <2>2. CASE GeospatialResent(w) BY <2>2, <1>0 DEF GeospatialResent, TypeOK
  <2>3. CASE GeospatialFails(w)
    <3>1. Settle(w, "geospatial", "failed") BY <2>3 DEF GeospatialFails
    <3> QED BY <3>1, <2>1, <1>0, SettleFrame DEF Outcomes
  <2>4. CASE EvaluateGeospatial(w) /\ ImpossibleTravel(of[w])
    <3>1. Settle(w, "geospatial", "suspicious") /\ GeoScript(of[w])
      BY <2>4 DEF EvaluateGeospatial
    <3> QED BY <3>1, <2>1, <2>4, <1>0, SettleFrame DEF Outcomes
  <2>5. CASE EvaluateGeospatial(w) /\ ~ImpossibleTravel(of[w])
    <3>1. Settle(w, "geospatial", "quiet") /\ GeoScript(of[w])
      BY <2>5 DEF EvaluateGeospatial
    <3> QED BY <3>1, <2>1, <1>0, SettleFrame DEF Outcomes
  <2> QED BY <2>2, <2>3, <2>4, <2>5
<1>5. TypeOK' BY <1>0, <1>1, <1>3, <1>4 DEF TypeOK
<1>6. TravelJustified'
  <2> SUFFICES ASSUME NEW v \in Workers, result'[v]["geospatial"] = "suspicious"
               PROVE  \E u \in seen' : Ts[u] < Ts[of[v]] /\ <<u, of[v]>> \in Far
    BY <1>1 DEF TravelJustified
  <2>1. CASE result'[v] = result[v]
    BY <2>1, <1>3 DEF TravelJustified
  <2>2. CASE v = w /\ ImpossibleTravel(of[w])
    <3>1. last \in seen /\ Ts[of[w]] > Ts[last] /\ <<last, of[w]>> \in Far
      BY <2>2 DEF ImpossibleTravel, NewestTelemetry
    <3>2. Ts[last] \in Nat /\ Ts[of[w]] \in Nat
      BY <3>1, <1>0, <1>1, TimeAssumption DEF TypeOK
    <3> QED BY <3>1, <3>2, <2>2, <1>3
  <2> QED BY <2>1, <2>2, <1>4
<1>7. RunsFounded'
  <2>1. GeoScript(of[w]) => of[w] \in seen' BY DEF GeoScript
  <2> SUFFICES ASSUME NEW v \in Workers
               PROVE  /\ pc[v] # "idle" => of[v] \in Txs
                      /\ pc[v] = "idle" => of[v] = NoTx
                      /\ result'[v]["geospatial"] \in {"quiet", "suspicious"}
                           => of[v] \in seen'
    BY <1>1 DEF RunsFounded
  <2>2. CASE result'[v] = result[v] BY <2>2, <1>3 DEF RunsFounded
  <2>3. CASE result'[v] # result[v]
    <3>1. v = w BY <2>3, <1>4
    <3> QED BY <3>1, <2>1, <2>3, <1>1, <1>4
  <2> QED BY <2>2, <2>3
<1>8. ClearedWasJudged' BY <1>1, <1>3 DEF ClearedWasJudged
<1> QED BY <1>3, <1>5, <1>6, <1>7, <1>8

LEMMA DecideStep ==
  ASSUME EngineInv, NEW w \in Workers, DecideToFlag(w)
  PROVE  EngineInv'
<1> USE DEF EngineInv
<1>0. TypeOK OBVIOUS
<1>1. /\ pc[w] = "rules" /\ of[w] \in Txs
      /\ cleared' = cleared \ {of[w]}
      /\ pc' = [pc EXCEPT ![w] = "flagging"]
      /\ UNCHANGED <<last, of, result, seen, faults>>
  BY DEF DecideToFlag, RunsFounded
<1>2. TypeOK' BY <1>0, <1>1 DEF TypeOK
<1>3. NewestTelemetry' /\ ClearedWasJudged' /\ TravelJustified'
  BY <1>1 DEF NewestTelemetry, ClearedWasJudged, TravelJustified
<1>4. RunsFounded' BY <1>0, <1>1 DEF RunsFounded, TypeOK
<1> QED BY <1>2, <1>3, <1>4

LEMMA EndStep ==
  ASSUME EngineInv, NEW w \in Workers, Clear(w) \/ Dispatch(w) \/ Abort(w)
  PROVE  EngineInv'
<1> USE DEF EngineInv
<1>0. TypeOK OBVIOUS
<1>1. /\ pc' = [pc EXCEPT ![w] = "idle"] /\ of' = [of EXCEPT ![w] = NoTx]
      /\ result' = [result EXCEPT ![w] = NoResult]
      /\ UNCHANGED <<last, seen>>
      /\ faults' \in 0..MaxFaults
  BY <1>0, RulesAssumption
     DEF Clear, Dispatch, Abort, End, NoResult, Fault, TypeOK
<1>2. /\ result'[w]["geospatial"] = "pending"
      /\ pc'[w] = "idle" /\ of'[w] = NoTx
      /\ \A v \in Workers \ {w} :
           result'[v] = result[v] /\ of'[v] = of[v] /\ pc'[v] = pc[v]
  BY <1>0, <1>1 DEF TypeOK, NoResult, Rules
<1>3. pc[w] # "idle" => of[w] \in Txs BY DEF RunsFounded
<1>4. /\ pc[w] # "idle"
      /\ cleared' \subseteq cleared \cup {of[w]}
  BY DEF Clear, Dispatch, Abort
<1>5. TypeOK' BY <1>0, <1>1, <1>3, <1>4 DEF TypeOK, NoResult, Outcomes
<1>6. NewestTelemetry' BY <1>1 DEF NewestTelemetry
<1>7. TravelJustified' BY <1>1, <1>2 DEF TravelJustified
<1>8. RunsFounded' BY <1>1, <1>2 DEF RunsFounded
<1>9. ClearedWasJudged'
  <2> SUFFICES ASSUME "geospatial" \in Critical PROVE cleared' \subseteq seen
    BY <1>1 DEF ClearedWasJudged
  <2>1. CASE Clear(w)
    <3>1. Settled(w) /\ ~CriticalFailure(w) BY <2>1 DEF Clear
    <3>2. result[w]["geospatial"] \in Outcomes \ {"pending", "failed"}
      BY <3>1, <1>0 DEF Settled, CriticalFailure, Rules, TypeOK
    <3>3. of[w] \in seen BY <3>2 DEF Outcomes, RunsFounded
    <3> QED BY <3>3, <1>4 DEF ClearedWasJudged
  <2>2. CASE Dispatch(w) \/ Abort(w)
    BY <2>2 DEF Dispatch, Abort, ClearedWasJudged
  <2> QED BY <2>1, <2>2
<1> QED BY <1>5, <1>6, <1>7, <1>8, <1>9

LEMMA StepPreserves == EngineInv /\ [Next]_vars => EngineInv'
<1> SUFFICES ASSUME EngineInv, [Next]_vars PROVE EngineInv' OBVIOUS
<1>1. ASSUME NEW w \in Workers, NEW t \in Txs, Start(w, t) PROVE EngineInv'
  BY <1>1, StartStep
<1>2. ASSUME NEW w \in Workers,
             EvaluateBlacklist(w) \/ EvaluateVelocity(w) \/ VelocityFails(w)
      PROVE  EngineInv'
  BY <1>2, OtherRulesStep
<1>3. ASSUME NEW w \in Workers,
             EvaluateGeospatial(w) \/ GeospatialResent(w) \/ GeospatialFails(w)
      PROVE  EngineInv'
  BY <1>3, GeospatialStep
<1>4. ASSUME NEW w \in Workers, DecideToFlag(w) PROVE EngineInv'
  BY <1>4, DecideStep
<1>5. ASSUME NEW w \in Workers, Clear(w) \/ Dispatch(w) \/ Abort(w)
      PROVE  EngineInv'
  BY <1>5, EndStep
<1>6. CASE UNCHANGED vars
  BY <1>6 DEF vars, EngineInv, TypeOK, NewestTelemetry,
     TravelJustified, RunsFounded, ClearedWasJudged
<1> QED BY <1>1, <1>2, <1>3, <1>4, <1>5, <1>6 DEF Next

\* engine.ts and geospatial_rule.ts: results and stored telemetry stem from the
\* transactions that were evaluated.
THEOREM EngineInvariant == Spec => []EngineInv
BY InitEstablishes, StepPreserves, PTL DEF Spec

-----------------------------------------------------------------------------
\* The typing of the engine's state.
THEOREM EngineTypeCorrect == Spec => []TypeOK
<1>1. EngineInv => TypeOK BY DEF EngineInv
<1> QED BY <1>1, EngineInvariant, PTL

\* The Lua script of the geospatial rule keeps the newest telemetry.
THEOREM TelemetryNewest == Spec => []NewestTelemetry
<1>1. EngineInv => NewestTelemetry BY DEF EngineInv
<1> QED BY <1>1, EngineInvariant, PTL

\* The geospatial rule accuses only of travel from an earlier transaction.
THEOREM AccusationsJustified == Spec => []TravelJustified
<1>1. EngineInv => TravelJustified BY DEF EngineInv
<1> QED BY <1>1, EngineInvariant, PTL

\* The fail-closed policy of orchestrate: no failure clears a transaction.
THEOREM FailClosed == Spec => []ClearedWasJudged
<1>1. EngineInv => ClearedWasJudged BY DEF EngineInv
<1> QED BY <1>1, EngineInvariant, PTL

-----------------------------------------------------------------------------
\* The geospatial rule settles as quiet in one action only.
LEMMA OnlyEvaluateIsQuiet ==
  ASSUME TypeOK, [Next]_vars, NEW w \in Workers,
         result[w]["geospatial"] = "pending", result'[w]["geospatial"] = "quiet"
  PROVE  EvaluateGeospatial(w)
<1>1. "geospatial" \in Rules BY DEF Rules
<1>2. result' # result OBVIOUS
<1>3. ASSUME NEW v \in Workers, NEW t \in Txs, Start(v, t) PROVE FALSE
  BY <1>1, <1>3 DEF Start, TypeOK
<1>4. ASSUME NEW v \in Workers, Clear(v) \/ Dispatch(v) \/ Abort(v) PROVE FALSE
  BY <1>1, <1>4 DEF Clear, Dispatch, Abort, End, TypeOK
<1>5. ASSUME NEW v \in Workers, GeospatialResent(v) \/ DecideToFlag(v) PROVE FALSE
  BY <1>2, <1>5 DEF GeospatialResent, DecideToFlag
<1>6. ASSUME NEW v \in Workers, NEW rule \in Rules, NEW o \in Outcomes,
             Settle(v, rule, o)
      PROVE  v = w /\ rule = "geospatial" /\ o = "quiet"
  BY <1>1, <1>6, SettleFrame
<1>7. ASSUME NEW v \in Workers,
             EvaluateBlacklist(v) \/ EvaluateVelocity(v) \/ VelocityFails(v)
               \/ GeospatialFails(v)
      PROVE  FALSE
  BY <1>6, <1>7 DEF EvaluateBlacklist, EvaluateVelocity, VelocityFails,
     GeospatialFails, Rules, Outcomes
<1>8. ASSUME NEW v \in Workers, EvaluateGeospatial(v) PROVE v = w
  BY <1>1, <1>6, <1>8 DEF EvaluateGeospatial, Outcomes
<1>9. CASE UNCHANGED vars BY <1>2, <1>9 DEF vars
<1> QED BY <1>3, <1>4, <1>5, <1>7, <1>8, <1>9 DEF Next

-----------------------------------------------------------------------------
\* The sums over the three rules: a larger set never weighs less.
LEMMA TotalsGrow ==
  ASSUME NEW S \in SUBSET Rules
  PROVE  WeightOf(S) \in Nat /\ WeightOf(Rules) \in Nat
         /\ WeightOf(S) <= WeightOf(Rules)
<1>1. \A r \in {"blacklist", "geospatial", "velocity"} : Weight[r] \in Nat
  BY RulesAssumption DEF Rules
<1> QED BY <1>1 DEF WeightOf, Total, Rules

LEMMA ScoresAreNumbers ==
  ASSUME NEW S \in SUBSET Rules
  PROVE  ScoreOf(S) \in Nat
<1> DEFINE f == [r \in Rules |-> Weight[r] * Score[r]]
<1>1. \A r \in {"blacklist", "geospatial", "velocity"} : f[r] \in Nat
  BY RulesAssumption DEF Rules
<1> HIDE DEF f
<1>2. Total(f, S) \in Nat BY <1>1 DEF Total
<1> QED BY <1>2 DEF ScoreOf, f

\* A hit that does not reach the mean of some rules does not reach that of all.
LEMMA MoreRulesDilute ==
  ASSUME NEW S \in SUBSET Rules, NEW Hits \in SUBSET S, ~MeanReaches(Hits, S)
  PROVE  ~MeanReaches(Hits, Rules)
<1>1. Threshold \in Nat BY RulesAssumption
<1>2. PICK a \in Nat, b \in Nat, h \in Nat :
        a = WeightOf(S) /\ b = WeightOf(Rules) /\ h = ScoreOf(Hits) /\ a <= b
  BY TotalsGrow, ScoresAreNumbers
<1>3. CASE a = 0
  <2>1. Threshold > 0 BY <1>1, <1>2, <1>3 DEF MeanReaches
  <2>2. h = 0
    <3>1. \A r \in S : Weight[r] = 0
      <4>1. \A r \in {"blacklist", "geospatial", "velocity"} : Weight[r] \in Nat
        BY RulesAssumption DEF Rules
      <4> QED BY <1>2, <1>3, <4>1 DEF WeightOf, Total, Rules
    <3>2. \A r \in Hits : Weight[r] * Score[r] = 0
      BY <3>1, RulesAssumption
    <3> QED BY <1>2, <3>2 DEF ScoreOf, Total, Rules
  <2>3. b > 0 => Threshold * b > 0 BY <1>1, <1>2, <2>1
  <2> QED BY <1>1, <1>2, <2>1, <2>2, <2>3 DEF MeanReaches
<1>4. CASE a # 0
  <2>1. h < Threshold * a BY <1>1, <1>2, <1>4 DEF MeanReaches
  <2>2. Threshold * a <= Threshold * b BY <1>1, <1>2
  <2> QED BY <1>1, <1>2, <1>4, <2>1, <2>2 DEF MeanReaches
<1> QED BY <1>3, <1>4

\* No failed rule clears a transaction: aggregate leaves it out of the mean.
THEOREM FailOpenIsSafe == Spec => FailureNeverHelps
<1> DEFINE Step == \A w \in Workers :
             pc'[w] = "idle" /\ of[w] \in cleared' \ cleared
               => ~MeanReaches(Suspicious(w), Rules)
<1>1. ASSUME EngineInv, [Next]_vars PROVE [Step]_vars
  <2> SUFFICES ASSUME NEW w \in Workers, pc'[w] = "idle",
                      of[w] \in cleared' \ cleared
               PROVE  ~MeanReaches(Suspicious(w), Rules)
    OBVIOUS
  <2>1. PICK v \in Workers : Clear(v)
    BY <1>1 DEF Next, vars, Start, EvaluateBlacklist, EvaluateVelocity,
       VelocityFails, EvaluateGeospatial, GeospatialResent, GeospatialFails,
       DecideToFlag, Dispatch, Abort
  <2>2. TypeOK /\ RunsFounded BY <1>1 DEF EngineInv
  <2>3. pc[v] = "rules" /\ pc' = [pc EXCEPT ![v] = "idle"] /\ of[w] = of[v]
    BY <2>1 DEF Clear, End
  <2>4. w = v
    <3>1. of[w] # NoTx BY <2>2, <2>3, TimeAssumption DEF RunsFounded
    <3>2. pc[w] # "idle" BY <2>2, <3>1 DEF RunsFounded
    <3> QED BY <2>2, <2>3, <3>2 DEF TypeOK
  <2>5. ~MeanReaches(Suspicious(w), Successful(w))
    BY <2>1, <2>4 DEF Clear, AboveThreshold
  <2>6. Suspicious(w) \subseteq Successful(w) /\ Successful(w) \subseteq Rules
    BY DEF Suspicious, Successful
  <2> QED BY <2>5, <2>6, MoreRulesDilute
<1> QED BY <1>1, EngineInvariant, PTL DEF Spec, FailureNeverHelps

\* The geospatial rule misses no impossible travel from the newest transaction,
\* as far as Lua can tell which one that is.
THEOREM TravelIsDetected == Spec => TravelDetected
<1> DEFINE Step == \A w \in Workers :
      /\ result[w]["geospatial"] = "pending"
      /\ result'[w]["geospatial"] = "quiet"
      /\ of[w] \notin seen
      => \A u \in seen :
           /\ \A v \in seen : Ts[v] <= Ts[u]
           /\ Ts[u] < Ts[of[w]]
           => \E v \in seen : Rounded[v] = Rounded[u] /\ <<v, of[w]>> \notin Far
<1>1. ASSUME EngineInv, [Next]_vars PROVE [Step]_vars
  <2> SUFFICES ASSUME NEW w \in Workers,
                      result[w]["geospatial"] = "pending",
                      result'[w]["geospatial"] = "quiet",
                      NEW u \in seen, \A v \in seen : Ts[v] <= Ts[u],
                      Ts[u] < Ts[of[w]]
               PROVE  \E v \in seen :
                        Rounded[v] = Rounded[u] /\ <<v, of[w]>> \notin Far
    OBVIOUS
  <2>1. TypeOK /\ RunsFounded /\ NewestTelemetry BY <1>1 DEF EngineInv
  <2>2. EvaluateGeospatial(w) BY <1>1, <2>1, OnlyEvaluateIsQuiet
  <2>3. ~ImpossibleTravel(of[w]) /\ of[w] \in Txs
    <3>1. "geospatial" \in Rules BY DEF Rules
    <3> QED BY <2>1, <2>2, <3>1
        DEF EvaluateGeospatial, Settle, TypeOK, RunsFounded
  <2>4. last \in seen /\ last \in Txs /\ last # NoTx /\ u \in Txs
    BY <2>1, TimeAssumption DEF NewestTelemetry, TypeOK
  <2>5. Rounded[last] = Rounded[u]
    <3>1. Ts[u] <= Ts[last] \/ Rounded[u] = Rounded[last]
      BY <2>1, <2>4 DEF NewestTelemetry
    <3>2. Ts[last] <= Ts[u] BY <2>4
    <3> QED BY <3>1, <3>2, <2>4, DoublesOrdered
  <2>6. Ts[of[w]] > Ts[last]
    <3>1. Ts[last] <= Ts[u] BY <2>4
    <3>2. Ts[last] \in Nat /\ Ts[u] \in Nat /\ Ts[of[w]] \in Nat
      BY <2>3, <2>4, TimeAssumption
    <3> QED BY <3>1, <3>2
  <2>7. <<last, of[w]>> \notin Far BY <2>3, <2>4, <2>6 DEF ImpossibleTravel
  <2> QED BY <2>4, <2>5, <2>7
<1> QED BY <1>1, EngineInvariant, PTL DEF Spec, TravelDetected
=============================================================================
