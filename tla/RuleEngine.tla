----------------------------- MODULE RuleEngine -----------------------------
(***************************************************************************)
(* EngineCoreOrchestrator.orchestrate                                      *)
(* (rules/engine/orchestrator/core/engine.ts) with the three rules and the *)
(* risk aggregator, for transactions of one user.  Several orchestrations  *)
(* run at once, of different transactions or of the same one delivered     *)
(* again, and share the telemetry that the geospatial rule keeps in Redis. *)
(* The promises of the rules settle in any order.                          *)
(***************************************************************************)
EXTENDS Integers

CONSTANTS Txs,          \* validated transactions of the user
          Ts,           \* transaction -> timestamp in nanoseconds
          Rounded,      \* transaction -> the double that Lua makes of it
          Far,          \* pairs too far apart to travel in the time between
          Blacklisted,  \* transactions at a merchant of the blacklist
          Workers,      \* orchestrations that run at the same time
          NoTx,         \* no transaction
          Weight,       \* RULE_WEIGHTS, times ten
          Score,        \* riskScore of a suspicious result, times ten
          Threshold,    \* FRAUD_THRESHOLD, times ten
          Critical,     \* CRITICAL_RULE_IDS
          MaxFaults     \* bound: failures of Redis, the alerts, the process

Rules == {"blacklist", "geospatial", "velocity"}

ASSUME TimeAssumption  == /\ Ts \in [Txs -> Nat \ {0}] /\ NoTx \notin Txs
                          /\ Rounded \in [Txs -> Nat \ {0}]
                          /\ \A t, u \in Txs :
                               Ts[t] <= Ts[u] => Rounded[t] <= Rounded[u]
ASSUME RulesAssumption == /\ Weight \in [Rules -> Nat] /\ Score \in [Rules -> Nat]
                          /\ Threshold \in Nat /\ Critical \subseteq Rules
                          /\ MaxFaults \in Nat
ASSUME WorldAssumption == Far \subseteq Txs \X Txs /\ Blacklisted \subseteq Txs

VARIABLES last,      \* user:<id>:last_telemetry: its transaction, or NoTx
          pc,        \* what each worker is doing
          of,        \* the transaction it orchestrates
          result,    \* worker -> rule -> how its promise settled
          seen,      \* transactions for which the geospatial script ran
          cleared,   \* transactions whose latest verdict was not to flag
          faults     \* failures so far

vars == <<last, pc, of, result, seen, cleared, faults>>

Outcomes == {"pending", "quiet", "suspicious", "failed"}

Init ==
  /\ last = NoTx
  /\ pc = [w \in Workers |-> "idle"]
  /\ of = [w \in Workers |-> NoTx]
  /\ result = [w \in Workers |-> [r \in Rules |-> "pending"]]
  /\ seen = {} /\ cleared = {}
  /\ faults = 0

Fault == faults < MaxFaults /\ faults' = faults + 1

Settle(w, rule, outcome) ==
  /\ pc[w] = "rules"
  /\ result[w][rule] = "pending"
  /\ result' = [result EXCEPT ![w][rule] = outcome]

\* orchestrate(t): the rules of the registry are started.
Start(w, t) ==
  /\ pc[w] = "idle"
  /\ pc' = [pc EXCEPT ![w] = "rules"]
  /\ of' = [of EXCEPT ![w] = t]
  /\ result' = [result EXCEPT ![w] = [r \in Rules |-> "pending"]]
  /\ UNCHANGED <<last, seen, cleared, faults>>

-----------------------------------------------------------------------------
(* The rules.                                                              *)

EvaluateBlacklist(w) ==
  /\ Settle(w, "blacklist",
            IF of[w] \in Blacklisted THEN "suspicious" ELSE "quiet")
  /\ UNCHANGED <<last, pc, of, seen, cleared, faults>>

\* The count of the user's transactions, which ProjectionStore models, is or
\* is not above VELOCITY_THRESHOLD.
EvaluateVelocity(w) ==
  /\ \E o \in {"quiet", "suspicious"} : Settle(w, "velocity", o)
  /\ UNCHANGED <<last, pc, of, seen, cleared, faults>>

\* Mutant of VelocityFails: a time-out is an outcome of its own.
VelocityTimesOut(w) ==
  /\ Settle(w, "velocity", "timeout")
  /\ Fault
  /\ UNCHANGED <<last, pc, of, seen, cleared>>

VelocityFails(w) ==
  /\ Settle(w, "velocity", "failed")
  /\ Fault
  /\ UNCHANGED <<last, pc, of, seen, cleared>>

\* Mutant of Newer: the script stores the telemetry of every transaction.
NewerAlways(t) == TRUE

\* The script's comparison of the stored timestamp with that of t: tonumber has
\* made doubles of both.
Newer(t) == last = NoTx \/ Rounded[t] > Rounded[last]

\* One run of the Lua script for t.
GeoScript(t) ==
  /\ last' = IF Newer(t) THEN t ELSE last
  /\ seen' = seen \cup {t}

\* Mutant of ImpossibleTravel: without the check of timeDiffNs.
ImpossibleTravelAnyOrder(t) ==
  last # NoTx /\ (<<last, t>> \in Far \/ <<t, last>> \in Far)

\* What evaluate makes of the telemetry the script returned, which is the one
\* stored before: more than SPEED_LIMIT_KMH since then, with bigints.
ImpossibleTravel(t) ==
  last # NoTx /\ Ts[t] > Ts[last] /\ <<last, t>> \in Far

EvaluateGeospatial(w) ==
  /\ Settle(w, "geospatial",
            IF ImpossibleTravel(of[w]) THEN "suspicious" ELSE "quiet")
  /\ GeoScript(of[w])
  /\ UNCHANGED <<pc, of, cleared, faults>>

\* The answer of the script is lost and ioredis sends it again.
GeospatialResent(w) ==
  /\ pc[w] = "rules"
  /\ result[w]["geospatial"] = "pending"
  /\ Fault
  /\ GeoScript(of[w])
  /\ UNCHANGED <<pc, of, result, cleared>>

\* eval rejects, before or after the script ran.
GeospatialFails(w) ==
  /\ Settle(w, "geospatial", "failed")
  /\ Fault
  /\ GeoScript(of[w]) \/ UNCHANGED <<last, seen>>
  /\ UNCHANGED <<pc, of, cleared>>

-----------------------------------------------------------------------------
(* allSettled, aggregation and flagging.                                   *)

Settled(w)    == \A r \in Rules : result[w][r] # "pending"
Successful(w) == {r \in Rules : result[w][r] \in {"quiet", "suspicious"}}

\* Mutant of CriticalFailure: no rule is critical.
CriticalFailureIgnored(w) == FALSE

CriticalFailure(w) == \E r \in Critical : result[w][r] = "failed"

\* The sum of f over the rules in S.
Total(f, S) == LET part(r) == IF r \in S THEN f[r] ELSE 0
               IN part("blacklist") + part("geospatial") + part("velocity")
WeightOf(S) == Total(Weight, S)
ScoreOf(S)  == Total([r \in Rules |-> Weight[r] * Score[r]], S)
\* RiskAggregator.aggregate against the threshold: the weighted mean over the
\* rules in S, of which those in Hits are suspicious; 0 without any weight.
MeanReaches(Hits, S) ==
  IF WeightOf(S) = 0 THEN Threshold = 0
                     ELSE ScoreOf(Hits) >= Threshold * WeightOf(S)

Suspicious(w) == {r \in Rules : result[w][r] = "suspicious"}

\* Mutant of AboveThreshold: a failed rule ends in the "safe score" 0.
AboveThresholdIfComplete(w) ==
  Successful(w) = Rules /\ MeanReaches(Suspicious(w), Rules)

AboveThreshold(w) == MeanReaches(Suspicious(w), Successful(w))

DecideToFlag(w) ==
  /\ pc[w] = "rules" /\ Settled(w)
  /\ CriticalFailure(w) \/ AboveThreshold(w)
  /\ cleared' = cleared \ {of[w]}
  /\ pc' = [pc EXCEPT ![w] = "flagging"]
  /\ UNCHANGED <<last, of, result, seen, faults>>

End(w) == pc' = [pc EXCEPT ![w] = "idle"] /\ of' = [of EXCEPT ![w] = NoTx]
            /\ result' = [result EXCEPT ![w] = [r \in Rules |-> "pending"]]

Clear(w) ==
  /\ pc[w] = "rules" /\ Settled(w)
  /\ ~CriticalFailure(w) /\ ~AboveThreshold(w)
  /\ cleared' = cleared \cup {of[w]}
  /\ End(w)
  /\ UNCHANGED <<last, seen, faults>>

\* handleFlagging: dispatchFlag, modelled by AlertingSubsystem, returns ...
Dispatch(w) ==
  /\ pc[w] = "flagging"
  /\ End(w)
  /\ UNCHANGED <<last, seen, cleared, faults>>

\* ... or throws, and orchestrate with it; or the process dies.  The
\* transaction may be delivered again, from the log or the dead-letter topic.
Abort(w) ==
  /\ pc[w] # "idle"
  /\ Fault
  /\ End(w)
  /\ UNCHANGED <<last, seen, cleared>>

Next == \E w \in Workers :
  \/ \E t \in Txs : Start(w, t)
  \/ EvaluateBlacklist(w) \/ EvaluateVelocity(w) \/ VelocityFails(w)
  \/ EvaluateGeospatial(w) \/ GeospatialResent(w) \/ GeospatialFails(w)
  \/ DecideToFlag(w) \/ Clear(w) \/ Dispatch(w) \/ Abort(w)

Spec == Init /\ [][Next]_vars

-----------------------------------------------------------------------------
\* Every variable has its type.
TypeOK ==
  /\ last \in Txs \cup {NoTx}
  /\ pc \in [Workers -> {"idle", "rules", "flagging"}]
  /\ of \in [Workers -> Txs \cup {NoTx}]
  /\ result \in [Workers -> [Rules -> Outcomes]]
  /\ seen \subseteq Txs
  /\ cleared \subseteq Txs
  /\ faults \in 0..MaxFaults

\* The stored telemetry is that of the newest transaction evaluated so far, or of
\* one that Lua cannot tell from it, whatever the order in which orchestrations,
\* repetitions and resent scripts reach Redis.
NewestTelemetry ==
  /\ last # NoTx <=> seen # {}
  /\ last # NoTx => /\ last \in seen
                    /\ \A u \in seen : Ts[u] <= Ts[last] \/ Rounded[u] = Rounded[last]

\* The geospatial rule accuses a transaction only of travel from an earlier
\* one that was evaluated before it, also when events arrive out of order.
TravelJustified ==
  \A w \in Workers : result[w]["geospatial"] = "suspicious" =>
    \E u \in seen : Ts[u] < Ts[of[w]] /\ <<u, of[w]>> \in Far

\* Fail-closed: no transaction is cleared unless the geospatial script, a
\* critical rule, judged it; failures of Redis never clear one.
ClearedWasJudged == "geospatial" \in Critical => cleared \subseteq seen

\* A transaction that is newer than all evaluated ones, and whose script runs
\* for the first time, is compared with the newest of them, or one Lua cannot
\* tell from it: it is never quiet when the travel from all of these is impossible.
TravelDetected ==
  [][\A w \in Workers :
       /\ result[w]["geospatial"] = "pending"
       /\ result'[w]["geospatial"] = "quiet"
       /\ of[w] \notin seen
       => \A u \in seen :
            /\ \A v \in seen : Ts[v] <= Ts[u]
            /\ Ts[u] < Ts[of[w]]
            => \E v \in seen : Rounded[v] = Rounded[u] /\ <<v, of[w]>> \notin Far]_vars

\* Fail-open (rule-registry.ts: a failed rule counts as a score of 0): no
\* transaction is cleared that would be flagged with quiet results in place of
\* its failed ones.
FailureNeverHelps ==
  [][\A w \in Workers :
       pc'[w] = "idle" /\ of[w] \in cleared' \ cleared
         => ~MeanReaches(Suspicious(w), Rules)]_vars
=============================================================================
