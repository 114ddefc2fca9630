------------------------- MODULE RuleRegistryProofs -------------------------
(***************************************************************************)
(* Proofs about RuleRegistry for any configurations, merchants and number  *)
(* of calls.                                                               *)
(***************************************************************************)
EXTENDS RuleRegistry, FiniteSetTheorems, TLAPS

\* The blacklist and the window of a call are those of one configuration.
StartedUnder(c, start) ==
  /\ asked[c] = start.VELOCITY_WINDOW_SECONDS
  /\ result[c]["blacklist"] = Judged(merchant[c] \in start.MERCHANT_BLACKLIST)

\* So are the judgement of the velocity rule and what it reports.
SettledUnder(c, middle) ==
  result[c]["velocity"] \notin {"pending", "failed"} =>
    /\ report[c].settings = VelocityOf(middle)
    /\ result[c]["velocity"] =
         Judged(report[c].calculatedCount > middle.VELOCITY_THRESHOLD)

AnsweredUnder(c, end) ==
  verdict[c] = Verdict(result[c], end.CRITICAL_RULE_IDS, end.FRAUD_THRESHOLD)

\* A running call knows the configuration in force; what it read so far stems from
\* configurations that it has seen.
CallInv(c) ==
  /\ pc[c] = "rules" => current \in during[c]
  /\ pc[c] # "idle" => /\ \E start \in during[c] : StartedUnder(c, start)
                       /\ \E middle \in during[c] : SettledUnder(c, middle)
  /\ pc[c] = "returned" => \E end \in during[c] : AnsweredUnder(c, end)

RegistryInv == TypeOK /\ InForce /\ \A c \in Callers : CallInv(c)

-----------------------------------------------------------------------------
(* The conditional assignments of reloadConfig assign the new values.      *)

LEMMA ConfigTypes ==
  ASSUME NEW new \in Configs
  PROVE  /\ new.FRAUD_THRESHOLD \in Nat /\ new.CRITICAL_RULE_IDS \subseteq Rules
         /\ new.VELOCITY_THRESHOLD \in Nat /\ new.VELOCITY_WINDOW_SECONDS \in Nat
         /\ new.MERCHANT_BLACKLIST \subseteq Merchants
         /\ VelocityOf(new) \in Settings
BY ConfigAssumption DEF SystemConfiguration, VelocityOf, Settings

\* Unless threshold or window changed the fields are those of the configuration.
LEMMA VelocityTakesOver ==
  ASSUME TypeOK, NEW new \in Configs PROVE VelocityReloaded(new) = VelocityOf(new)
BY ConfigTypes DEF TypeOK, Settings, VelocityReloaded, VelocityOf

\* A finite set of the same size without a new member is the same set.
LEMMA BlacklistTakesOver ==
  ASSUME TypeOK, NEW new \in Configs
  PROVE  BlacklistReloaded(new) = new.MERCHANT_BLACKLIST
<1> DEFINE list == new.MERCHANT_BLACKLIST
<1>1. IsFiniteSet(blacklist) BY DomainAssumption, FS_Subset DEF TypeOK
<1>2. CASE \/ Cardinality(list) # Cardinality(blacklist)
           \/ \E m \in list : m \notin blacklist
  BY <1>2 DEF BlacklistReloaded
<1>3. CASE /\ Cardinality(list) = Cardinality(blacklist)
           /\ \A m \in list : m \in blacklist
  <2>1. list \subseteq blacklist BY <1>3
  <2>2. list = blacklist BY <1>1, <1>3, <2>1, FS_Subset
  <2> QED BY <1>3, <2>2 DEF BlacklistReloaded
<1> QED BY <1>2, <1>3

-----------------------------------------------------------------------------
LEMMA InitRegistry == Init => RegistryInv
<1> SUFFICES ASSUME Init PROVE RegistryInv OBVIOUS
<1>1. First \in Configs BY ConfigAssumption
<1>2. [calculatedCount |-> 0, settings |-> VelocityOf(First)] \in Metadata
  BY <1>1, ConfigTypes DEF Metadata
<1>3. TypeOK BY <1>1, <1>2, ConfigTypes, DomainAssumption DEF Init, TypeOK, Outcomes
<1>4. InForce BY DEF Init, InForce
<1>5. \A c \in Callers : CallInv(c) BY DEF Init, CallInv
<1> QED BY <1>3, <1>4, <1>5 DEF RegistryInv

\* A reload puts its configuration in force and adds it to what running calls saw.
LEMMA ReloadPreserves ==
  ASSUME RegistryInv, NEW new \in Configs, ReloadAll(new) PROVE RegistryInv'
<1> USE DEF RegistryInv
<1>1. velocity' = VelocityOf(new) /\ blacklist' = new.MERCHANT_BLACKLIST
  BY VelocityTakesOver, BlacklistTakesOver DEF ReloadAll
<1>2. InForce' BY <1>1 DEF ReloadAll, InForce
<1>3. TypeOK' BY <1>1, ConfigTypes DEF ReloadAll, TypeOK
<1>4. ASSUME NEW c \in Callers PROVE CallInv(c)'
  <2>1. during[c] \subseteq during'[c] BY DEF ReloadAll, TypeOK
  <2>2. pc'[c] = "rules" => current' \in during'[c] BY DEF ReloadAll, TypeOK
  <2> QED BY <2>1, <2>2 DEF ReloadAll, CallInv, StartedUnder, SettledUnder, AnsweredUnder
<1> QED BY <1>2, <1>3, <1>4

\* A step of one call leaves the other calls alone.
LEMMA OthersKeep ==
  ASSUME NEW c \in Callers, NEW d \in Callers, d # c, CallInv(d),
         pc'[d] = pc[d], merchant'[d] = merchant[d], result'[d] = result[d],
         asked'[d] = asked[d], report'[d] = report[d], verdict'[d] = verdict[d],
         during'[d] = during[d], UNCHANGED config
  PROVE  CallInv(d)'
BY DEF CallInv, StartedUnder, SettledUnder, AnsweredUnder, config

LEMMA StartPreserves ==
  ASSUME RegistryInv, NEW c \in Callers, NEW m \in Merchants, Start(c, m)
  PROVE  RegistryInv'
<1> USE DEF RegistryInv
<1>1. InForce' BY DEF Start, config, InForce
<1>2. TypeOK'
  <2>1. Judged(m \in blacklist) \in Outcomes BY DEF Judged, Outcomes
  <2> QED BY <2>1 DEF Start, config, TypeOK, Outcomes, Settings
<1>3. ASSUME NEW d \in Callers, d # c PROVE CallInv(d)'
  BY <1>3, OthersKeep DEF Start, TypeOK
<1>4. CallInv(c)'
  <2>1. pc'[c] = "rules" /\ during'[c] = {current} /\ current' = current
    BY DEF Start, config, TypeOK
  <2>2. StartedUnder(c, current)'
    BY DEF StartedUnder, Start, config, TypeOK, InForce, VelocityOf, Rules
  <2>3. SettledUnder(c, current)' BY DEF SettledUnder, Start, TypeOK, Rules
  <2> QED BY <2>1, <2>2, <2>3 DEF CallInv
<1> QED BY <1>1, <1>2, <1>3, <1>4

\* What the settling of a promise keeps, whichever rule it is.
LEMMA SettleKeeps ==
  ASSUME RegistryInv, NEW c \in Callers, NEW r \in Rules, r # "blacklist",
         NEW outcome \in Outcomes \ {"pending"}, Settle(c, r, outcome),
         report' \in [Callers -> Metadata],
         \A d \in Callers \ {c} : report'[d] = report[d],
         \E middle \in during[c] : SettledUnder(c, middle)'
  PROVE  RegistryInv'
<1> USE DEF RegistryInv
<1>1. InForce' BY DEF Settle, config, InForce
<1>2. TypeOK' BY DEF Settle, config, TypeOK
<1>3. ASSUME NEW d \in Callers, d # c PROVE CallInv(d)'
  BY <1>3, OthersKeep DEF Settle, TypeOK
<1>4. CallInv(c)'
  <2>1. /\ pc'[c] = "rules" /\ pc[c] = "rules" /\ during'[c] = during[c]
        /\ current' = current
    BY DEF Settle, config
  <2>2. result'[c]["blacklist"] = result[c]["blacklist"] BY DEF Settle, TypeOK, Rules
  <2>3. \A start \in during[c] : StartedUnder(c, start) => StartedUnder(c, start)'
    BY <2>2 DEF StartedUnder, Settle
  <2> QED BY <2>1, <2>3 DEF CallInv
<1> QED BY <1>1, <1>2, <1>3, <1>4

LEMMA VelocityPreserves ==
  ASSUME RegistryInv, NEW c \in Callers, NEW count \in Counts,
         VelocitySettles(c, count)
  PROVE  RegistryInv'
<1> DEFINE outcome == Judged(count > velocity.threshold)
           data    == [calculatedCount |-> count, settings |-> velocity]
<1> USE DEF RegistryInv
<1>1. Settle(c, "velocity", outcome) /\ report' = [report EXCEPT ![c] = data]
  BY DEF VelocitySettles
<1>2. outcome \in Outcomes \ {"pending"} BY DEF Judged, Outcomes
<1>3. data \in Metadata BY DomainAssumption DEF Metadata, TypeOK
<1>4. report' \in [Callers -> Metadata] BY <1>1, <1>3 DEF TypeOK
<1>5. \A d \in Callers \ {c} : report'[d] = report[d] BY <1>1 DEF TypeOK
<1>6. current \in during[c] BY <1>1 DEF Settle, CallInv
<1>7. SettledUnder(c, current)'
  <2>1. report'[c] = data BY <1>1 DEF TypeOK
  <2>2. result'[c]["velocity"] = outcome BY <1>1 DEF Settle, TypeOK, Rules
  <2>3. current' = current BY <1>1 DEF Settle, config
  <2>4. velocity = VelocityOf(current) BY DEF InForce
  <2>5. velocity.threshold = current.VELOCITY_THRESHOLD BY <2>4 DEF VelocityOf
  <2> HIDE DEF data
  <2> QED BY <2>1, <2>2, <2>3, <2>4, <2>5 DEF SettledUnder, data
<1>8. \E s \in during[c] : SettledUnder(c, s)'
  BY <1>6, <1>7 DEF SettledUnder, Settle, VelocitySettles, config
<1> HIDE DEF outcome
<1> QED BY <1>1, <1>2, <1>4, <1>5, <1>8, SettleKeeps DEF Rules

LEMMA GeospatialPreserves ==
  ASSUME RegistryInv, NEW c \in Callers, GeospatialSettles(c) PROVE RegistryInv'
<1> USE DEF RegistryInv
<1>1. PICK suspicious \in BOOLEAN : Settle(c, "geospatial", Judged(suspicious))
  BY DEF GeospatialSettles
<1>2. Judged(suspicious) \in Outcomes \ {"pending"} BY DEF Judged, Outcomes
<1>3. report' = report BY DEF GeospatialSettles
<1>4. \E middle \in during[c] : SettledUnder(c, middle)'
  <2>1. PICK middle \in during[c] : SettledUnder(c, middle) BY <1>1 DEF CallInv, Settle
  <2>2. result'[c]["velocity"] = result[c]["velocity"] BY <1>1 DEF Settle, TypeOK, Rules
  <2> QED BY <2>1, <2>2, <1>3 DEF SettledUnder
<1> QED BY <1>1, <1>2, <1>3, <1>4, SettleKeeps DEF Rules, TypeOK

LEMMA FailurePreserves ==
  ASSUME RegistryInv, NEW c \in Callers, NEW r \in Rules, RuleFails(c, r)
  PROVE  RegistryInv'
<1> USE DEF RegistryInv
<1>1. r # "blacklist" /\ Settle(c, r, "failed") /\ report' = report BY DEF RuleFails
<1>2. "failed" \in Outcomes \ {"pending"} BY DEF Outcomes
<1>3. \E middle \in during[c] : SettledUnder(c, middle)'
  <2>1. PICK middle \in during[c] : SettledUnder(c, middle) BY <1>1 DEF CallInv, Settle
  <2>2. \/ result'[c]["velocity"] = result[c]["velocity"]
        \/ result'[c]["velocity"] = "failed"
    BY <1>1 DEF Settle, TypeOK, Rules
  <2> QED BY <2>1, <2>2, <1>1 DEF SettledUnder
<1> QED BY <1>1, <1>2, <1>3, SettleKeeps DEF TypeOK

LEMMA ReturnPreserves ==
  ASSUME RegistryInv, NEW c \in Callers, Return(c) PROVE RegistryInv'
<1> USE DEF RegistryInv
<1>1. InForce' BY DEF Return, config, InForce
<1>2. Verdict(result[c], criticalRuleIds, threshold) \in BOOLEAN BY DEF Verdict
<1>3. TypeOK' BY <1>2 DEF Return, config, TypeOK
<1>4. ASSUME NEW d \in Callers, d # c PROVE CallInv(d)'
  BY <1>4, OthersKeep DEF Return, TypeOK
<1>5. CallInv(c)'
  <2>1. /\ pc[c] = "rules" /\ pc'[c] = "returned" /\ during'[c] = during[c]
        /\ result' = result /\ asked' = asked /\ report' = report
        /\ merchant' = merchant
    BY DEF Return, TypeOK
  <2>2. AnsweredUnder(c, current)' /\ current' = current
    BY <2>1 DEF AnsweredUnder, Return, config, TypeOK, InForce
  <2>3. current \in during'[c] BY <2>1 DEF CallInv
  <2> QED BY <2>1, <2>2, <2>3 DEF CallInv, StartedUnder, SettledUnder
<1> QED BY <1>1, <1>3, <1>4, <1>5

LEMMA RegistryStep == RegistryInv /\ [Next]_vars => RegistryInv'
<1> SUFFICES ASSUME RegistryInv, [Next]_vars PROVE RegistryInv' OBVIOUS
<1>1. CASE UNCHANGED vars
  BY <1>1 DEF vars, config, calls, RegistryInv, TypeOK, InForce, CallInv,
              StartedUnder, SettledUnder, AnsweredUnder
<1>2. CASE \E new \in Configs : ReloadAll(new) BY <1>2, ReloadPreserves
<1>3. CASE \E c \in Callers :
             \/ \E m \in Merchants : Start(c, m)
             \/ \E count \in Counts : VelocitySettles(c, count)
             \/ GeospatialSettles(c)
             \/ \E r \in Rules : RuleFails(c, r)
             \/ Return(c)
  BY <1>3, StartPreserves, VelocityPreserves, GeospatialPreserves, FailurePreserves,
     ReturnPreserves
<1> QED BY <1>1, <1>2, <1>3 DEF Next

LEMMA RegistryInvariant == Spec => []RegistryInv
BY InitRegistry, RegistryStep, PTL DEF Spec

-----------------------------------------------------------------------------
\* Types, and no answer before every rule has settled.
THEOREM RegistryTypeCorrect == Spec => []TypeOK
<1>1. RegistryInv => TypeOK BY DEF RegistryInv
<1> QED BY <1>1, RegistryInvariant, PTL

\* Skipped assignments and all: registry and rules hold the last configuration.
THEOREM ReloadTakesEffect == Spec => []InForce
<1>1. RegistryInv => InForce BY DEF RegistryInv
<1> QED BY <1>1, RegistryInvariant, PTL

\* A verdict stems from configurations that were in force while it was made.
THEOREM VerdictsInForce == Spec => []VerdictInForce
<1>1. RegistryInv => VerdictInForce
  <2> SUFFICES ASSUME RegistryInv, NEW c \in Callers, pc[c] = "returned"
               PROVE  \E start, middle, end \in during[c] :
                        /\ asked[c] = start.VELOCITY_WINDOW_SECONDS
                        /\ result[c]["blacklist"] =
                             Judged(merchant[c] \in start.MERCHANT_BLACKLIST)
                        /\ result[c]["velocity"] # "failed" =>
                             /\ report[c].settings = VelocityOf(middle)
                             /\ result[c]["velocity"] =
                                  Judged(report[c].calculatedCount
                                           > middle.VELOCITY_THRESHOLD)
                        /\ verdict[c] = Verdict(result[c], end.CRITICAL_RULE_IDS,
                                                end.FRAUD_THRESHOLD)
    BY DEF VerdictInForce
  <2>1. CallInv(c) /\ result[c]["velocity"] # "pending"
    BY DEF RegistryInv, TypeOK, Rules
  <2>2. PICK start \in during[c] : StartedUnder(c, start) BY <2>1 DEF CallInv
  <2>3. PICK middle \in during[c] : SettledUnder(c, middle) BY <2>1 DEF CallInv
  <2>4. PICK end \in during[c] : AnsweredUnder(c, end) BY <2>1 DEF CallInv
  <2> QED BY <2>1, <2>2, <2>3, <2>4 DEF StartedUnder, SettledUnder, AnsweredUnder
<1> QED BY <1>1, RegistryInvariant, PTL
=============================================================================
