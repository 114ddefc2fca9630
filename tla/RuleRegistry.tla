---------------------------- MODULE RuleRegistry ----------------------------
(***************************************************************************)
(* RuleRegistry (rules/registry/dynamic_rules/registry/rule-registry.ts)   *)
(* with the configuration that it and its rules hold in memory: evaluateAll *)
(* for several transactions at once, and reloadAll between any two awaits   *)
(* of them.  The velocity rule reads its window before it awaits the count  *)
(* and its threshold afterwards; the registry reads threshold and critical  *)
(* rules when all rules have settled.                                      *)
(***************************************************************************)
EXTENDS Integers, FiniteSets, FiniteSetsExt

CONSTANTS Configs,    \* the SystemConfigurations that occur, scores times ten
          First,      \* the one the process starts with
          Merchants,
          Counts,     \* results of getTransactionCount
          Score,      \* riskScore of a suspicious result, times ten
          Callers     \* calls of evaluateAll that run at the same time

\* The rules that bootstrap registers before anything else.
Rules == {"velocity", "geospatial", "blacklist"}

SystemConfiguration ==
  [FRAUD_THRESHOLD : Nat, CRITICAL_RULE_IDS : SUBSET Rules, VELOCITY_THRESHOLD : Nat,
   VELOCITY_WINDOW_SECONDS : Nat, MERCHANT_BLACKLIST : SUBSET Merchants]

ASSUME ConfigAssumption == Configs \subseteq SystemConfiguration /\ First \in Configs
ASSUME DomainAssumption == /\ Counts \subseteq Nat /\ Score \in [Rules -> Nat]
                           /\ IsFiniteSet(Merchants) /\ Merchants # {}

VARIABLES threshold, criticalRuleIds,  \* fields of the registry
          velocity,                    \* fields of VelocityRule
          blacklist,                   \* field of MerchantBlacklistRule
          pc,        \* what each call does
          merchant,  \* the merchant of its transaction
          result,    \* how its rules settled
          asked,     \* the window for which it asked the count
          report,    \* metadata of its velocity result
          verdict,   \* isSuspicious of the answer
          current,   \* the configuration of the last reload
          during     \* configurations in force while the call ran

config == <<threshold, criticalRuleIds, velocity, blacklist, current>>
calls  == <<pc, merchant, result, asked, report, verdict, during>>
vars   == <<config, calls>>

Outcomes == {"pending", "quiet", "suspicious", "failed"}
Settings == [threshold : Nat, windowSizeSeconds : Nat]
Metadata == [calculatedCount : Nat, settings : Settings]

VelocityOf(c) == [threshold         |-> c.VELOCITY_THRESHOLD,
                  windowSizeSeconds |-> c.VELOCITY_WINDOW_SECONDS]

Judged(suspicious) == IF suspicious THEN "suspicious" ELSE "quiet"

-----------------------------------------------------------------------------
Init ==
  /\ threshold = First.FRAUD_THRESHOLD
  /\ criticalRuleIds = First.CRITICAL_RULE_IDS
  /\ velocity = VelocityOf(First)
  /\ blacklist = First.MERCHANT_BLACKLIST
  /\ pc = [c \in Callers |-> "idle"]
  /\ merchant = [c \in Callers |-> CHOOSE m \in Merchants : TRUE]
  /\ result = [c \in Callers |-> [r \in Rules |-> "pending"]]
  /\ asked = [c \in Callers |-> 0]
  /\ report = [c \in Callers |->
                [calculatedCount |-> 0, settings |-> VelocityOf(First)]]
  /\ verdict = [c \in Callers |-> FALSE]
  /\ current = First
  /\ during = [c \in Callers |-> {}]

-----------------------------------------------------------------------------
(* Hot reload                                                              *)

\* Mutant of VelocityReloaded: only the threshold is compared.
VelocityReloadedIfThreshold(new) ==
  IF new.VELOCITY_THRESHOLD # velocity.threshold THEN VelocityOf(new) ELSE velocity

\* VelocityRule.reloadConfig assigns when something changed.
VelocityReloaded(new) ==
  IF \/ new.VELOCITY_THRESHOLD # velocity.threshold
     \/ new.VELOCITY_WINDOW_SECONDS # velocity.windowSizeSeconds
  THEN VelocityOf(new) ELSE velocity

\* Mutant of BlacklistReloaded: a list of the same length is taken for the same.
BlacklistReloadedIfLonger(new) ==
  IF Cardinality(new.MERCHANT_BLACKLIST) # Cardinality(blacklist)
  THEN new.MERCHANT_BLACKLIST ELSE blacklist

\* MerchantBlacklistRule.reloadConfig replaces the set when it differs in size or
\* has a member that is new.
BlacklistReloaded(new) ==
  IF \/ Cardinality(new.MERCHANT_BLACKLIST) # Cardinality(blacklist)
     \/ \E m \in new.MERCHANT_BLACKLIST : m \notin blacklist
  THEN new.MERCHANT_BLACKLIST ELSE blacklist

\* reloadAll is synchronous: no evaluation runs in the middle of it.
ReloadAll(new) ==
  /\ threshold' = new.FRAUD_THRESHOLD
  /\ criticalRuleIds' = new.CRITICAL_RULE_IDS
  /\ velocity' = VelocityReloaded(new)
  /\ blacklist' = BlacklistReloaded(new)
  /\ current' = new
  /\ during' = [c \in Callers |-> IF pc[c] = "rules" THEN during[c] \cup {new}
                                  ELSE during[c]]
  /\ UNCHANGED <<pc, merchant, result, asked, report, verdict>>

-----------------------------------------------------------------------------
(* evaluateAll                                                             *)

\* All rules are called; the blacklist is looked up and the window is read at once.
Start(c, m) ==
  /\ pc[c] # "rules"
  /\ pc' = [pc EXCEPT ![c] = "rules"]
  /\ merchant' = [merchant EXCEPT ![c] = m]
  /\ result' = [result EXCEPT ![c] = [r \in Rules |->
                  IF r = "blacklist" THEN Judged(m \in blacklist) ELSE "pending"]]
  /\ asked' = [asked EXCEPT ![c] = velocity.windowSizeSeconds]
  /\ during' = [during EXCEPT ![c] = {current}]
  /\ UNCHANGED <<config, report, verdict>>

Settle(c, r, outcome) ==
  /\ pc[c] = "rules" /\ result[c][r] = "pending"
  /\ result' = [result EXCEPT ![c][r] = outcome]
  /\ UNCHANGED <<config, pc, merchant, asked, verdict, during>>

\* The count arrives; the threshold, and what is reported, are read now.
VelocitySettles(c, count) ==
  /\ Settle(c, "velocity", Judged(count > velocity.threshold))
  /\ report' = [report EXCEPT ![c] = [calculatedCount |-> count, settings |-> velocity]]

GeospatialSettles(c) ==
  /\ \E suspicious \in BOOLEAN : Settle(c, "geospatial", Judged(suspicious))
  /\ UNCHANGED report

\* Redis fails under the velocity or the geospatial rule.
RuleFails(c, r) ==
  /\ r # "blacklist"
  /\ Settle(c, r, "failed")
  /\ UNCHANGED report

Failed(results)     == {r \in Rules : results[r] = "failed"}
Suspicious(results) == {r \in Rules : results[r] = "suspicious"}

\* isSuspicious: a critical rule failed, or the mean over all rules, a failed one
\* counting as zero, reaches the limit.
Verdict(results, critical, limit) ==
  \/ Failed(results) \cap critical # {}
  \/ MapThenSumSet(LAMBDA r : Score[r], Suspicious(results))
       >= limit * Cardinality(Rules)

\* Mutant of Return: Promise.race in place of allSettled.
ReturnFirst(c) ==
  /\ pc[c] = "rules" /\ \E r \in Rules : result[c][r] # "pending"
  /\ pc' = [pc EXCEPT ![c] = "returned"]
  /\ verdict' = [verdict EXCEPT ![c] = Verdict(result[c], criticalRuleIds, threshold)]
  /\ UNCHANGED <<config, merchant, result, asked, report, during>>

\* All promises are settled; the threshold and the critical rules are read now.
Return(c) ==
  /\ pc[c] = "rules" /\ \A r \in Rules : result[c][r] # "pending"
  /\ pc' = [pc EXCEPT ![c] = "returned"]
  /\ verdict' = [verdict EXCEPT ![c] = Verdict(result[c], criticalRuleIds, threshold)]
  /\ UNCHANGED <<config, merchant, result, asked, report, during>>

Next ==
  \/ \E new \in Configs : ReloadAll(new)
  \/ \E c \in Callers :
       \/ \E m \in Merchants : Start(c, m)
       \/ \E count \in Counts : VelocitySettles(c, count)
       \/ GeospatialSettles(c)
       \/ \E r \in Rules : RuleFails(c, r)
       \/ Return(c)

Spec == Init /\ [][Next]_vars

-----------------------------------------------------------------------------
\* Every variable has its type, and an answer waits for every rule.
TypeOK ==
  /\ threshold \in Nat /\ criticalRuleIds \subseteq Rules
  /\ velocity \in Settings /\ blacklist \subseteq Merchants /\ current \in Configs
  /\ pc \in [Callers -> {"idle", "rules", "returned"}]
  /\ merchant \in [Callers -> Merchants]
  /\ result \in [Callers -> [Rules -> Outcomes]]
  /\ asked \in [Callers -> Nat] /\ report \in [Callers -> Metadata]
  /\ verdict \in [Callers -> BOOLEAN]
  /\ during \in [Callers -> SUBSET Configs]
  /\ \A c \in Callers : pc[c] = "returned" => \A r \in Rules : result[c][r] # "pending"

\* After any sequence of reloads the registry and every rule that can be reloaded
\* hold the last configuration, whatever they took for unchanged.
InForce ==
  /\ threshold = current.FRAUD_THRESHOLD
  /\ criticalRuleIds = current.CRITICAL_RULE_IDS
  /\ velocity = VelocityOf(current)
  /\ blacklist = current.MERCHANT_BLACKLIST

\* What each rule and the registry decided for a call stems from a configuration
\* that was in force while the call ran; without a reload in between that is one
\* configuration, and a call torn by a reload mixes no others: the blacklist and the
\* window are those at its start, judgement and report of the velocity rule agree,
\* and a rule that is critical when the call returns makes it suspicious by failing.
VerdictInForce ==
  \A c \in Callers : pc[c] = "returned" =>
    \E start, middle, end \in during[c] :
      /\ asked[c] = start.VELOCITY_WINDOW_SECONDS
      /\ result[c]["blacklist"] = Judged(merchant[c] \in start.MERCHANT_BLACKLIST)
      /\ result[c]["velocity"] # "failed" =>
           /\ report[c].settings = VelocityOf(middle)
           /\ result[c]["velocity"] =
                Judged(report[c].calculatedCount > middle.VELOCITY_THRESHOLD)
      /\ verdict[c] = Verdict(result[c], end.CRITICAL_RULE_IDS, end.FRAUD_THRESHOLD)
=============================================================================
