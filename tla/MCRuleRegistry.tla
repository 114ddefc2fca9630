--------------------------- MODULE MCRuleRegistry ---------------------------
(***************************************************************************)
(* Three configurations: the second has another blacklist of the same      *)
(* length, another window and a lower threshold; the third differs from    *)
(* the second in the length of the blacklist, the threshold of the         *)
(* velocity rule and the critical rules.                                   *)
(***************************************************************************)
EXTENDS RuleRegistry, TLC

CONSTANTS m1, m2

RuleScore == "velocity" :> 8 @@ "geospatial" :> 9 @@ "blacklist" :> 10

Config(limit, critical, velocityThreshold, window, list) ==
  [FRAUD_THRESHOLD |-> limit, CRITICAL_RULE_IDS |-> critical,
   VELOCITY_THRESHOLD |-> velocityThreshold, VELOCITY_WINDOW_SECONDS |-> window,
   MERCHANT_BLACKLIST |-> list]

Started  == Config(8, {"blacklist", "geospatial"}, 1, 60, {m1})
Adjusted == Config(5, {"blacklist", "geospatial"}, 1, 30, {m2})
Extended == Config(5, {"velocity"}, 2, 30, {m1, m2})

ThreeConfigs == {Started, Adjusted, Extended}
=============================================================================
