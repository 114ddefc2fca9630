---------------------------- MODULE MCRuleEngine ----------------------------
(***************************************************************************)
(* Three transactions of one user with the default weights and critical    *)
(* rules of core/domain_models/dependency_config.ts, and the threshold of  *)
(* .env.example.  The first and second place, and the second and third,    *)
(* are too far apart; the third is the first again.                        *)
(***************************************************************************)
EXTENDS RuleEngine, TLC

CONSTANTS t1, t2, t3

\* As in MCEventEnvelope, doubles are exact to 32 and multiples of 8 beyond:
\* the script cannot tell the second transaction from the third.
Timestamps   == t1 :> 32 @@ t2 :> 39 @@ t3 :> 41
Doubles      == t1 :> 32 @@ t2 :> 40 @@ t3 :> 40
Apart        == {<<t1, t2>>, <<t2, t3>>}
DefaultWeight == "blacklist" :> 20 @@ "geospatial" :> 15 @@ "velocity" :> 10
RuleScore     == "blacklist" :> 10 @@ "geospatial" :> 9 @@ "velocity" :> 8
DefaultCritical == {"blacklist", "geospatial"}
WorkerSymmetry == Permutations(Workers)
=============================================================================
