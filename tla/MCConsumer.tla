----------------------------- MODULE MCConsumer -----------------------------
(***************************************************************************)
(* Small logs for FraudEventConsumer: two keys, so that two groups run     *)
(* side by side, and a message that does not parse, so that one fault is   *)
(* enough to make the dead-letter producer matter.                         *)
(***************************************************************************)
EXTENDS FraudEventConsumer, TLC

CONSTANTS k1, k2

\* A message without a value that follows only messages of its own key.
OrderedKeyOf == 0 :> k1 @@ 1 :> k1 @@ 2 :> k2 @@ 3 :> k1
OrderedKind  == 0 :> "good" @@ 1 :> "empty" @@ 2 :> "poison" @@ 3 :> "good"

\* A message without a value that follows a message of the other key.
OvertakingKeyOf == 0 :> k1 @@ 1 :> k2
OvertakingKind  == 0 :> "good" @@ 1 :> "empty"
=============================================================================
