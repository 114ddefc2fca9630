---------------------------- MODULE MCProjection ----------------------------
(***************************************************************************)
(* One user with two transactions.  The amount of the second is one that   *)
(* Lua does not print as an integer, so that INCRBY refuses it.            *)
(***************************************************************************)
EXTENDS ProjectionStore, TLC

CONSTANTS t1, t2

SmallAmounts == t1 :> 1 @@ t2 :> 2
CallerSymmetry == Permutations(Callers)
=============================================================================
