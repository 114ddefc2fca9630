------------------------------ MODULE KeyedLog ------------------------------
(***************************************************************************)
(* What a consumer of one partition promises, whatever fails: it is done   *)
(* with the messages of a key in the order of the log, and the offset it   *)
(* commits never covers a message it is not done with.  How often it       *)
(* starts on a message, in which batches and in how many deliveries at a   *)
(* time is left open.  FraudEventConsumer and EngineProcess implement it.  *)
(***************************************************************************)
EXTENDS Integers

CONSTANTS N,        \* messages of the partition, with offsets 0..N-1
          KeyOf,    \* offset -> key
          Skipped,  \* offsets with nothing to do
          Excused   \* pairs m, x: the offset x is reached without m

VARIABLES handled,    \* offsets the consumer is done with
          committed   \* where a new member of the group starts

vars == <<handled, committed>>

Before(x) == {n \in 0..(N - 1) : n < x /\ <<n, x>> \notin Excused}

Init == handled = Skipped /\ committed = 0

\* The consumer is done with m, and is not with a later message of its key.
Finish(m) ==
  /\ \A n \in Before(m) : KeyOf[n] = KeyOf[m] => n \in handled
  /\ handled' = handled \cup {m}
  /\ UNCHANGED committed

\* A late commit of a former delivery may move the offset back.
Commit(c) ==
  /\ Before(c) \subseteq handled
  /\ committed' = c
  /\ UNCHANGED handled

Next == (\E m \in 0..(N - 1) : Finish(m)) \/ (\E c \in 0..N : Commit(c))

Spec == Init /\ [][Next]_vars
=============================================================================
