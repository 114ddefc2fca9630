------------------------------ MODULE EventLog ------------------------------
(***************************************************************************)
(* What the event store promises its callers, without its database: every  *)
(* aggregate has a log that only grows at its end, by one event at a time, *)
(* and an event enters a log at most once.  EventStore implements it.      *)
(***************************************************************************)
EXTENDS Sequences, Naturals

CONSTANTS Aggregates,   \* the aggregate streams
          Events        \* the events that may ever be stored

VARIABLE log            \* aggregate -> sequence of events, oldest first

Logged(e) == \E a \in Aggregates : \E v \in 1..Len(log[a]) : log[a][v] = e

LogInit == log = [a \in Aggregates |-> << >>]

AppendEvent(a, e) ==
  /\ ~Logged(e)
  /\ log' = [log EXCEPT ![a] = Append(@, e)]

LogNext == \E a \in Aggregates, e \in Events : AppendEvent(a, e)

LogSpec == LogInit /\ [][LogNext]_log
=============================================================================
