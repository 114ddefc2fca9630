-------------------------- MODULE AlertingSubsystem --------------------------
(***************************************************************************)
(* AlertingSubsystem.dispatchFlag                                          *)
(* (rules/engine/orchestrator/alerts/alerts.ts) for one flagged            *)
(* transaction, called again when the transaction is delivered again.      *)
(* SET NX on the key fraud:alert:processed:<id> decides who publishes; the *)
(* key holds '1' and says neither who set it nor whether the alert is out. *)
(* ioredis sends a command again when the connection dropped before its    *)
(* answer came.                                                            *)
(***************************************************************************)
EXTENDS Naturals, FiniteSets

CONSTANTS Dispatchers,  \* calls of dispatchFlag that may run side by side
          Nobody,       \* the key does not exist
          MaxFaults     \* bound: failures of Redis, Kafka and the process

ASSUME DispatchersAssumption == IsFiniteSet(Dispatchers) /\ Nobody \notin Dispatchers
ASSUME FaultsAssumption == MaxFaults \in Nat

VARIABLES key,       \* the dispatcher whose SET created the key, or Nobody
          pc,        \* where each call of dispatchFlag is
          ended,     \* how the last call of each dispatcher ended
          alerts,    \* messages on fraud-alerts-high-priority
          stranded,  \* dispatchers that left their key behind
          breaches,  \* removals of a key that still had a purpose
          faults     \* failures so far

vars == <<key, pc, ended, alerts, stranded, breaches, faults>>

PCs    == {"idle", "set", "create", "publish", "cleanup"}
Endings == {"never", "sent", "skipped", "threw", "crashed"}

\* Dispatchers that will publish if nothing fails.
Publishers == {d \in Dispatchers : pc[d] \in {"create", "publish"}}

Init ==
  /\ key = Nobody
  /\ pc = [d \in Dispatchers |-> "idle"]
  /\ ended = [d \in Dispatchers |-> "never"]
  /\ alerts = 0
  /\ stranded = {}
  /\ breaches = 0
  /\ faults = 0

GoTo(d, step) == pc' = [pc EXCEPT ![d] = step]
End(d, how)   == GoTo(d, "idle") /\ ended' = [ended EXCEPT ![d] = how]
Fault         == faults < MaxFaults /\ faults' = faults + 1

\* dispatchFlag is called.  A call that returned is not repeated by its caller; a
\* redelivery of the transaction is the call of another dispatcher.
Call(d) ==
  /\ pc[d] = "idle"
  /\ ended[d] \in {"never", "threw", "crashed"}
  /\ GoTo(d, "set")
  /\ UNCHANGED <<key, ended, alerts, stranded, breaches, faults>>

-----------------------------------------------------------------------------
(* SET key '1' PX 3600000 NX                                               *)

\* Mutant of SetWins: SET without NX.
SetWithoutNX(d) ==
  /\ pc[d] = "set"
  /\ key' = d
  /\ stranded' = stranded \ {d}
  /\ GoTo(d, "create")
  /\ UNCHANGED <<ended, alerts, breaches, faults>>

SetWins(d) ==
  /\ pc[d] = "set"
  /\ key = Nobody
  /\ key' = d
  /\ stranded' = stranded \ {d}
  /\ GoTo(d, "create")
  /\ UNCHANGED <<ended, alerts, breaches, faults>>

\* "Alert deduplication skipped: already processed"
SetSkips(d) ==
  /\ pc[d] = "set"
  /\ key # Nobody
  /\ End(d, "skipped")
  /\ UNCHANGED <<key, alerts, stranded, breaches, faults>>

\* SET took effect, its answer is lost, and ioredis sends it again.
SetResent(d) ==
  /\ pc[d] = "set"
  /\ key = Nobody
  /\ Fault
  /\ key' = d
  /\ stranded' = stranded \cup {d}
  /\ UNCHANGED <<pc, ended, alerts, breaches>>

\* SET rejects, with or without effect: the catch block deletes the key.
SetFails(d) ==
  /\ pc[d] = "set"
  /\ Fault
  /\ key' \in {key, IF key = Nobody THEN d ELSE key}
  /\ GoTo(d, "cleanup")
  /\ UNCHANGED <<ended, alerts, stranded, breaches>>

-----------------------------------------------------------------------------
Create(d) ==
  /\ pc[d] = "create"
  /\ GoTo(d, "publish")
  /\ UNCHANGED <<key, ended, alerts, stranded, breaches, faults>>

\* createTransactionFlagged throws: the envelope cannot be signed.
CreateFails(d) ==
  /\ pc[d] = "create"
  /\ Fault
  /\ GoTo(d, "cleanup")
  /\ UNCHANGED <<key, ended, alerts, stranded, breaches>>

Publish(d) ==
  /\ pc[d] = "publish"
  /\ alerts' = alerts + 1
  /\ End(d, "sent")
  /\ UNCHANGED <<key, stranded, breaches, faults>>

\* Mutant of PublishFails: the error is thrown past the cleanup.
PublishFailsUncleaned(d) ==
  /\ pc[d] = "publish"
  /\ Fault
  /\ alerts' \in {alerts, alerts + 1}
  /\ End(d, "threw")
  /\ UNCHANGED <<key, stranded, breaches>>

\* publish rejects: nothing was written, or only the acknowledgement is lost.
PublishFails(d) ==
  /\ pc[d] = "publish"
  /\ Fault
  /\ alerts' \in {alerts, alerts + 1}
  /\ GoTo(d, "cleanup")
  /\ UNCHANGED <<key, ended, stranded, breaches>>

-----------------------------------------------------------------------------
(* The catch block: DEL key, then rethrow.                                 *)

\* The key is removed although an alert is out or somebody else set it.
Breach(d) == key # Nobody /\ (alerts > 0 \/ key # d)

Delete(d) ==
  /\ key' = Nobody
  /\ breaches' = breaches + IF Breach(d) THEN 1 ELSE 0
  /\ stranded' = stranded \ {key}

\* Mutant of Release: the error is not thrown again.
ReleaseSwallows(d) ==
  /\ pc[d] = "cleanup"
  /\ Delete(d)
  /\ End(d, "returned")
  /\ UNCHANGED <<alerts, faults>>

Release(d) ==
  /\ pc[d] = "cleanup"
  /\ Delete(d)
  /\ End(d, "threw")
  /\ UNCHANGED <<alerts, faults>>

\* DEL took effect, its answer is lost, and ioredis sends it again.
ReleaseResent(d) ==
  /\ pc[d] = "cleanup"
  /\ Fault
  /\ Delete(d)
  /\ UNCHANGED <<pc, ended, alerts>>

\* DEL rejects, and its error replaces the one being handled.
ReleaseFails(d) ==
  /\ pc[d] = "cleanup"
  /\ Fault
  /\ stranded' = stranded \cup ({key} \cap {d})
  /\ End(d, "threw")
  /\ UNCHANGED <<key, alerts, breaches>>

-----------------------------------------------------------------------------
\* A process dies, with the calls D that run in it.
Crash(D) ==
  LET cut == {d \in D : pc[d] # "idle"}
  IN /\ Fault
     /\ stranded' = stranded \cup ({key} \cap cut)
     /\ pc' = [d \in Dispatchers |-> IF d \in cut THEN "idle" ELSE pc[d]]
     /\ ended' = [d \in Dispatchers |-> IF d \in cut THEN "crashed" ELSE ended[d]]
     /\ UNCHANGED <<key, alerts, breaches>>

\* PX: the key is gone an hour after it was set.
Expire ==
  /\ key # Nobody
  /\ Fault
  /\ key' = Nobody
  /\ breaches' = breaches + 1
  /\ stranded' = stranded \ {key}
  /\ UNCHANGED <<pc, ended, alerts>>

Next ==
  \/ \E d \in Dispatchers :
       \/ Call(d)
       \/ SetWins(d) \/ SetSkips(d) \/ SetResent(d) \/ SetFails(d)
       \/ Create(d) \/ CreateFails(d) \/ Publish(d) \/ PublishFails(d)
       \/ Release(d) \/ ReleaseResent(d) \/ ReleaseFails(d)
  \/ \E D \in SUBSET Dispatchers : Crash(D)
  \/ Expire

Spec == Init /\ [][Next]_vars

-----------------------------------------------------------------------------
\* Every variable has its type.
TypeOK ==
  /\ key \in Dispatchers \cup {Nobody}
  /\ pc \in [Dispatchers -> PCs]
  /\ ended \in [Dispatchers -> Endings]
  /\ alerts \in Nat /\ breaches \in Nat
  /\ stranded \subseteq Dispatchers
  /\ faults \in 0..MaxFaults

\* Every alert beyond the first, and every call that is about to publish one,
\* is paid for by a removal of the key that should not have happened: the TTL,
\* the cleanup after a lost acknowledgement, or the cleanup of a call whose SET
\* failed.  Nothing else sends an alert twice, and each removal takes a failure
\* of its own: k failures leave no more than k + 1 alerts.
DuplicatesAccounted ==
  /\ alerts + Cardinality(Publishers) <= 1 + breaches
  /\ breaches <= faults

\* The key outlives the call that set it only when the alert is out, the
\* process died, SET was sent twice or DEL failed: a dispatch that fails
\* otherwise can be repeated at once.
KeyExplained ==
  key # Nobody => \/ alerts > 0
                  \/ pc[key] \in {"create", "publish", "cleanup"}
                  \/ key \in stranded
=============================================================================
