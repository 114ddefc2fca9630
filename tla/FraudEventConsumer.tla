------------------------- MODULE FraudEventConsumer -------------------------
(***************************************************************************)
(* FraudEventConsumer (events/client/kafka_client/consumer/consumer.ts) on *)
(* one partition, inside the kafkajs runner that calls its eachBatch.      *)
(*                                                                         *)
(* A batch is split into one group per message key.  The groups of a batch *)
(* run concurrently, the messages of a group one after the other: store    *)
(* the event, update the projection, call the processor, and on any error  *)
(* send the message to the dead-letter topic.  When every group has ended, *)
(* all offsets of the batch are resolved and kafkajs commits them.  When a *)
(* group rejects, Promise.all rejects at once while the other groups keep  *)
(* running: kafkajs commits what is resolved so far, then runs eachBatch   *)
(* again on the same batch, or restarts the consumer from the committed    *)
(* offset.  Groups of an earlier delivery may thus run beside the current  *)
(* ones.  The parts marked external are kafkajs and the brokers.           *)
(***************************************************************************)
EXTENDS Integers, FiniteSets

CONSTANTS N,              \* messages of the partition, with offsets 0..N-1
          Keys,           \* message keys; a null key is the key 'anonymous'
          KeyOf,          \* offset -> key
          Kind,           \* offset -> "good", "poison" (does not parse or
                          \*   verify) or "empty" (no value)
          MaxRetries,     \* MAX_CONSUMER_RETRIES of retryWithBackoff
          MaxDeliveries,  \* bound: calls of eachBatch
          MaxFaults       \* bound: failures of the store, Redis, Kafka, ...

Offsets    == 0..(N - 1)
Deliveries == 1..MaxDeliveries
Groups     == Deliveries \X Keys

ASSUME SizeAssumption == N \in Nat /\ MaxRetries \in Nat
                           /\ MaxDeliveries \in Nat /\ MaxFaults \in Nat
ASSUME LogAssumption == /\ KeyOf \in [Offsets -> Keys]
                        /\ Kind \in [Offsets -> {"good", "poison", "empty"}]

VARIABLES committed,    \* offset committed at the broker (external)
          resolved,     \* next offset of the kafkajs offset manager (external)
          phase,        \* what the runner does (external)
          delivery,     \* number of the current call of eachBatch
          runnerSince,  \* first delivery of the runner's offset manager
          lo, hi,       \* the current batch is lo..hi-1
          left,         \* group -> offsets of its messages not yet finished
          stage,        \* group -> step of the message it is at
          tries,        \* group -> attempt of retryWithBackoff
          appends,      \* delivery, offset -> rows it stored of the message
          processed,    \* offsets that passed the whole try block
          deadLettered, \* offsets on the dead-letter topic
          faults        \* failures so far

runner  == <<committed, resolved, phase, runnerSince, delivery, lo, hi>>
groups  == <<left, stage, tries>>
effects == <<appends, processed, deadLettered>>
vars    == <<runner, groups, effects, faults>>

Phases == {"fetching", "running", "committing", "rejected", "retrying"}
\* "rejected" as a stage is a group whose promise rejected.
Stages == {"idle", "parse", "append", "project", "process", "dlq",
           "heartbeat", "done", "rejected"}

MinOf(S) == CHOOSE x \in S : \A y \in S : x <= y
\* Mutant of Current: messages taken from the end of the group.
CurrentFromEnd(g) == CHOOSE x \in left[g] : \A y \in left[g] : y <= x
Current(g) == MinOf(left[g])
Settled == processed \cup deadLettered

Init ==
  /\ committed = 0 /\ resolved = 0
  /\ phase = "fetching"
  /\ delivery = 0 /\ runnerSince = 1
  /\ lo = 0 /\ hi = 0
  /\ left = [g \in Groups |-> {}]
  /\ stage = [g \in Groups |-> "idle"]
  /\ tries = [g \in Groups |-> 0]
  /\ appends = [a \in Deliveries \X Offsets |-> 0]
  /\ processed = {} /\ deadLettered = {}
  /\ faults = 0

Fault == faults < MaxFaults /\ faults' = faults + 1

-----------------------------------------------------------------------------
(* The groups of eachBatch.                                                *)

\* keyedMessages: one group per key of the batch, in offset order.
\* Mutant of StartGroups: every group gets the whole batch.
StartGroupsUnkeyed(d, from, to) ==
  LET new(g) == g[1] = d
  IN /\ left' = [g \in Groups |-> IF new(g) THEN from..(to - 1) ELSE left[g]]
     /\ stage' = [g \in Groups |-> IF new(g) THEN "parse" ELSE stage[g]]

StartGroups(d, from, to) ==
  LET batch(k) == {m \in from..(to - 1) : KeyOf[m] = k}
      new(g)   == g[1] = d /\ batch(g[2]) # {}
  IN /\ left' = [g \in Groups |-> IF new(g) THEN batch(g[2]) ELSE left[g]]
     /\ stage' = [g \in Groups |-> IF new(g) THEN "parse" ELSE stage[g]]

\* The group is finished with its message: the next one, or the heartbeat.
Advance(g) ==
  LET rest == left[g] \ {Current(g)}
  IN /\ left' = [left EXCEPT ![g] = rest]
     /\ stage' = [stage EXCEPT ![g] = IF rest = {} THEN "heartbeat" ELSE "parse"]

GoTo(g, s) == stage' = [stage EXCEPT ![g] = s] /\ UNCHANGED left

\* A message without a value is resolved on the spot.  The offset manager takes
\* the last offset it is given; the one of a former runner is no longer read.
SkipEmpty(g) ==
  /\ stage[g] = "parse"
  /\ Kind[Current(g)] = "empty"
  /\ resolved' = IF g[1] >= runnerSince THEN Current(g) + 1 ELSE resolved
  /\ Advance(g)
  /\ UNCHANGED <<committed, phase, delivery, runnerSince, lo, hi, tries,
                 effects, faults>>

\* JSON.parse, the schemas and verifyEnvelope accept or throw.
Parse(g) ==
  /\ stage[g] = "parse"
  /\ \/ Kind[Current(g)] = "good" /\ GoTo(g, "append")
     \/ Kind[Current(g)] = "poison" /\ GoTo(g, "dlq")
  /\ tries' = [tries EXCEPT ![g] = 0]
  /\ UNCHANGED <<runner, effects, faults>>

\* retryWithBackoff after its operation threw: again, or rethrow to the catch.
Retry(g) ==
  IF tries[g] >= MaxRetries
    THEN GoTo(g, "dlq") /\ UNCHANGED tries
    ELSE tries' = [tries EXCEPT ![g] = @ + 1] /\ UNCHANGED <<left, stage>>

StoreEvent(g) == appends' = [appends EXCEPT ![<<g[1], Current(g)>>] = @ + 1]

AppendEvent(g) ==
  /\ stage[g] = "append"
  /\ StoreEvent(g)
  /\ GoTo(g, "project")
  /\ tries' = [tries EXCEPT ![g] = 0]
  /\ UNCHANGED <<runner, processed, deadLettered, faults>>

\* append throws: without effect, or after a COMMIT whose answer was lost.
AppendFails(g) ==
  /\ stage[g] = "append"
  /\ Fault
  /\ UNCHANGED appends \/ StoreEvent(g)
  /\ Retry(g)
  /\ UNCHANGED <<runner, processed, deadLettered>>

\* processTransaction answers or throws; ProjectionStore models its effect.
Project(g) ==
  /\ stage[g] = "project"
  /\ GoTo(g, "process")
  /\ UNCHANGED <<runner, tries, effects, faults>>

ProjectFails(g) ==
  /\ stage[g] = "project"
  /\ Fault
  /\ Retry(g)
  /\ UNCHANGED <<runner, effects>>

\* The processor (the rule engine) returns ...
Process(g) ==
  /\ stage[g] = "process"
  /\ processed' = processed \cup {Current(g)}
  /\ Advance(g)
  /\ UNCHANGED <<runner, tries, appends, deadLettered, faults>>

\* ... or throws, which is not retried.
ProcessFails(g) ==
  /\ stage[g] = "process"
  /\ Fault
  /\ GoTo(g, "dlq")
  /\ UNCHANGED <<runner, tries, effects>>

SendToDlq(g) ==
  /\ stage[g] = "dlq"
  /\ deadLettered' = deadLettered \cup {Current(g)}
  /\ Advance(g)
  /\ UNCHANGED <<runner, tries, appends, processed, faults>>

\* The group's promise rejects: Promise.all rejects with the first of the
\* current delivery, the rejections of an older delivery go nowhere.
RejectGroup(g) ==
  /\ left' = [left EXCEPT ![g] = {}]
  /\ stage' = [stage EXCEPT ![g] = "rejected"]
  /\ phase' = IF g[1] = delivery /\ phase = "running" THEN "rejected" ELSE phase

\* Mutant of SendToDlqFails: the error is logged and not thrown.
SendToDlqSwallows(g) ==
  /\ stage[g] = "dlq"
  /\ Fault
  /\ Advance(g)
  /\ UNCHANGED <<runner, tries, effects>>

\* send rejects, without effect or after the broker wrote the message.
SendToDlqFails(g) ==
  /\ stage[g] = "dlq"
  /\ Fault
  /\ RejectGroup(g)
  /\ deadLettered' \in {deadLettered, deadLettered \cup {Current(g)}}
  /\ UNCHANGED <<committed, resolved, delivery, runnerSince, lo, hi, tries,
                 appends, processed>>

Heartbeat(g) ==
  /\ stage[g] = "heartbeat"
  /\ GoTo(g, "done")
  /\ UNCHANGED <<runner, tries, effects, faults>>

\* heartbeat() throws when the group rebalances or the session is lost.
HeartbeatFails(g) ==
  /\ stage[g] = "heartbeat"
  /\ Fault
  /\ RejectGroup(g)
  /\ UNCHANGED <<committed, resolved, delivery, runnerSince, lo, hi, tries,
                 effects>>

GroupProgress(g) ==
  \/ SkipEmpty(g) \/ Parse(g)
  \/ AppendEvent(g) \/ Project(g) \/ Process(g)
  \/ SendToDlq(g) \/ Heartbeat(g)

GroupFails(g) ==
  \/ AppendFails(g) \/ ProjectFails(g) \/ ProcessFails(g)
  \/ SendToDlqFails(g) \/ HeartbeatFails(g)

-----------------------------------------------------------------------------
(* The kafkajs runner around eachBatch.                                    *)

\* The next fetch starts where the offset manager stands; a batch is any
\* non-empty run of the messages that follow.
Fetch ==
  /\ phase = "fetching"
  /\ delivery < MaxDeliveries
  /\ resolved < N
  /\ \E to \in (resolved + 1)..N :
       /\ lo' = resolved /\ hi' = to
       /\ StartGroups(delivery + 1, resolved, to)
  /\ delivery' = delivery + 1
  /\ phase' = "running"
  /\ UNCHANGED <<committed, resolved, runnerSince, tries, effects, faults>>

\* The offsets of the batch are resolved, in order.
ResolveUpTo(offset) ==
  /\ phase = "running"
  /\ resolved' = offset
  /\ phase' = "committing"
  /\ UNCHANGED <<committed, delivery, runnerSince, lo, hi, groups, effects,
                 faults>>

GroupsDone ==
  phase = "running" /\ \A k \in Keys : stage[<<delivery, k>>] \in {"idle", "done"}

\* Mutants of ResolveBatch: the groups are not awaited; the offset of the next
\* message is resolved.
ResolveUnawaited == ResolveUpTo(hi)
ResolvePastEnd   == GroupsDone /\ ResolveUpTo(hi + 1)

\* Promise.all resolves.
ResolveBatch == GroupsDone /\ ResolveUpTo(hi)

\* Mutant of CommitBatch: with autoCommit off, nothing is written.
CommitNothing ==
  /\ phase = "committing"
  /\ phase' = "fetching"
  /\ UNCHANGED <<committed, resolved, delivery, runnerSince, lo, hi, groups,
                 effects, faults>>

\* commitOffsetsIfNecessary does nothing, for no autoCommitInterval is set; the
\* runner's autoCommit writes the resolved offset.
CommitBatch ==
  /\ phase = "committing"
  /\ committed' = resolved
  /\ phase' = "fetching"
  /\ UNCHANGED <<resolved, delivery, runnerSince, lo, hi, groups, effects,
                 faults>>

\* eachBatch rejected: the runner commits what is resolved, if the broker lets
\* it, and hands the error to its retrier.
CommitRejected ==
  /\ phase = "rejected"
  /\ committed' = resolved
  /\ phase' = "retrying"
  /\ UNCHANGED <<resolved, delivery, runnerSince, lo, hi, groups, effects,
                 faults>>

CommitFails ==
  /\ phase \in {"committing", "rejected"}
  /\ Fault
  /\ phase' = "retrying"
  /\ UNCHANGED <<committed, resolved, delivery, runnerSince, lo, hi, groups,
                 effects>>

\* The retrier calls eachBatch again with the same batch ...
RetryBatch ==
  /\ phase = "retrying"
  /\ delivery < MaxDeliveries
  /\ StartGroups(delivery + 1, lo, hi)
  /\ delivery' = delivery + 1
  /\ phase' = "running"
  /\ UNCHANGED <<committed, resolved, runnerSince, lo, hi, tries, effects,
                 faults>>

\* ... or gives up: the consumer restarts, or rejoins after a rebalance, at the
\* committed offset.  Groups that still run are not stopped.
Restart ==
  /\ phase = "retrying"
  /\ resolved' = committed
  /\ runnerSince' = delivery + 1
  /\ phase' = "fetching"
  /\ UNCHANGED <<committed, delivery, lo, hi, groups, effects, faults>>

\* heartbeat() is called only when a group has ended: the session of a longer
\* batch expires and another member takes the partition over.  The groups of
\* this one go on, its commit is refused.
SessionLost ==
  /\ phase = "running"
  /\ Fault
  /\ resolved' = committed
  /\ runnerSince' = delivery + 1
  /\ phase' = "fetching"
  /\ UNCHANGED <<committed, delivery, lo, hi, groups, effects>>

\* The process dies and starts again at the committed offset.
Crash ==
  /\ Fault
  /\ resolved' = committed
  /\ runnerSince' = delivery + 1
  /\ phase' = "fetching"
  /\ left' = [g \in Groups |-> {}]
  /\ stage' = [g \in Groups |-> "idle"]
  /\ tries' = [g \in Groups |-> 0]
  /\ UNCHANGED <<committed, delivery, lo, hi, effects>>

RunnerProgress ==
  Fetch \/ ResolveBatch \/ CommitBatch \/ CommitRejected \/ RetryBatch

Next ==
  \/ \E g \in Groups : GroupProgress(g) \/ GroupFails(g)
  \/ RunnerProgress \/ CommitFails \/ Restart \/ SessionLost \/ Crash

Spec == Init /\ [][Next]_vars

\* Every promise of a group settles, and the runner keeps polling.
FairSpec == /\ Spec
            /\ WF_vars(RunnerProgress \/ Restart)
            /\ \A g \in Groups : WF_vars(GroupProgress(g))

-----------------------------------------------------------------------------
\* Every variable has its type.
TypeOK ==
  /\ committed \in 0..N /\ resolved \in 0..N
  /\ phase \in Phases
  /\ delivery \in 0..MaxDeliveries /\ runnerSince \in 1..(MaxDeliveries + 1)
  /\ lo \in 0..N /\ hi \in 0..N
  /\ left \in [Groups -> SUBSET Offsets]
  /\ stage \in [Groups -> Stages]
  /\ tries \in [Groups -> 0..MaxRetries]
  /\ appends \in [Deliveries \X Offsets -> Nat]
  /\ processed \subseteq Offsets
  /\ deadLettered \subseteq Offsets
  /\ faults \in 0..MaxFaults

\* A message is done with once it is settled or has no value to process.
Handled(m) == m \in Settled \/ Kind[m] = "empty"

\* Every message before one without a value has no value or has the same key.
TombstonesInKeyOrder ==
  \A m, n \in Offsets : m < n /\ Kind[n] = "empty" =>
    Kind[m] = "empty" \/ KeyOf[m] = KeyOf[n]

\* A message without a value and of another key lies between m and x: that one
\* was skipped, and its offset resolved, whatever became of m.
Overtaken(m, x) ==
  \E n \in Offsets : m < n /\ n < x /\ Kind[n] = "empty" /\ KeyOf[n] # KeyOf[m]

\* At-least-once delivery (specifications.md 3.3.1): an offset is committed
\* only when every message before it that has a value went through the whole
\* pipeline or is on the dead-letter topic.
AtLeastOnce ==
  \A m \in Offsets : m < committed => Handled(m)

Stored(m) == \E d \in Deliveries : appends[<<d, m>>] > 0

\* Messages of one key take effect in the order of the log, also beside a
\* redelivery and the groups a rejected batch leaves running: nothing of a
\* message is stored before every earlier message of its key is settled.
PerKeyOrder ==
  \A m1, m2 \in Offsets :
    m1 < m2 /\ KeyOf[m1] = KeyOf[m2] /\ Stored(m2) => Handled(m1)

\* A redelivery stores a message again, but no delivery stores it more often
\* than retryWithBackoff allows, also when the answers to its COMMITs are lost
\* and other deliveries of the same message run beside it.
BoundedDuplication ==
  \A d \in Deliveries, m \in Offsets : appends[<<d, m>>] <= MaxRetries + 1

\* What the consumer promises its partition, KeyedLog, when nothing is overtaken,
\* and what is left of it for any log.
Promise == INSTANCE KeyedLog WITH
             Skipped <- {m \in Offsets : Kind[m] = "empty"},
             Excused <- {},
             handled <- {m \in Offsets : Handled(m)}
LossyPromise == INSTANCE KeyedLog WITH
             Skipped <- {m \in Offsets : Kind[m] = "empty"},
             Excused <- {p \in Offsets \X (0..N) : Overtaken(p[1], p[2])},
             handled <- {m \in Offsets : Handled(m)}

\* The consumer implements it: messages are finished one at a time, those of a
\* key in the order of the log, and every commit covers finished messages only.
ImplementsKeyedLog == Promise!Spec

\* For any log: no message is missed unless it is overtaken before the point
\* where a later one is stored, or an offset above it is committed.
OnlyOvertakenMissed ==
  /\ \A m \in Offsets : m < committed => Handled(m) \/ Overtaken(m, committed)
  /\ \A m1, m2 \in Offsets :
       m1 < m2 /\ KeyOf[m1] = KeyOf[m2] /\ Stored(m2)
         => Handled(m1) \/ Overtaken(m1, m2)

\* For any log the consumer implements the promise that excuses these.
ImplementsLossyLog == LossyPromise!Spec

\* No message stops the partition: whatever fails, MaxFaults times, the
\* consumer commits the end of the log.
Drains == <>(committed = N)

\* A message that nothing will deliver again, held by no group and not settled.
Lost(m) ==
  /\ m < committed /\ m < resolved /\ ~Handled(m)
  /\ \A g \in Groups : m \notin left[g]
  /\ ~(phase \in {"rejected", "retrying"} /\ m \in lo..(hi - 1))

\* At-least-once delivery, the other way round: nothing is lost.
NothingLost == \A m \in Offsets : ~Lost(m)
=============================================================================
