------------------------------ MODULE Pipeline ------------------------------
(***************************************************************************)
(* One transaction that deserves a flag, on its way through the consumer   *)
(* (consumer.ts), the rule engine (engine.ts) and dispatchFlag             *)
(* (AlertingSubsystem), in deliveries that overlap: when another group     *)
(* rejects the batch, or the session is lost, the group that holds the     *)
(* transaction goes on beside the next delivery, in this process or in     *)
(* another member.  The next delivery finds the key that the earlier one   *)
(* set and the telemetry it wrote, and may commit the offset while the     *)
(* earlier one can still fail.                                             *)
(***************************************************************************)
EXTENDS AlertingSubsystem  \* the calls of dispatchFlag are the deliveries

VARIABLES at,           \* where the group of each delivery is
          member,       \* the process that has the partition, numbered
          host,         \* delivery -> the process it runs in
          current,      \* the delivery whose eachBatch the runner awaits
          phase,        \* what the runner does (external)
          remembered,   \* the rules have seen the transaction
          skippedFor,   \* delivery -> whose key made dispatchFlag skip
          deadLettered  \* the transaction is on fraud-dlq

runner == <<member, host, current, phase>>
pipe   == <<at, runner, remembered, skippedFor, deadLettered>>
pipeVars == <<vars, pipe>>

Places == {"unborn", "judging", "flagged", "dispatching", "failed",
           "settled", "cleared", "rejected", "dead"}
Phases == {"fetching", "running", "rejected", "committed"}

PipeInit ==
  /\ Init
  /\ at = [d \in Dispatchers |-> "unborn"]
  /\ member = 1 /\ host = [d \in Dispatchers |-> 1]
  /\ current = Nobody /\ phase = "fetching"
  /\ remembered = FALSE
  /\ skippedFor = [d \in Dispatchers |-> Nobody]
  /\ deadLettered = FALSE

Put(d, place) == at' = [at EXCEPT ![d] = place]

\* Something fails outside dispatchFlag.
Mishap == Fault /\ UNCHANGED <<key, pc, ended, alerts, stranded, breaches>>

\* dispatchFlag has returned to the group, or thrown.
Returned(d) ==
  at[d] = "dispatching" /\ pc[d] = "idle" /\ ended[d] \in {"sent", "skipped"}
Threw(d) ==
  at[d] = "dispatching" /\ pc[d] = "idle" /\ ended[d] = "threw"

\* The message is behind the loop of its group.
Settled(d) == at[d] \in {"settled", "cleared"} \/ Returned(d)
Working(d) == at[d] \in {"judging", "flagged", "dispatching", "failed"} /\ ~Settled(d)

-----------------------------------------------------------------------------
(* The group of a delivery                                                   *)

\* executeRules: the first evaluation finds the transaction suspicious.  The
\* geospatial rule overwrites the telemetry, and when it alone was suspicious
\* it compares a repetition with the transaction itself and finds nothing.
Judge(d) ==
  /\ at[d] = "judging"
  /\ Put(d, "flagged") \/ (remembered /\ Put(d, "cleared"))
  /\ remembered' = TRUE
  /\ UNCHANGED <<vars, runner, skippedFor, deadLettered>>

\* append, the projection or the rules throw.
JudgeFails(d) ==
  /\ at[d] = "judging"
  /\ Mishap
  /\ Put(d, "failed")
  /\ UNCHANGED <<runner, remembered, skippedFor, deadLettered>>

\* handleFlagging calls dispatchFlag ...
Dispatch(d) ==
  /\ at[d] = "flagged"
  /\ Call(d)
  /\ Put(d, "dispatching")
  /\ UNCHANGED <<runner, remembered, skippedFor, deadLettered>>

\* ... which takes its steps ...
DispatchGoesOn(d) ==
  /\ SetWins(d) \/ Create(d) \/ Publish(d) \/ Release(d)
  /\ UNCHANGED pipe

DispatchStumbles(d) ==
  /\ \/ SetResent(d) \/ SetFails(d) \/ CreateFails(d) \/ PublishFails(d)
     \/ ReleaseResent(d) \/ ReleaseFails(d)
  /\ UNCHANGED pipe

\* ... or returns, for the key exists.
DispatchSkips(d) ==
  /\ SetSkips(d)
  /\ skippedFor' = [skippedFor EXCEPT ![d] = key]
  /\ UNCHANGED <<at, runner, remembered, deadLettered>>

\* The catch block of eachBatch has the message.
\* Mutant of ToDeadLetter: the processor is called without await.
ToDeadLetterUnawaited(d) == at[d] = "failed"
ToDeadLetter(d) == at[d] = "failed" \/ Threw(d)

SendToDlq(d) ==
  /\ ToDeadLetter(d)
  /\ Put(d, "settled")
  /\ deadLettered' = TRUE
  /\ UNCHANGED <<vars, runner, remembered, skippedFor>>

-----------------------------------------------------------------------------
(* The runner                                                                *)

\* Bound: a delivery is only given up while there is another one to come.
GiveUp(next) == phase' = next /\ \E e \in Dispatchers : at[e] = "unborn"

\* Mutant of SendToDlqFails: the error of the dead-letter producer is logged.
SendToDlqSwallows(d) ==
  /\ ToDeadLetter(d)
  /\ Mishap
  /\ Put(d, "settled")
  /\ UNCHANGED <<runner, remembered, skippedFor, deadLettered>>

\* sendToDlq throws, without effect or after the broker wrote the message: the
\* batch is rejected, or nobody is told when it was rejected before.
SendToDlqFails(d) ==
  /\ ToDeadLetter(d)
  /\ Mishap
  /\ Put(d, "rejected")
  /\ deadLettered' \in {deadLettered, TRUE}
  /\ IF d = current /\ phase = "running" THEN GiveUp("rejected")
                                         ELSE UNCHANGED phase
  /\ UNCHANGED <<member, host, current, remembered, skippedFor>>

\* The batch is fetched, or handed to eachBatch again.
Deliver(d) ==
  /\ phase \in {"fetching", "rejected"}
  /\ at[d] = "unborn"
  /\ Put(d, "judging")
  /\ host' = [host EXCEPT ![d] = member]
  /\ current' = d /\ phase' = "running"
  /\ UNCHANGED <<vars, member, remembered, skippedFor, deadLettered>>

\* Promise.all has resolved, the offset is resolved and committed.
Commit ==
  /\ phase = "running" /\ Settled(current)
  /\ phase' = "committed"
  /\ UNCHANGED <<vars, at, member, host, current, remembered, skippedFor, deadLettered>>

\* Another group of the batch or a heartbeat rejects, or the broker refuses the
\* commit: this group goes on beside the next delivery.
BatchRejects ==
  /\ phase = "running"
  /\ Mishap
  /\ GiveUp("rejected")
  /\ UNCHANGED <<at, member, host, current, remembered, skippedFor, deadLettered>>

\* The session expires: another member takes the partition, this one goes on.
SessionLost ==
  /\ phase = "running"
  /\ Mishap
  /\ GiveUp("fetching")
  /\ member' = member + 1
  /\ UNCHANGED <<at, host, current, remembered, skippedFor, deadLettered>>

\* A process dies with every group in it; the one that has the partition is
\* followed by another.
ProcessDies(p) ==
  LET cut == {d \in Dispatchers : host[d] = p /\ Working(d)}
      owner == p = member /\ phase # "committed"
  IN /\ Crash(cut)
     /\ owner \/ cut # {}
     /\ at' = [d \in Dispatchers |-> IF d \in cut THEN "dead" ELSE at[d]]
     /\ IF owner THEN GiveUp("fetching") /\ member' = member + 1
                 ELSE UNCHANGED <<phase, member>>
     /\ UNCHANGED <<host, current, remembered, skippedFor, deadLettered>>

GroupProgress(d) ==
  \/ Judge(d) \/ Dispatch(d) \/ DispatchGoesOn(d) \/ DispatchSkips(d) \/ SendToDlq(d)

RunnerProgress == Commit \/ \E d \in Dispatchers : Deliver(d)

PipeNext ==
  \/ \E d \in Dispatchers :
       GroupProgress(d) \/ JudgeFails(d) \/ DispatchStumbles(d) \/ SendToDlqFails(d)
  \/ RunnerProgress \/ BatchRejects \/ SessionLost
  \/ \E p \in 1..member : ProcessDies(p)
  \/ Expire /\ UNCHANGED pipe

PipeSpec == PipeInit /\ [][PipeNext]_pipeVars

\* Every promise of a group settles and the runner polls; no fault is due.
FairPipeSpec == /\ PipeSpec
                /\ WF_pipeVars(RunnerProgress)
                /\ \A d \in Dispatchers : WF_pipeVars(GroupProgress(d))

-----------------------------------------------------------------------------
\* Every variable has its type.
PipeTypeOK ==
  /\ TypeOK
  /\ at \in [Dispatchers -> Places] /\ phase \in Phases
  /\ member \in Nat \ {0} /\ host \in [Dispatchers -> Nat \ {0}]
  /\ current \in Dispatchers \cup {Nobody}
  /\ remembered \in BOOLEAN /\ deadLettered \in BOOLEAN
  /\ skippedFor \in [Dispatchers -> Dispatchers \cup {Nobody}]

Answered == alerts > 0 \/ deadLettered

\* The delivery that set the key had bad luck of its own: its process died, its
\* dead letter was refused, or ioredis sent its SET twice.
Unlucky(d) == at[d] \in {"dead", "rejected"} \/ ended[d] = "skipped"

\* A redelivery may be skipped, and the offset committed, because another
\* delivery holds the key (alerts.ts:76): then that one is still at work on the
\* alert, or had bad luck of its own.  Otherwise a committed transaction is
\* alerted or dead-lettered, unless the rules cleared it when they saw it again.
\* While nothing fails it is alerted once and not dead-lettered.
CommitExplained ==
  /\ phase = "committed" /\ ~Answered =>
       \/ at[current] = "cleared" /\ \E d \in Dispatchers \ {current} : at[d] # "unborn"
       \/ skippedFor[current] # Nobody /\ ended[current] = "skipped"
            /\ (Working(skippedFor[current]) \/ Unlucky(skippedFor[current]))
  /\ phase = "committed" /\ faults = 0 => alerts = 1 /\ ~deadLettered

\* Neither a rejected batch nor a redelivery that waits for nobody leaves the
\* flag undecided: the offset is committed in the end, and the delivery whose key
\* it relied on comes to its alert, its dead letter or its bad luck.
FateDecided ==
  <>(/\ phase = "committed"
     /\ Answered \/ at[current] = "cleared" \/ Unlucky(skippedFor[current]))
=============================================================================
