---------------------------- MODULE EngineProcess ----------------------------
(***************************************************************************)
(* The life of the engine's process: bootstrap (index.ts), start and       *)
(* shutdown of KafkaMessagingClient, the signal handlers that the producer,*)
(* the client and the bootstrap each register, and what they do to the     *)
(* transaction in flight.  Every transaction here is to be flagged;        *)
(* the alerting subsystem is reduced to its key and its publication.  The  *)
(* container is restarted whenever the process ends                        *)
(* (docker-compose.yml, restart: always).                                  *)
(***************************************************************************)
EXTENDS Integers, FiniteSets

CONSTANTS MaxMessages,  \* bound: length of transactions-validated
          MaxSignals,   \* bound: SIGTERM or SIGINT
          MaxFaults     \* bound: rejections of Kafka and Redis, and kills

ASSUME MessagesAssumption == MaxMessages \in Nat
ASSUME SignalsAssumption  == MaxSignals \in Nat
ASSUME FaultsAssumption   == MaxFaults \in Nat

VARIABLES boot,          \* what the bootstrap waits for
          at,            \* where each signal handler is
          isRunning,     \* KafkaMessagingClient.isRunning
          producer,      \* the producer accepts messages
          dlq,           \* the consumer's dead-letter producer accepts messages
          consumer,      \* "on", "stopping" (no new batch) or "off"
          work,          \* where the transaction in flight is
          keys,          \* transactions with a deduplication key in Redis
          committed,     \* the committed offset
          alerted,       \* transactions alerted
          deadLettered,  \* transactions on fraud-dlq
          stranded,      \* transactions whose key was left without an alert
          signals, faults

process == <<boot, at, isRunning, producer, dlq, consumer>>
effects == <<keys, committed, alerted, deadLettered, stranded>>
bounds  == <<signals, faults>>
vars    == <<process, work, effects, bounds>>

Boots    == {"down", "producer", "dlq", "consumer", "listen", "up"}
Works    == {"idle", "evaluate", "reserved", "sending", "cleanup", "dlq", "settled"}
Handlers == {"producer", "client", "bootstrap"}
Stages   == {"unset", "armed", "flush", "wait", "dlq", "server", "ended"}

Messages == 1..MaxMessages
Current  == committed + 1
Unset    == [h \in Handlers |-> "unset"]
Fault    == faults < MaxFaults /\ faults' = faults + 1 /\ UNCHANGED signals

Init ==
  /\ boot = "down" /\ at = Unset
  /\ isRunning = FALSE /\ producer = FALSE /\ dlq = FALSE /\ consumer = "off"
  /\ work = "idle"
  /\ keys = {} /\ committed = 0
  /\ alerted = {} /\ deadLettered = {} /\ stranded = {}
  /\ signals = 0 /\ faults = 0

\* The process ends and takes everything but Redis and Kafka with it.  What was
\* being sent may have been written, and a key may stay behind.
Exit ==
  /\ boot' = "down" /\ at' = Unset
  /\ isRunning' = FALSE /\ producer' = FALSE /\ dlq' = FALSE /\ consumer' = "off"
  /\ work' = "idle"
  /\ alerted' \in {alerted, alerted \cup (IF work = "sending" THEN {Current} ELSE {})}
  /\ deadLettered' \in {deadLettered, deadLettered \cup (IF work = "dlq" THEN {Current} ELSE {})}
  /\ stranded' = stranded \cup ((keys \cap {Current}) \ alerted')
  /\ UNCHANGED <<keys, committed>>

-----------------------------------------------------------------------------
(* bootstrap and KafkaMessagingClient.start                                *)

\* The container starts the process, which calls producer.connect.
Launch ==
  /\ boot = "down"
  /\ boot' = "producer"
  /\ UNCHANGED <<at, isRunning, producer, dlq, consumer, work, effects, bounds>>

\* producer.connect resolved; the consumer connects its dead-letter producer.
ProducerConnects ==
  /\ boot = "producer"
  /\ boot' = "dlq" /\ producer' = TRUE
  /\ UNCHANGED <<at, isRunning, dlq, consumer, work, effects, bounds>>

DlqConnects ==
  /\ boot = "dlq"
  /\ boot' = "consumer" /\ dlq' = TRUE
  /\ UNCHANGED <<at, isRunning, producer, consumer, work, effects, bounds>>

\* connect, subscribe and run resolved: the client runs and its own and the
\* producer's handlers are registered, before any batch arrives.
ConsumerRuns ==
  /\ boot = "consumer"
  /\ boot' = "listen" /\ consumer' = "on" /\ isRunning' = TRUE
  /\ at' = [at EXCEPT !["producer"] = "armed", !["client"] = "armed"]
  /\ UNCHANGED <<producer, dlq, work, effects, bounds>>

\* server.listen resolved: the bootstrap registers its handlers.
ServerListens ==
  /\ boot = "listen"
  /\ boot' = "up"
  /\ at' = [at EXCEPT !["bootstrap"] = "armed"]
  /\ UNCHANGED <<isRunning, producer, dlq, consumer, work, effects, bounds>>

\* One of them rejects: bootstrap().catch, or the catch of listen, exits.
BootFails ==
  /\ boot \in {"producer", "dlq", "consumer", "listen"}
  /\ Fault
  /\ Exit

-----------------------------------------------------------------------------
(* The transaction in flight                                               *)

\* The runner hands out the next message.
Deliver ==
  /\ consumer = "on" /\ work = "idle" /\ committed < MaxMessages
  /\ work' = "evaluate"
  /\ UNCHANGED <<process, effects, bounds>>

\* orchestrate flags, dispatchFlag sets the key.
Reserve ==
  /\ work = "evaluate" /\ Current \notin keys
  /\ work' = "reserved" /\ keys' = keys \cup {Current}
  /\ UNCHANGED <<process, committed, alerted, deadLettered, stranded, bounds>>

\* ioredis sends SET NX again after a lost answer, and it finds the key it set.
ReserveResent ==
  /\ work = "evaluate" /\ Current \notin keys
  /\ Fault
  /\ work' = "settled" /\ keys' = keys \cup {Current}
  /\ stranded' = stranded \cup ({Current} \ alerted)
  /\ UNCHANGED <<process, committed, alerted, deadLettered>>

\* The key exists: dispatchFlag returns.
Skip ==
  /\ work = "evaluate" /\ Current \in keys
  /\ work' = "settled"
  /\ UNCHANGED <<process, effects, bounds>>

\* A step before dispatchFlag rejects; the processor is not retried.
EvaluateFails ==
  /\ work = "evaluate"
  /\ Fault
  /\ work' = "dlq"
  /\ UNCHANGED <<process, effects>>

\* The alert cannot be built or signed.
CreateFails ==
  /\ work = "reserved"
  /\ Fault
  /\ work' = "cleanup"
  /\ UNCHANGED <<process, effects>>

\* publish and produce: send is under way, or isRunning is false or the producer is
\* disconnecting and the call throws.
Publish ==
  /\ work = "reserved"
  /\ work' = IF isRunning /\ producer THEN "sending" ELSE "cleanup"
  /\ UNCHANGED <<process, effects, bounds>>

Acknowledged ==
  /\ work = "sending"
  /\ work' = "settled" /\ alerted' = alerted \cup {Current}
  /\ UNCHANGED <<process, keys, committed, deadLettered, stranded, bounds>>

\* send rejects, without effect or after the broker wrote the alert.
SendFails ==
  /\ work = "sending"
  /\ Fault
  /\ work' = "cleanup" /\ alerted' \in {alerted, alerted \cup {Current}}
  /\ UNCHANGED <<process, keys, committed, deadLettered, stranded>>

\* The catch block of dispatchFlag removes the key and throws.
Release ==
  /\ work = "cleanup"
  /\ work' = "dlq" /\ keys' = keys \ {Current}
  /\ UNCHANGED <<process, committed, alerted, deadLettered, stranded, bounds>>

ReleaseFails ==
  /\ work = "cleanup"
  /\ Fault
  /\ work' = "dlq" /\ stranded' = stranded \cup ({Current} \ alerted)
  /\ UNCHANGED <<process, keys, committed, alerted, deadLettered>>

\* sendToDlq; when its producer is disconnecting it throws, the batch is
\* rejected, and the message is delivered again.
DeadLetter ==
  /\ work = "dlq"
  /\ IF dlq THEN work' = "settled" /\ deadLettered' = deadLettered \cup {Current}
            ELSE work' = "idle" /\ UNCHANGED deadLettered
  /\ UNCHANGED <<process, keys, committed, alerted, stranded, bounds>>

\* Mutant of DeadLetterFails: sendToDlq logs the failure and returns.
DeadLetterSwallows ==
  /\ work = "dlq"
  /\ Fault
  /\ work' = "settled"
  /\ UNCHANGED <<process, effects>>

DeadLetterFails ==
  /\ work = "dlq"
  /\ Fault
  /\ work' = "idle" /\ deadLettered' \in {deadLettered, deadLettered \cup {Current}}
  /\ UNCHANGED <<process, keys, committed, alerted, stranded>>

\* Mutant of Commit: the batch is not over once its offset is committed.
CommitAgain ==
  /\ work = "settled" /\ consumer # "off"
  /\ committed' = committed + 1
  /\ UNCHANGED <<process, work, keys, alerted, deadLettered, stranded, bounds>>

\* heartbeat and commitOffsetsIfNecessary, which reject once the consumer is
\* disconnected.
Commit ==
  /\ work = "settled"
  /\ work' = "idle"
  /\ committed' = IF consumer = "off" THEN committed ELSE committed + 1
  /\ UNCHANGED <<process, keys, alerted, deadLettered, stranded, bounds>>

-----------------------------------------------------------------------------
(* Signals: the handlers start together and run side by side               *)

\* Shutdown by handler h leaves the client: the client's own handler ends, the
\* bootstrap goes on to server.close.
After(h) == IF h = "client" THEN "ended" ELSE "server"

\* Without a handler the signal ends the process.  Otherwise each registered
\* handler first disconnects the producer, except that shutdown returns at once
\* when the client is not running.  A handler under way is not started again.
Signal ==
  /\ boot # "down"
  /\ signals < MaxSignals /\ signals' = signals + 1 /\ UNCHANGED faults
  /\ \/ at["producer"] = "unset" /\ Exit
     \/ /\ at["producer"] # "unset"
        /\ at' = [h \in Handlers |->
                    IF at[h] # "armed" THEN at[h]
                    ELSE IF h = "producer" \/ isRunning THEN "flush" ELSE After(h)]
        /\ producer' = FALSE
        /\ UNCHANGED <<boot, isRunning, dlq, consumer, work, effects>>

\* Mutant of ProducerExits: the producer's handler leaves the exit to others.
ProducerStays ==
  /\ at["producer"] = "flush"
  /\ at' = [at EXCEPT !["producer"] = "ended"]
  /\ UNCHANGED <<boot, isRunning, producer, dlq, consumer, work, effects, bounds>>

\* The producer's handler calls process.exit(0) once its disconnect resolved.
\* When it rejects, the unhandled rejection ends the process all the same.
ProducerExits ==
  /\ at["producer"] = "flush"
  /\ Exit
  /\ UNCHANGED bounds

\* shutdown goes on to consumer.disconnect, which waits for the batch in flight
\* (kafkajs); a second call finds the runner stopped and does not wait.
StopConsumer(h) ==
  /\ at[h] = "flush"
  /\ IF consumer = "on"
     THEN consumer' = "stopping" /\ at' = [at EXCEPT ![h] = "wait"] /\ UNCHANGED dlq
     ELSE consumer' = "off" /\ at' = [at EXCEPT ![h] = "dlq"] /\ dlq' = FALSE
  /\ UNCHANGED <<boot, isRunning, producer, work, effects, bounds>>

\* The batch is over; consumer.shutdown disconnects the dead-letter producer.
Stopped(h) ==
  /\ at[h] = "wait" /\ work = "idle"
  /\ consumer' = "off" /\ at' = [at EXCEPT ![h] = "dlq"] /\ dlq' = FALSE
  /\ UNCHANGED <<boot, isRunning, producer, work, effects, bounds>>

\* Every client is disconnected.
ShutdownReturns(h) ==
  /\ at[h] = "dlq"
  /\ isRunning' = FALSE /\ at' = [at EXCEPT ![h] = After(h)]
  /\ UNCHANGED <<boot, producer, dlq, consumer, work, effects, bounds>>

\* Mutant of ShutdownFails: isRunning is reset in a finally block.
ShutdownFailsReset(h) ==
  /\ at[h] \in {"flush", "wait", "dlq"}
  /\ Fault
  /\ at' = [at EXCEPT ![h] = After(h)]
  /\ isRunning' = FALSE
  /\ UNCHANGED <<boot, producer, dlq, consumer, work, effects>>

\* A disconnect rejects: shutdown logs it and returns, still running.
ShutdownFails(h) ==
  /\ at[h] \in {"flush", "wait", "dlq"}
  /\ Fault
  /\ at' = [at EXCEPT ![h] = After(h)]
  /\ UNCHANGED <<boot, isRunning, producer, dlq, consumer, work, effects>>

\* The bootstrap closes the server, drops Redis and exits.
ServerCloses ==
  /\ at["bootstrap"] = "server"
  /\ Exit
  /\ UNCHANGED bounds

\* SIGKILL, or the death of the host.
Kill == boot # "down" /\ Fault /\ Exit

-----------------------------------------------------------------------------
Boot == Launch \/ ProducerConnects \/ DlqConnects \/ ConsumerRuns \/ ServerListens
Work == \/ Deliver \/ Reserve \/ Skip \/ Publish \/ Acknowledged \/ Release
        \/ DeadLetter \/ Commit
Stop(h) == StopConsumer(h) \/ Stopped(h) \/ ShutdownReturns(h)
Failures == \/ BootFails \/ ReserveResent \/ EvaluateFails \/ CreateFails \/ SendFails
            \/ ReleaseFails \/ DeadLetterFails \/ Kill

Next ==
  \/ Boot \/ Work \/ Failures
  \/ Signal \/ ProducerExits \/ ServerCloses
  \/ \E h \in {"client", "bootstrap"} : Stop(h) \/ ShutdownFails(h)

Spec == Init /\ [][Next]_vars

\* Calls return, the runner polls, disconnects end, and the container is
\* restarted.  Faults and signals are never due.
Fairness ==
  /\ WF_vars(Boot) /\ WF_vars(Work)
  /\ WF_vars(ProducerExits) /\ WF_vars(ServerCloses)
  /\ WF_vars(Stop("client")) /\ WF_vars(Stop("bootstrap"))

FairSpec == Spec /\ Fairness

-----------------------------------------------------------------------------
\* Every variable has its type.
TypeOK ==
  /\ boot \in Boots /\ at \in [Handlers -> Stages]
  /\ isRunning \in BOOLEAN /\ producer \in BOOLEAN /\ dlq \in BOOLEAN
  /\ consumer \in {"on", "stopping", "off"}
  /\ work \in Works
  /\ committed \in 0..MaxMessages
  /\ keys \subseteq Messages /\ alerted \subseteq Messages
  /\ deadLettered \subseteq Messages /\ stranded \subseteq Messages
  /\ signals \in 0..MaxSignals /\ faults \in 0..MaxFaults

\* However starts, signals, kills and failures fall, an offset is committed only
\* when its transaction was alerted, dead-lettered, or robbed of its alert by
\* a key that a dead process, a failed DEL or a resent SET left behind.  Handlers that close
\* the clients under a batch in flight lose nothing in another way, and no signal
\* or fault robs more than one transaction.
SettledOrStranded ==
  /\ \A m \in 1..committed : m \in alerted \cup deadLettered \cup stranded
  /\ Cardinality(stranded) <= signals + faults

\* A client that says it stopped has closed everything it opened, whichever of
\* the overlapping shutdowns got there first and whatever rejected on the way,
\* so that publish refuses nothing the producer would still take.
StoppedMeansClosed ==
  boot \in {"listen", "up"} /\ ~isRunning => ~producer /\ ~dlq /\ consumer = "off"

\* A signal ends the process, also one that arrives before the bootstrap has
\* registered its handler, while a disconnect rejects or a batch is in flight.
SignalStops == (\E h \in Handlers : at[h] \notin {"unset", "armed"}) ~> (boot = "down")

\* Every transaction is settled in the end, across the restarts.
Drains == <>(committed = MaxMessages)

\* What the engine promises its partition, over all its lives: KeyedLog with one
\* key, in which a robbed transaction counts as done.
Promise == INSTANCE KeyedLog WITH
             N       <- MaxMessages,
             KeyOf   <- [n \in 0..(MaxMessages - 1) |-> "partition"],
             Skipped <- {}, Excused <- {},
             handled <- {n \in 0..(MaxMessages - 1) :
                           n + 1 \in alerted \cup deadLettered \cup stranded}

\* It is done with the transactions one by one, in the order of the log, and
\* commits only what it is done with, however many processes it takes.
ImplementsKeyedLog == Promise!Spec

\* specifications.md 3.3.2 says flagging verdicts are successfully broadcast, and
\* gracefulShutdown that pending messages are flushed: a flagged transaction
\* whose offset is committed is alerted or, failing that, dead-lettered.
FlaggedIsBroadcast == \A m \in 1..committed : m \in alerted \cup deadLettered
=============================================================================
