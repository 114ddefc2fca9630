# Verification of the fraud detection engine

TLA+ models of the fraud detection engine in `src/` (TypeScript on Kafka,
Redis and PostgreSQL), model-checked with TLC on small instances, and theorems
about them proved with TLAPS for every value of the constants.

The code paths below are relative to `src/src/`. `PROJECT.json` lists for every
definition the lines it models, for every run what it checks, and for every
property the code hazard it is about.

## 1. The system

A validated transaction arrives on the topic `transactions-validated`. The
consumer groups a batch by message key and, for each message, verifies the
signed envelope, appends the event to PostgreSQL, applies it to the user's
projection in Redis, and hands it to the rule engine. The engine evaluates all
rules at once, aggregates their scores and, above a threshold or when a critical
rule failed, dispatches one alert to `fraud-alerts-high-priority`. What fails
goes to the topic `fraud-dlq`.

    Kafka --> FraudEventConsumer --> EventRepository ---> PostgreSQL "events"
                    |        |-----> ProjectionStore ---> Redis balance, tx_history
                    |        `-----> EngineCoreOrchestrator
                    |                  |-- MerchantBlacklistRule
                    v                  |-- VelocityRule -----> ProjectionStore
                fraud-dlq              |-- GeospatialRule ---> Redis last_telemetry
                                       |-- RiskAggregator
                                       `-- AlertingSubsystem -> Redis dedup key
                                                             `-> producer -> Kafka

### Inventory

| Component | State | Operations | What is hard about it |
|---|---|---|---|
| Event store, `store/event_store/postgres_impl` | table `events` with a unique index on (aggregate, version); connection pool | `append`, `load`, `executeWithRetry`, `acquireClient` | concurrent writers read the same maximum version; lost COMMIT answers; ROLLBACK that rejects; the back-off sleeps with the client in hand |
| Consumer, `events/client/kafka_client/consumer` | offsets in the kafkajs runner; the groups in flight | `start` (eachBatch), `retryWithBackoff`, `sendToDlq`, `shutdown` | groups left running when `Promise.all` rejects; offsets resolved out of order; sessions lost for want of heartbeats; crashes between effect and commit |
| Projection store, `store/projection_store` | `balance` and the sorted set `tx_history` of a user | `processTransaction`, `getTransactionCount`, `getBalance` | the time used by the script is that of the call, not of its execution; a failing INCRBY leaves its ZADD; the set is both velocity window and deduplication memory |
| Rule engine, `rules/engine/orchestrator/core` | none of its own, promises in flight | `orchestrate`, `executeRules`, `handleFlagging` | rules settle in any order and fail separately; a repetition after a failed dispatch |
| Rules, `rules/registry/dynamic_rules/rules` | `last_telemetry` of a user; threshold, window and blacklist in memory | `evaluate`, `reloadConfig` | read-modify-write of telemetry by concurrent and out-of-order transactions; reload between two reads |
| Risk aggregator, `rules/engine/orchestrator/aggregator` | weights | `aggregate` | the mean over the rules that succeeded: what a failed rule does to the verdict |
| Alerting, `rules/engine/orchestrator/alerts` | the deduplication key of a transaction | `dispatchFlag` | the key says neither who set it nor whether the alert is out; every command may be resent |
| Registry, `rules/registry/dynamic_rules/registry` and `index.ts` | rules, threshold, critical ids | `registerRule`, `getRules`, `reloadAll`, `evaluateAll` | hot reload against evaluations in flight; SIGHUP calls `reloadAll()` without an argument |
| Messaging client, `events/client/kafka_client` and `index.ts` | `isRunning`, the connected clients, three sets of signal handlers | `start`, `publish`, `registerConsumer`, `shutdown`, `gracefulShutdown` | order of start and shutdown; handlers that race to `process.exit` |
| Startup, `index.ts`, `core/domain_models/dependency_config.ts`, `kafka_client/config` | the singletons of the process | `createConfig`, `createDependencyContainer`, the constructors, `bootstrap` | the environment is read twice with different defaults; constructors run in the order the cradle is read and need singletons that others make |
| Dead-letter handler, `events/consumer/event_consumer_impl/dlq` | pending publications | `publish`, `shutdown` | none: nothing constructs it |
| Envelope, `core/domain_models/messaging` | none | `create`, `verify` | what JSON and Zod do to the signed bytes on the way |
| Schemas, metrics, logging | none that a decision reads | | |

What makes them correct: histories that are gap-free sequences whatever happens;
no message lost and those of one key in order; each amount applied once;
accusations that have a reason and detections that are not missed; failures that
never clear a transaction; one alert per flagged transaction, or an explanation;
an engine that starts when its configuration is complete.

## 2. Modules

| Module | Models | Abstract state and code |
|---|---|---|
| `EventLog` | the promise of the event store | `log`: aggregate to sequence of events, growing at the end only |
| `EventStore` | `repository.ts`, `client.ts`, `schema.sql` | `rows` the committed rows, `free` the pool, `pc`/`ver`/`err`/`attempt` the locals of each `append` in flight, `reading` the loads in flight; one action per query, so that queries of different writers interleave |
| `KeyedLog` | the promise of the consumer, and of the whole process to its partition | `handled` the offsets it is done with, per key in log order; `committed`, never past one that is not. `Excused` names the offsets that may be missed, none in the promise itself |
| `FraudEventConsumer` | `consumer.ts` inside the kafkajs runner | `committed`/`resolved`/`phase`/`lo`/`hi` are the runner's (external), `left`/`stage`/`tries` one group of `keyedMessages` per delivery and key; `appends` (per delivery), `processed` and `deadLettered` record effects. `Promise` maps it to `KeyedLog`, `LossyPromise` to what is left of it for any log: messages that one without a value has overtaken (`Overtaken`) are excused |
| `ProjectionStore` | `projection-store.ts` | `history` and `balance` the two Redis keys, `at` the `now` a call captured, `asked` the window of a count in flight; `since`, `applied`, `refused` and `returned` are history variables |
| `RuleEngine` | `engine.ts`, `aggregator.ts`, the three rules | `last` the Redis hash `last_telemetry`, whose timestamp the script compares as a double (`Rounded`), `result` how each rule's promise settled; `seen` and `cleared` are history variables |
| `AlertingSubsystem` | `alerts.ts` | `key` the Redis key with the call that set it (the code cannot tell), `pc` the calls; `alerts`, `breaches` and `stranded` are history variables |
| `Pipeline` | one flagged transaction through `consumer.ts`, `engine.ts` and the calls of `AlertingSubsystem`, which it extends | `at` where the group of each delivery is, `host` the process it runs in, `member`/`current`/`phase` the runner (external), `remembered` whether the rules have seen the transaction; `skippedFor` is a history variable |
| `EngineProcess` | `index.ts`, `kafka_client/index.ts`, `producer.ts`, start and shutdown of `consumer.ts` | `boot` what the bootstrap awaits, `at` each signal handler, `isRunning`, `producer`, `dlq` and `consumer` the clients' states, `work` the transaction in flight; `keys` and the topics outlive the process; `stranded` is a history variable. `Promise` maps it to `KeyedLog` with one key |
| `RuleRegistry` | `rule-registry.ts`, `reloadConfig` of the velocity and blacklist rules | `threshold`, `criticalRuleIds`, `velocity`, `blacklist` the fields in memory, `pc`/`result`/`asked`/`report` the locals of each `evaluateAll` in flight; `current` and `during` are history variables |
| `Startup` | `bootstrap` up to the first batch, `dependency_config.ts`, `kafka-config.ts`, the constructors | `env` what the checks tell apart in the environment, `boot` the step of bootstrap, `instances` the singletons that exist |
| `EventEnvelope` | `event-envelope.schema.ts`, `transaction.schemas.ts`, `core/domain_models`, and the lines of producer, consumer and repository that convert an event | `envelope` one event on its way, `stage` how far it is, `signature` the text it was signed as, `row` its JSONB columns; `sent` is a history variable. Each integer is its type at that point and its value |
| `MC*` | | the small instances: logs, timestamps, weights, symmetries |
| `*Proofs` | | inductive invariants, lemmas and theorems, one module per component; those of `AlertingSubsystem` are in `PipelineProofs` |

Actions are cut at the awaits. JavaScript runs the code between two awaits
atomically, and Redis runs a Lua script atomically, so a script is one action;
each PostgreSQL query is one action, except the INSERT, which is two
(`ComputeVersion`, then `InsertRow` or `UniqueViolation`): at READ COMMITTED, the
level a plain BEGIN opens, its subquery reads what is committed when the
statement starts, and the unique index is consulted later, after waiting for a
transaction that holds the same entry.

Operators named `...Always`, `...Swallows`, `...NoUnique` and the like, with a
comment "Mutant of", are plausible defects. Each property of a passing run is
violated when its mutant replaces the definition it names; no specification
uses one.

### What is external

PostgreSQL, the kafkajs runner, ioredis and process death are modelled from how
the code uses them, and marked external in the map: `CommitAckLost` (COMMIT took
effect, the answer did not arrive), `Fetch`, `CommitRejected`, `CommitFails`,
`RetryBatch`, `Restart`, `Deliver`, `SessionLost`, `Crash`, `ProcessDies` (kafkajs commits what is resolved
when eachBatch throws, repeats the batch, then restarts from the committed
offset), and `Resend`, `SetResent`,
`ReserveResent`, `ReleaseResent`, `GeospatialResent` (ioredis
sends unanswered commands again after it reconnects, as is its default, which
`dependency_config.ts` does not change). `EngineProcess` begins where the dependency
container has been built, that is, where finding 4 of section 5 is corrected.

## 3. Runs

All bounds are constants named in the module that uses them.

| Run | Instance | What it shows |
|---|---|---|
| `event_store` | 3 writers, 1 reader, 2 aggregates, 2 connections, 1 retry, fair | versions are dense and unique, no client leaks, a result accounts for its rows, the table implements `EventLog`, every append returns |
| `consumer` | 4 messages, 2 keys, one poison, one empty, 1 retry, 6 deliveries, 1 fault, fair | at-least-once, order per key, duplicates bounded by the attempts, `KeyedLog` is implemented, the log is committed to its end |
| `consumer_tombstone` | 2 messages of 2 keys, 2 faults | *violation*: an empty message lets an earlier one be lost |
| `projection` | 2 transactions, 2 calls, window 2, 4 ticks, one amount that cannot be printed | once per window, recent entries stay, counts are complete, a return has a reason |
| `engine` | 3 transactions, two of them equal as doubles, 2 workers, default weights, threshold 0.5, 2 faults | newest telemetry, justified accusations, no missed travel, fail-closed, failures never help |
| `registry` | 3 configurations, 2 merchants, 1 call, any number of reloads | a reload takes effect although unchanged fields are skipped; a verdict stems from configurations in force while it was made |
| `pipeline` | 3 deliveries, 3 faults, fair | a commit is answered or has a listed reason, and without failures it stands for one alert; duplicates, no more than failures, and keys left behind are explained; the fate of the flag is decided |
| `process` | 2 transactions, 2 signals, 3 faults, restarts, fair | a commit has an alert, a dead letter or a listed reason, which no signal or failure gives to two; stopped means closed; a signal ends the process; the log is drained |
| `process_signal` | 1 transaction, 1 signal, no fault | *violation*: a SIGTERM alone loses an alert |
| `startup` | every environment, 2 refusals, fair | *violation*: no environment lets the engine start |
| `envelope` | 3 integers of 7 samples, 3 origins, strings or digits on the wire | what is accepted is what was signed; what is refused has a reason, which no transaction without envelope gives; integers that doubles hold survive the table |
| `envelope_own` | an event of the factory, exact integers | *violation*: the consumer refuses what the factory signs |

Why the bounds are enough. *Event store*: three writers on two connections are
the fewest where one waits for the pool while the two others conflict on a
version, and the second aggregate shows that conflicts stay inside one; the reader
holds a client while they wait. One
call per writer suffices because a finished writer is the same as a new one and
every call is retried inside `append`; the theorems remove the bound.
*Consumer*: in messages of one key around one of the other, a group can reject
while the other still runs, and the message that does not parse needs only the one
fault to make the dead-letter producer reject; the message without a value follows
one of its own key (`TombstonesInKeyOrder`, below). Two faults, with three messages or with
five deliveries and without `Drains`, were checked too and take too long for a run;
everything but `Drains` is proved for any number of them. The first delivery, one more per
fault, and the batches of one message fit in six. *Projection*: four ticks with a
window of two are enough for a call to be late by a whole window and for its entry
to be pruned; `MaxPrinted` lies between the two amounts, so INCRBY refuses the second
after its ZADD, as it refuses amounts from 10^17 on. A balance out of range is
refused in the same way, and covered by the theorems. *Engine*: of three places the first and second, and the second
and third, cannot be travelled between in time, and the first and third are the
same: an out-of-order arrival is then the difference between an accusation and
none. The second and the third timestamp differ and are the same double, as
nanoseconds less than about 256 apart are. The threshold is the 0.5 of `.env.example`: with it two of the three rules
can reach the threshold, so that a failed third one can make a difference. *Pipeline*:
a third delivery is needed to meet the key of the second after the first one's
cleanup, and with three faults a batch is rejected, or its session lost, and two
more failures hit deliveries that run side by side. A delivery is only given up while there is
another one to come, so that the bound never stops the transaction. *Startup*: a
refusal ends the process and a restart is the same as the first start, so that two
are more than enough. *Process*: the second signal and the faults meet a process restarted by the
first, or handlers that are already running; the second transaction shows that a
restart resumes at the right place. *Registry*: every field differs between
some two of the three configurations, the blacklist of two is of the same length,
and two differ in the window but not in the threshold of the velocity rule; one
call is enough because calls write nothing that another one reads, and it meets a
reload before, between and after its awaits.
*Envelope*: doubles are scaled down, exact
to 32 and the multiples of 8 beyond. The samples are two exact integers (5, 32),
two doubles (40, 56), two that are rounded (45, 47), and one that is rounded and
printed as it was (50, the double 48), as `JSON.stringify` prints the shortest
text that reads back: so is `BigInt(Date.now() * 1e6)`, an exact integer beyond 2^53
whose text may be another one.

`CHECK_DEADLOCK FALSE` is set where the system really stops: all appends are
made, the log is consumed, the offset of the flagged transaction or of the last
transaction is committed, the event is loaded. The projection and the engine
can always be called again and are checked for deadlock.

### Fairness

`EventStore!FairSpec` assumes weak fairness of each writer's own progress: `pg`
answers or rejects each query, `connect()` either gets a client or times out
(`connectionTimeoutMillis`), timers fire. No fairness is assumed of faults, of
callers, or of a load, which may keep its client for ever: `connect()` times out.
`FraudEventConsumer!FairSpec` assumes that each group's promise goes on
and that the runner keeps polling, committing and retrying; faults are bounded
by `MaxFaults` and the deliveries by `MaxDeliveries`, which the run chooses
larger than the faults can use up, so that the bound never stops the consumer
itself. No strong fairness is used.
`EngineProcess!FairSpec` assumes that calls and disconnects end, that the runner
polls and that the container is restarted (`restart: always`); faults and signals
are never due. `Pipeline!FairPipeSpec` assumes that the promises of each group
settle and that the runner polls, redelivers and commits; the expiry of the key is
not due. `Startup!FairSpec` assumes that bootstrap goes on and that the container is
restarted.

## 4. Proofs

| Theorem | States | Inductive invariant |
|---|---|---|
| `TypeCorrect`, `VersionsAreDense` | versions 1, 2, ... per aggregate | `VersionInv`: a computed version is at most one above the committed ones, and the writers in the index hold different entries. `VersionsDense` alone is not inductive: a commit must know that its version is still free and has no hole below |
| `ClientsAreConserved` | free + held = pool size | on top of the types |
| `CallsAreAccounted` | an append leaves at most one row | `AccountInv`: which program points may already have left a row, and that only 40001 leads back to the INSERT |
| `StoreImplementsLog` | `Spec => Log!LogSpec` | every step is an `AppendEvent` of the log or a stutter, from the invariants above |
| `AppendStepsBounded` | what is left of an append shrinks with its every step (an action property) | `StepsLeft` counts the attempts left and the program points of one attempt: no retry turns back uncounted. `AppendsNeverStuck` adds that whenever a writer is inside, one is not waiting for an index entry |
| `ConsumerTypeCorrect`, `ConsumerMissesOnlyOvertaken` | types and `OnlyOvertakenMissed`, for any log | `ConsumerInv`: what lies below a cursor is settled or overtaken by an empty message of another key, every message of the running batch is handled or held by its group or overtaken, every group, old or new, holds a suffix of its key |
| `ConsumerAtLeastOnce`, `ConsumerKeyOrder` | see the runs | corollaries: with `TombstonesInKeyOrder` nothing is overtaken |
| `ConsumerDuplicationBounded` | rows per delivery and message | `BudgetInv`: a delivery has stored nothing of a message its group has not come to, and no more than the attempts counted while it appends it |
| `ConsumerImplementsLossyLog`, `ConsumerImplementsKeyedLog` | `Spec => LossyPromise!Spec` for any log, `Spec => Promise!Spec` with `TombstonesInKeyOrder` | a step finishes the message at the head of a suffix, whose predecessors of the same key are finished (or excused), or commits below an offset whose messages all are, or stutters |
| `ProjectionTypeCorrect`, `AppliedOncePerWindow`, `ReturnsFounded`, `RecentTransactionsKept`, `CountsComplete` | see the runs | `ProjectionInv`: each call's `now` lies between the first call of its transaction and the clock, and so does each entry left by a script; hence no script in flight can prune or rewind a recent entry out of the window |
| `EngineTypeCorrect`, `TelemetryNewest`, `AccusationsJustified`, `FailClosed` | see the runs | `EngineInv`: a settled geospatial result has its transaction in `seen`, and the stored telemetry is a newest one of `seen`, up to the rounding of Lua, of which only monotonicity is used |
| `TravelIsDetected` | no missed travel (an action property) | only `EvaluateGeospatial` settles as quiet, and the stored telemetry has the double of every newest one |
| `FailOpenIsSafe` | failures never help (an action property) | quiet results in place of failed ones only add weight: `MoreRulesDilute` |
| `RegistryTypeCorrect`, `ReloadTakesEffect`, `VerdictsInForce` | see the runs | `RegistryInv`: a running call has seen the configuration in force, and what it read so far stems from configurations it has seen; a finite list of the same size without a new member is the same list |
| `ProcessTypeCorrect`, `NothingElseIsLost`, `ShutdownIsComplete` | see the runs | `ProcessInv`: a key belongs to an alert that is out, to a stranded transaction or to the dispatch in flight, and a handler in shutdown has closed what it passed, none existing before the client runs. A step strands at most one transaction, and only a signal or a fault does |
| `ProcessImplementsKeyedLog` | `Spec => Promise!Spec` | from `ProcessInv`: one transaction at a time is in flight, the one after the committed offset |
| `SignalEndsProcess` | `Spec /\ ExitDue => SignalStops` (liveness) | a handler at work implies that the producer's one is at work or the process is down, and only the end of the process stops that one: the weak fairness of its exit suffices, whatever the other handlers do |
| `EnvelopeTypeCorrect`, `AcceptedIntact`, `RefusalsExplained`, `FactoryEventsRefused`, `SafeEnvelopesReload` | see the runs | `EnvelopeInv`: the digits of the signature are those sent, an accepted envelope is signed as it stands, and the row holds its digits. `FactoryEventsRefused` is finding 3 for every integer: nothing the factory signs is ever accepted |
| `PipeTypeCorrect`, `PipeDuplicatesAccounted`, `PipeKeyExplained` | see the runs | `AlertInv`: while a call is about to publish, its own key is there or its removal has been counted, and the removals and the calls still in the catch block are paid for by failures |
| `PipeImplementsAlerting` | `PipeSpec => Spec`, the specification of `AlertingSubsystem` | every step of the pipeline is a step of its calls or a stutter (`PipeStepIsCallStep`) |
| `PipeCommitExplained` | see the runs | `PipeInv`: where a group is fits what its call of dispatchFlag has done, a skipped call names one that did set the key, only a repetition is cleared, and what is committed is settled; `Smooth`, while nothing has failed, there is one delivery, and it is on the way to its only alert |
| `DeliveryEnds` | `PipeSpec /\ GroupDue(d) => (Working(d) ~> ~Working(d))` (liveness) | `Rank(d)`, 7 at the rules to 1 before the dead letter: a step of its own group lowers it or ends the delivery (`ProgressForward`), no other step raises it (`StepForward`) |
| `ReliedOnEnds` | the second half of `FateDecided` (liveness) | once committed, the delivery whose key the commit relied on stays the same (`ReliesForever`), ends by `DeliveryEnds`, and has then been answered or unlucky by `PipeInv` |

Assumptions. The constants' `ASSUME`s (positive pool and window, finite sets of
writers, readers and merchants, integer amounts, doubles exact up to `MaxSafe` and ordered as the integers are) are in the modules and evaluated by TLC. `ConsumerAtLeastOnce`,
`ConsumerKeyOrder` and `ConsumerImplementsKeyedLog` assume `TombstonesInKeyOrder`: a message
without a value follows only messages of its own key or without a value. The run
`consumer_tombstone` shows that at-least-once delivery fails without it; what holds
for any log is stated by `OnlyOvertakenMissed` and `ImplementsLossyLog`, and types and
`BoundedDuplication` need no assumption. The three theorems on liveness,
`SignalEndsProcess`, `DeliveryEnds` and `ReliedOnEnds`, write the weak fairness of `EngineProcess!Fairness` and `FairPipeSpec` out with a state predicate in the
place of ENABLED, which the prover does not handle (`ExitDue`, `GroupDue`); that
`ENABLED <<ProducerExits>>_vars` is `at["producer"] = "flush"`, and
`ENABLED <<GroupProgress(d)>>_pipeVars` is `Working(d)`, in every reachable state was checked
with TLC (two signals and two faults, two deliveries and three faults). Nothing else is assumed: not the
bounds of the runs, nor the number of writers, keys, deliveries, calls,
transactions or faults.

Only model-checked: the liveness properties `AppendReturns` and the two `Drains` and,
but for its second half, `FateDecided`; and the violations of the next section, which are
refuted by a run. They need an induction over the number of retries, messages or faults
with a temporal formula in it, which no installed backend does. Of `AppendReturns`
the bounded number of steps is proved; what is left to TLC is that each is taken. The arithmetic of haversine and of scores in doubles is
not modelled: places are related by `Far`, and scores are integers in tenths.

## 5. Where code and documents disagree

1. `consumer.ts:98` resolves the offset of a message without a value at once,
   past messages of other keys that are still being handled. If the batch is
   then rejected, those are committed unhandled. `specifications.md` 3.3.1
   promises at-least-once delivery. (`consumer_tombstone`)
2. `producer.ts:125`: the producer's handler of SIGTERM exits the process while a
   dispatch may sit between its SET NX and its publication. After the restart the
   key makes the transaction "already processed", and it is committed without an
   alert, although `producer.ts:109` promises a flush and
   `kafka_client/index.ts:89` a graceful shutdown of all components.
   (`process_signal`)
3. `transaction.schemas.ts:31`: the schemas drop the `metadata` object that
   `TransactionFactory` puts into the payload, so that the text verified is not the
   one signed (`event-envelope.schema.ts:148` says it is) and every enveloped
   event of the factory goes to the dead-letter topic. (`envelope_own`)
4. `repository.ts:44`: the constructor of the event repository takes the
   `CryptoManager` singleton, and `CryptoManager.initialize` is called by tests only.
   `index.ts:20` constructs the repository, so bootstrap exits whatever the environment
   and the container restarts for ever, where `README.md` 6 has the engine begin
   processing. With the singleton made beforehand `EngineStarts` holds. (`startup`)

Noticed while reading, not checked by a run of its own: `repository.ts:121` gets
the columns through `JSON.parse`, so that an integer beyond 2^53, which every
timestamp in nanoseconds is, may be printed otherwise than it was signed and `load`
then throws `IntegrityViolationError` for an untouched event (`SafeIntegersReload`
says when it cannot; an integer may also be printed as it was signed and be
another double); `projection-store.ts:109` prunes the memory of applied
transactions with the velocity window, so the test "should be idempotent when
processing same transactionId" holds only within it (`OncePerWindow`);
`geospatial_rule.ts:68` overwrites the telemetry it compares with, so a transaction
that is evaluated again after its dispatch failed is compared with itself and
cleared, although `alerts.ts:106` frees its key for that retry;
`aggregator.ts:74` gives a blacklist hit alone 2.0/4.5 with the default weights,
below the default threshold, while `merchant-blacklist-rule.ts:17` has it
"immediately flagged"; a SET NX that ioredis resends
after a lost answer refuses the key it has set itself (`alerts.ts:74`, the action
`ReserveResent`); `specifications.md` 3.4.1 speaks of
snapshot isolation, while `repository.ts:79` opens a READ COMMITTED transaction
and relies on the unique index, which the model follows; `index.ts:70` calls
`reloadAll()` without the configuration it dereferences, so that the SIGHUP of which
`velocity-rule.ts:21` says that it updates the settings changes nothing, and
`engine.ts:71` captures threshold and critical rules for good; and `index.ts:43` passes
the event repository as the dependency object of `FraudEventConsumer`
(`consumer.ts:40-47`), so that `systemConfig`, `projectionStore` and
`eventRepository` are undefined in the consumer the bootstrap builds and every
batch is rejected at `consumer.ts:83`. The consumer model follows the contract
of the constructor, as its tests do.

## 6. Plan

Done, in this order: event store, consumer, projection store, alerting, rule
engine, engine process, event envelope, rule registry, the consumer as an
implementation of `KeyedLog`, the pipeline composed of consumer, engine and alerting,
the startup, each with its runs and all but the startup with proofs; then the theorems
for any log, the process as an implementation of `KeyedLog`, the pipeline as one of
`AlertingSubsystem`, and the liveness of a signal and of a delivery. Left, should the code change:

1. `DlqHandler`, once something constructs it: publications in flight against
   shutdown.
2. The pipeline for several transactions of one user, whose deliveries share telemetry
   and velocity window as well as a log: today `RuleEngine` has the first and
   `FraudEventConsumer` the second.

## 7. What is not modelled

Metrics and logging are written and never read by a decision. `DlqHandler`,
`MetricsProvider` and `postgres_impl/config.ts` are used by nothing; so is
`PostgresPoolManager.initialize`, the health check of the pool. Cryptography, Zod and JSON are libraries: outside `EventEnvelope` their
verdict is the kind of a message (`good` or `poison`), and there a signature is the
text it was made from. Of the fields of an event `EventEnvelope` follows the
integers and whether there is one that the schemas do not know; the others pass
unchanged. The rounding of amounts between 2^53 and 10^17 in Lua is left out.
`EventRepository.load` is the operator `Load` of `EventStore` with its client of the
pool in `LoadAcquires` and `LoadEnds`, and the action `Load` of `EventEnvelope`, which
verifies what was read.

`Startup` tells apart whether a value is missing or has a form that a check refuses, not
the values; the environment of `docker-compose.yml` itself is one that `PoolAccepts`
refuses (`NODE_ENV=production` and a `DB_URL` without `sslmode=verify-full`). `Pipeline`
follows one transaction that the rules flag at first sight; what the
rules see of others is in `RuleEngine`. Its runner commits or gives up a delivery as
a whole, `FraudEventConsumer` message by message.

`RuleRegistry` follows the signature of `reloadAll` and reloads whole configurations, as
the configuration schema makes them: a `reloadConfig` that throws does not
occur. `registerRule` runs before anything else and is part of `Init`. The running
engine takes only `getRules` from the registry; `RuleEngine` has the threshold and
the critical rules that the engine captures as constants.

`EngineProcess` takes one signal per start of a handler: a second one while a handler
is under way does not start it again. It leaves out the TTL of the deduplication
key (a key that lives for ever can only lose more alerts), and it relies on
two facts about kafkajs 2.2.4 outside this repository: `send` rejects from the
moment `disconnect` is called, and a second `disconnect` of a consumer does not
wait for the running batch.
