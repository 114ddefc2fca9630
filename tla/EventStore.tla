----------------------------- MODULE EventStore -----------------------------
(***************************************************************************)
(* EventRepository.append (store/event_store/postgres_impl/repository.ts): *)
(* concurrent appends to the table "events" through a bounded connection   *)
(* pool.  A version is computed from the committed rows when the INSERT    *)
(* starts (READ COMMITTED, the transaction is opened by a plain BEGIN) and *)
(* is claimed later, in the unique index on (aggregate_id, version), where *)
(* an INSERT waits for the transaction that holds the same key.  Any query *)
(* may fail, and a COMMIT may take effect although its answer is lost.     *)
(***************************************************************************)
EXTENDS Naturals, FiniteSets, Sequences

CONSTANTS Writers,          \* callers of append that run at the same time
          Readers,          \* callers of load that run at the same time
          Aggregates,       \* aggregate ids
          PoolMax,          \* DB_POOL_MAX, the connections of the pool
          DefaultRetries,   \* DEFAULT_RETRIES of executeWithRetry
          MaxCalls          \* bound: calls of append made by one writer

ASSUME PoolAssumption    == PoolMax \in Nat \ {0}
ASSUME WritersAssumption == /\ IsFiniteSet(Writers) /\ IsFiniteSet(Readers)
                           /\ Aggregates # {}
ASSUME RetriesAssumption == DefaultRetries \in Nat /\ MaxCalls \in Nat

VARIABLES rows,      \* committed rows of "events"
          free,      \* connections the pool can still hand out
          pc,        \* where each writer is inside append
          call,      \* number of the append the writer is in, or made last
          agg,       \* aggregate of that append
          ver,       \* version its INSERT computed; 0 when it holds none
          err,       \* error caught by the operation of append
          attempt,   \* serialization failures retried by executeWithRetry
          outcome,   \* what each finished append returned or threw
          reading    \* readers whose load has a client

vars == <<rows, free, pc, call, agg, ver, err, attempt, outcome, reading>>

Errors  == {"none", "unique", "serialization", "other"}
Results == {"pending", "stored", "conflict", "failed"}
PCs     == {"idle", "acquire", "begin", "select", "index", "commit",
            "rollback", "backoff"}
EventIds == Writers \X (1..MaxCalls)

Event(w) == <<w, call[w]>>
Versions(a) == {r.version : r \in {q \in rows : q.aggregate = a}}
\* SELECT COALESCE(MAX(version), 0) + 1 FROM events WHERE aggregate_id = a
NextVersion(a) ==
  1 + (CHOOSE m \in Versions(a) \cup {0} : \A v \in Versions(a) : v <= m)

\* Writers whose open transaction holds an entry of the unique index.
HasEntry(w) == pc[w] = "commit" \/ (pc[w] = "rollback" /\ ver[w] # 0)
\* Writers that have a pooled client: from connect() to client.release().
Holders == {w \in Writers : pc[w] \notin {"idle", "acquire"}}

Init ==
  /\ rows = {}
  /\ free = PoolMax
  /\ pc = [w \in Writers |-> "idle"]
  /\ call = [w \in Writers |-> 0]
  /\ agg = [w \in Writers |-> CHOOSE a \in Aggregates : TRUE]
  /\ ver = [w \in Writers |-> 0]
  /\ err = [w \in Writers |-> "none"]
  /\ attempt = [w \in Writers |-> 0]
  /\ outcome = [e \in EventIds |-> "pending"]
  /\ reading = {}

\* append(aggregateId, event) is called.
Call(w, a) ==
  /\ pc[w] = "idle"
  /\ call[w] < MaxCalls
  /\ call' = [call EXCEPT ![w] = @ + 1]
  /\ agg' = [agg EXCEPT ![w] = a]
  /\ attempt' = [attempt EXCEPT ![w] = 0]
  /\ pc' = [pc EXCEPT ![w] = "acquire"]
  /\ UNCHANGED <<rows, free, ver, err, outcome, reading>>

\* pool.connect() resolves.
AcquireClient(w) ==
  /\ pc[w] = "acquire"
  /\ free > 0
  /\ free' = free - 1
  /\ pc' = [pc EXCEPT ![w] = "begin"]
  /\ UNCHANGED <<rows, call, agg, ver, err, attempt, outcome, reading>>

\* append ends with the given result; the finally block releases the client.
Finish(w, result) ==
  /\ pc' = [pc EXCEPT ![w] = "idle"]
  /\ outcome' = [outcome EXCEPT ![Event(w)] = result]
  /\ free' = free + 1

\* pool.connect() rejects: no client within connectionTimeoutMillis, or the
\* database is not reachable.  ConnectionError leaves append at once.
AcquireFails(w) ==
  /\ pc[w] = "acquire"
  /\ pc' = [pc EXCEPT ![w] = "idle"]
  /\ outcome' = [outcome EXCEPT ![Event(w)] = "failed"]
  /\ UNCHANGED <<rows, free, call, agg, ver, err, attempt, reading>>

Begin(w) ==
  /\ pc[w] = "begin"
  /\ pc' = [pc EXCEPT ![w] = "select"]
  /\ UNCHANGED <<rows, free, call, agg, ver, err, attempt, outcome, reading>>

\* The subquery of the INSERT reads the committed rows ...
ComputeVersion(w) ==
  /\ pc[w] = "select"
  /\ ver' = [ver EXCEPT ![w] = NextVersion(agg[w])]
  /\ pc' = [pc EXCEPT ![w] = "index"]
  /\ UNCHANGED <<rows, free, call, agg, err, attempt, outcome, reading>>

\* ... and the INSERT then claims (aggregate_id, version) in the unique index,
\* after the transaction that holds the same key, if there is one, has ended.
IndexFree(w) == \A u \in Writers \ {w} :
                  HasEntry(u) => <<agg[u], ver[u]>> # <<agg[w], ver[w]>>

\* Mutant of InsertRow: the table without its UNIQUE constraint.
InsertRowNoUnique(w) ==
  /\ pc[w] = "index"
  /\ pc' = [pc EXCEPT ![w] = "commit"]
  /\ UNCHANGED <<rows, free, call, agg, ver, err, attempt, outcome, reading>>

InsertRow(w) ==
  /\ pc[w] = "index"
  /\ IndexFree(w)
  /\ ver[w] \notin Versions(agg[w])
  /\ pc' = [pc EXCEPT ![w] = "commit"]
  /\ UNCHANGED <<rows, free, call, agg, ver, err, attempt, outcome, reading>>

UniqueViolation(w) ==
  /\ pc[w] = "index"
  /\ IndexFree(w)
  /\ ver[w] \in Versions(agg[w])
  /\ err' = [err EXCEPT ![w] = "unique"]
  /\ ver' = [ver EXCEPT ![w] = 0]
  /\ pc' = [pc EXCEPT ![w] = "rollback"]
  /\ UNCHANGED <<rows, free, call, agg, attempt, outcome, reading>>

\* BEGIN, INSERT or COMMIT rejects without effect.  SQLSTATE 40001 ends the
\* transaction; on a lost connection the entry stays until the rollback.
QueryFails(w, e) ==
  /\ \/ e = "serialization" /\ pc[w] \in {"select", "index", "commit"}
     \/ e = "other" /\ pc[w] \in {"begin", "select", "index", "commit"}
  /\ err' = [err EXCEPT ![w] = e]
  /\ ver' = [ver EXCEPT ![w] = IF pc[w] = "commit" /\ e = "other" THEN @ ELSE 0]
  /\ pc' = [pc EXCEPT ![w] = "rollback"]
  /\ UNCHANGED <<rows, free, call, agg, attempt, outcome, reading>>

StoreRow(w) ==
  /\ rows' = rows \cup
       {[event |-> Event(w), aggregate |-> agg[w], version |-> ver[w]]}
  /\ ver' = [ver EXCEPT ![w] = 0]

Commit(w) ==
  /\ pc[w] = "commit"
  /\ StoreRow(w)
  /\ Finish(w, "stored")
  /\ UNCHANGED <<call, agg, err, attempt, reading>>

\* The COMMIT takes effect and its answer is lost with the connection.
CommitAckLost(w) ==
  /\ pc[w] = "commit"
  /\ StoreRow(w)
  /\ err' = [err EXCEPT ![w] = "other"]
  /\ pc' = [pc EXCEPT ![w] = "rollback"]
  /\ UNCHANGED <<free, call, agg, attempt, outcome, reading>>

\* ROLLBACK answers: 23505 becomes OptimisticConcurrencyError, 40001 is retried
\* while attempt < maxRetries (after a sleep that keeps the client), and any
\* other error is thrown.
\* Mutants of Retryable: no limit on the retries; any error but 23505 retried.
RetryableForEver(w) == err[w] = "serialization"
RetryableAnyError(w) == err[w] # "unique" /\ attempt[w] < DefaultRetries

Retryable(w) == err[w] = "serialization" /\ attempt[w] < DefaultRetries

\* Mutant of RollbackThrows: the catch block swallows the error.
RollbackSwallows(w) ==
  /\ pc[w] = "rollback"
  /\ ~Retryable(w)
  /\ ver' = [ver EXCEPT ![w] = 0]
  /\ Finish(w, IF err[w] = "unique" THEN "conflict" ELSE "stored")
  /\ UNCHANGED <<rows, call, agg, err, attempt, reading>>

RollbackThrows(w) ==
  /\ pc[w] = "rollback"
  /\ ~Retryable(w)
  /\ ver' = [ver EXCEPT ![w] = 0]
  /\ Finish(w, IF err[w] = "unique" THEN "conflict" ELSE "failed")
  /\ UNCHANGED <<rows, call, agg, err, attempt, reading>>

\* Mutant of RollbackRetries: the attempt is not counted.
RollbackRetriesUncounted(w) ==
  /\ pc[w] = "rollback"
  /\ Retryable(w)
  /\ pc' = [pc EXCEPT ![w] = "backoff"]
  /\ ver' = [ver EXCEPT ![w] = 0]
  /\ UNCHANGED <<rows, free, call, agg, err, attempt, outcome, reading>>

RollbackRetries(w) ==
  /\ pc[w] = "rollback"
  /\ Retryable(w)
  /\ attempt' = [attempt EXCEPT ![w] = @ + 1]
  /\ pc' = [pc EXCEPT ![w] = "backoff"]
  /\ ver' = [ver EXCEPT ![w] = 0]
  /\ UNCHANGED <<rows, free, call, agg, err, outcome, reading>>

\* ROLLBACK itself rejects, and its error replaces the one being handled.
RollbackFails(w) ==
  /\ pc[w] = "rollback"
  /\ ver' = [ver EXCEPT ![w] = 0]
  /\ Finish(w, "failed")
  /\ UNCHANGED <<rows, call, agg, err, attempt, reading>>

\* Mutant of BackoffExpires: "continue" leaves without client.release().
BackoffExpiresLeaking(w) ==
  /\ pc[w] = "backoff"
  /\ pc' = [pc EXCEPT ![w] = "acquire"]
  /\ UNCHANGED <<rows, free, call, agg, ver, err, attempt, outcome, reading>>

\* The sleep is over: "continue" runs the finally block, and the loop connects
\* again.
BackoffExpires(w) ==
  /\ pc[w] = "backoff"
  /\ free' = free + 1
  /\ pc' = [pc EXCEPT ![w] = "acquire"]
  /\ UNCHANGED <<rows, call, agg, ver, err, attempt, outcome, reading>>

\* load takes a client of the same pool, reads the aggregate in one SELECT and
\* verifies row by row with the client in hand; the finally block releases it
\* when load returns, and when the query or a verification throws.
LoadAcquires(r) ==
  /\ r \notin reading
  /\ free > 0
  /\ free' = free - 1 /\ reading' = reading \cup {r}
  /\ UNCHANGED <<rows, pc, call, agg, ver, err, attempt, outcome>>

LoadEnds(r) ==
  /\ r \in reading
  /\ free' = free + 1 /\ reading' = reading \ {r}
  /\ UNCHANGED <<rows, pc, call, agg, ver, err, attempt, outcome>>

\* Steps that happen by themselves once their turn has come.
Progress(w) ==
  \/ AcquireClient(w) \/ AcquireFails(w)
  \/ Begin(w) \/ ComputeVersion(w)
  \/ InsertRow(w) \/ UniqueViolation(w)
  \/ Commit(w)
  \/ RollbackThrows(w) \/ RollbackRetries(w)
  \/ BackoffExpires(w)

Fault(w) ==
  \/ \E e \in Errors : QueryFails(w, e)
  \/ CommitAckLost(w)
  \/ RollbackFails(w)

Next ==
  \/ \E w \in Writers : \/ \E a \in Aggregates : Call(w, a)
                        \/ Progress(w) \/ Fault(w)
  \/ \E r \in Readers : LoadAcquires(r) \/ LoadEnds(r)

Spec == Init /\ [][Next]_vars

\* pg answers or rejects every query, connect() times out, timers fire.
FairSpec == Spec /\ \A w \in Writers : WF_vars(Progress(w))

-----------------------------------------------------------------------------
Row == [event : EventIds, aggregate : Aggregates, version : Nat \ {0}]

\* Every variable has its type.
TypeOK ==
  /\ rows \subseteq Row
  /\ free \in Nat
  /\ pc \in [Writers -> PCs]
  /\ call \in [Writers -> 0..MaxCalls]
  /\ agg \in [Writers -> Aggregates]
  /\ ver \in [Writers -> Nat]
  /\ err \in [Writers -> Errors]
  /\ attempt \in [Writers -> 0..DefaultRetries]
  /\ outcome \in [EventIds -> Results]
  /\ reading \subseteq Readers

\* The versions of an aggregate are 1, 2, ... without a hole, and no two rows
\* share one, although writers compute versions from what they could read.
VersionsDense ==
  /\ \A r, q \in rows : r.aggregate = q.aggregate /\ r.version = q.version
                          => r = q
  /\ \A r \in rows : \A v \in 1..r.version : v \in Versions(r.aggregate)

\* No path through append or load leaks a client of the pool or releases one
\* twice, however appends and loads share it.
ClientsConserved ==
  free + Cardinality(Holders) + Cardinality(reading) = PoolMax

\* One append leaves at most one row, however often it was retried inside
\* executeWithRetry; it leaves one when it returned and none when it threw
\* OptimisticConcurrencyError.
CallAccountability ==
  /\ \A r, q \in rows : r.event = q.event => r = q
  /\ \A e \in EventIds :
       /\ outcome[e] = "stored" => \E r \in rows : r.event = e
       /\ outcome[e] = "conflict" => \A r \in rows : r.event # e

\* SELECT * FROM events WHERE aggregate_id = a ORDER BY version ASC, in load.
RowAt(a, v) == CHOOSE r \in rows : r.aggregate = a /\ r.version = v
Load(a) == [v \in 1..(NextVersion(a) - 1) |-> RowAt(a, v).event]

Log == INSTANCE EventLog
         WITH Events <- EventIds, log <- [a \in Aggregates |-> Load(a)]

\* The table implements the append-only log of EventLog: nothing that load can
\* return ever changes or moves, an append only adds at the end.
ImplementsLog == Log!LogSpec

\* Every append returns or throws: neither the pool, nor an index entry held by
\* another writer, nor a retry keeps it for ever.
AppendReturns == \A w \in Writers : pc[w] # "idle" ~> pc[w] = "idle"
=============================================================================
