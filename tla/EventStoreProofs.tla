-------------------------- MODULE EventStoreProofs --------------------------
(***************************************************************************)
(* What holds of EventStore for every number of writers, aggregates,       *)
(* connections and retries.  The inductive invariant has three layers: the *)
(* rows and the versions that open transactions claim, the rows an append  *)
(* can have left, and the connections of the pool.                         *)
(***************************************************************************)
EXTENDS EventStore, FiniteSetTheorems, SequenceTheorems, TLAPS

-----------------------------------------------------------------------------
(* First layer: the versions of an aggregate are 1..m, and an open           *)
(* transaction that has claimed version v claims m + 1, alone.               *)

DenseRows == \A a \in Aggregates : \E m \in Nat : Versions(a) = 1..m

UniqueRows == \A r, q \in rows : r.aggregate = q.aggregate
                                   /\ r.version = q.version => r = q

\* What a writer computed: everything below its version is committed.
ClaimsNext ==
  \A w \in Writers : pc[w] = "index" \/ HasEntry(w) =>
    ver[w] \in Nat \ {0} /\ \A v \in 1..(ver[w] - 1) : v \in Versions(agg[w])

\* What the unique index guarantees while a transaction is open.
EntriesUnused == \A w \in Writers : HasEntry(w) => ver[w] \notin Versions(agg[w])

EntriesDistinct ==
  \A w, u \in Writers : w # u /\ HasEntry(w) /\ HasEntry(u) =>
    <<agg[w], ver[w]>> # <<agg[u], ver[u]>>

\* A writer inside append has been called.
CallStarted == \A w \in Writers : pc[w] # "idle" => call[w] \in 1..MaxCalls

VersionInv == TypeOK /\ CallStarted /\ DenseRows /\ UniqueRows /\ ClaimsNext
                /\ EntriesUnused /\ EntriesDistinct

\* The subquery of the INSERT is one more than the number of versions.
LEMMA NextVersionOfDense ==
  ASSUME NEW a, NEW n \in Nat, Versions(a) = 1..n
  PROVE  NextVersion(a) = n + 1
<1> DEFINE P(x) == x \in Versions(a) \cup {0} /\ \A v \in Versions(a) : v <= x
<1>1. P(n)
  <2>1. CASE n = 0 BY <2>1
  <2>2. CASE n # 0 BY <2>2
  <2> QED BY <2>1, <2>2
<1>2. \A x : P(x) => x = n
  <2> SUFFICES ASSUME NEW x, P(x) PROVE x = n OBVIOUS
  <2>1. CASE n = 0 BY <2>1
  <2>2. CASE n # 0
    <3>1. n \in Versions(a) BY <2>2
    <3>2. x \in 0..n OBVIOUS
    <3> QED BY <3>1, <3>2
  <2> QED BY <2>1, <2>2
<1> DEFINE top == CHOOSE m \in Versions(a) \cup {0} : \A v \in Versions(a) : v <= m
<1>3. top = n
  <2>1. top = CHOOSE x : P(x) OBVIOUS
  <2> HIDE DEF P
  <2> QED BY <1>1, <1>2, <2>1
<1>4. NextVersion(a) = 1 + top BY Zenon DEF NextVersion
<1> HIDE DEF top
<1> QED BY <1>3, <1>4

\* A new row adds its version to its aggregate and to no other.
LEMMA VersionsOfInsert ==
  ASSUME NEW e, NEW b, NEW v,
         rows' = rows \cup {[event |-> e, aggregate |-> b, version |-> v]}
  PROVE  /\ Versions(b)' = Versions(b) \cup {v}
         /\ \A a : a # b => Versions(a)' = Versions(a)
<1> DEFINE new == [event |-> e, aggregate |-> b, version |-> v]
<1>1. ASSUME NEW a, NEW x
      PROVE  x \in Versions(a)' <=> x \in Versions(a) \/ (a = b /\ x = v)
  <2>1. x \in Versions(a)' <=> \E r \in rows' : r.aggregate = a /\ r.version = x
    BY DEF Versions
  <2>2. x \in Versions(a) <=> \E r \in rows : r.aggregate = a /\ r.version = x
    BY DEF Versions
  <2>3. new.aggregate = b /\ new.version = v OBVIOUS
  <2> HIDE DEF new
  <2>4. rows' = rows \cup {new} BY DEF new
  <2> QED BY <2>1, <2>2, <2>3, <2>4
<1> QED BY <1>1

LEMMA VersionsSame == rows' = rows => \A a : Versions(a)' = Versions(a)
BY DEF Versions

\* Outside Commit no row appears: rows keep being dense when no claim appears.
LEMMA NoNewClaim ==
  ASSUME VersionInv, TypeOK', CallStarted', rows' = rows,
         \A w \in Writers : HasEntry(w)' =>
           HasEntry(w) /\ ver'[w] = ver[w] /\ agg'[w] = agg[w],
         \A w \in Writers : pc'[w] = "index" =>
           pc[w] = "index" /\ ver'[w] = ver[w] /\ agg'[w] = agg[w]
  PROVE  VersionInv'
<1> USE DEF VersionInv
<1>0. \A a : Versions(a)' = Versions(a) BY VersionsSame
<1>1. DenseRows' BY <1>0 DEF DenseRows
<1>2. UniqueRows' BY DEF UniqueRows
<1>3. ClaimsNext' BY <1>0 DEF ClaimsNext
<1>4. EntriesUnused' BY <1>0 DEF EntriesUnused
<1>5. EntriesDistinct' BY DEF EntriesDistinct
<1> QED BY <1>1, <1>2, <1>3, <1>4, <1>5

LEMMA InitVersionInv == Init => VersionInv
<1> SUFFICES ASSUME Init PROVE VersionInv OBVIOUS
<1>1. TypeOK
  BY PoolAssumption, WritersAssumption, RetriesAssumption
  DEF Init, TypeOK, PCs, Errors, Results
<1>2. \A a : Versions(a) = 1..0 BY DEF Init, Versions
<1>3. DenseRows BY <1>2 DEF DenseRows
<1>4. CallStarted BY DEF Init, CallStarted
<1> QED BY <1>1, <1>3, <1>4
    DEF Init, VersionInv, UniqueRows, ClaimsNext, EntriesUnused,
        EntriesDistinct, HasEntry

\* The INSERT's subquery: the version it computes is the next one.
LEMMA ComputeVersionStep ==
  ASSUME VersionInv, NEW w \in Writers, ComputeVersion(w)
  PROVE  VersionInv'
<1> USE DEF VersionInv
<1> DEFINE a == agg[w]
<1>0. \A b : Versions(b)' = Versions(b) BY VersionsSame DEF ComputeVersion
<1>1. a \in Aggregates BY DEF TypeOK
<1>2. PICK n \in Nat : Versions(a) = 1..n BY <1>1 DEF DenseRows
<1>3. NextVersion(a) = n + 1 BY <1>2, NextVersionOfDense
<1>4. ver' = [ver EXCEPT ![w] = n + 1] BY <1>3 DEF ComputeVersion
<1>5. TypeOK' BY <1>4 DEF TypeOK, ComputeVersion, PCs
<1>6. CallStarted' BY DEF CallStarted, ComputeVersion, TypeOK
<1>7. \A u \in Writers : HasEntry(u)' => u # w /\ HasEntry(u)
        /\ ver'[u] = ver[u] /\ agg'[u] = agg[u]
  BY <1>4 DEF HasEntry, ComputeVersion, TypeOK
<1>8. DenseRows' /\ UniqueRows'
  BY <1>0 DEF DenseRows, UniqueRows, ComputeVersion
<1>9. ClaimsNext'
  <2> SUFFICES ASSUME NEW u \in Writers, pc'[u] = "index" \/ HasEntry(u)'
               PROVE  (/\ ver[u] \in Nat \ {0}
                       /\ \A v \in 1..(ver[u] - 1) : v \in Versions(agg[u]))'
    BY DEF ClaimsNext
  <2>1. CASE u = w
    BY <2>1, <1>0, <1>2, <1>4 DEF TypeOK, ComputeVersion
  <2>2. CASE u # w
    BY <2>2, <1>0, <1>4, <1>7 DEF TypeOK, ComputeVersion, ClaimsNext
  <2> QED BY <2>1, <2>2
<1>10. EntriesUnused' BY <1>0, <1>7 DEF EntriesUnused
<1>11. EntriesDistinct' BY <1>7 DEF EntriesDistinct
<1> QED BY <1>5, <1>6, <1>8, <1>9, <1>10, <1>11

\* The unique index lets a transaction in only with an unclaimed version.
LEMMA InsertRowStep ==
  ASSUME VersionInv, NEW w \in Writers, InsertRow(w)
  PROVE  VersionInv'
<1> USE DEF VersionInv
<1>0. \A b : Versions(b)' = Versions(b) BY VersionsSame DEF InsertRow
<1>1. TypeOK' BY DEF TypeOK, InsertRow, PCs
<1>2. CallStarted' BY DEF CallStarted, InsertRow, TypeOK
<1>3. \A u \in Writers : HasEntry(u)' <=> u = w \/ HasEntry(u)
  BY DEF HasEntry, InsertRow, TypeOK
<1>4. DenseRows' /\ UniqueRows' BY <1>0 DEF DenseRows, UniqueRows, InsertRow
<1>5. ClaimsNext' BY <1>0, <1>3 DEF ClaimsNext, InsertRow, TypeOK
<1>6. EntriesUnused' BY <1>0, <1>3 DEF EntriesUnused, InsertRow
<1>7. EntriesDistinct'
  BY <1>3 DEF EntriesDistinct, InsertRow, IndexFree
<1> QED BY <1>1, <1>2, <1>4, <1>5, <1>6, <1>7

\* A COMMIT takes effect: the row extends its aggregate by exactly one version,
\* and what the other transactions have claimed is still free.
LEMMA StoreRowStep ==
  ASSUME VersionInv, NEW w \in Writers, pc[w] = "commit", StoreRow(w),
         TypeOK', CallStarted', agg' = agg,
         pc' = [pc EXCEPT ![w] = pc'[w]], pc'[w] \in {"idle", "rollback"}
  PROVE  VersionInv'
<1> USE DEF VersionInv
<1>a. PICK e, a, v : e = Event(w) /\ a = agg[w] /\ v = ver[w] OBVIOUS
<1> DEFINE new == [event |-> e, aggregate |-> a, version |-> v]
<1>0. /\ rows' = rows \cup {new}
      /\ Versions(a)' = Versions(a) \cup {v}
      /\ \A b : b # a => Versions(b)' = Versions(b)
  <2>1. rows' = rows \cup
          {[event |-> e, aggregate |-> a, version |-> v]}
    BY <1>a DEF StoreRow
  <2>2. /\ Versions(a)' = Versions(a) \cup {v}
        /\ \A b : b # a => Versions(b)' = Versions(b)
    BY ONLY <2>1, VersionsOfInsert
  <2> QED BY <2>1, <2>2
<1>1. /\ HasEntry(w) /\ a \in Aggregates /\ v \in Nat \ {0}
      /\ v \notin Versions(a) /\ \A i \in 1..(v - 1) : i \in Versions(a)
  BY <1>a DEF HasEntry, TypeOK, ClaimsNext, EntriesUnused
<1>2. PICK n \in Nat : Versions(a) = 1..n BY <1>1 DEF DenseRows
<1>3. v = n + 1
  <2>1. ~(v \in 1..n) /\ v > n BY <1>1, <1>2
  <2>2. CASE v > n + 1
    <3>1. n + 1 \in 1..(v - 1) BY <2>2, <1>1
    <3>2. n + 1 \in 1..n BY <3>1, <1>1, <1>2
    <3> QED BY <3>2
  <2> QED BY <2>1, <2>2, <1>1
<1>4. Versions(a)' = 1..(n + 1) BY <1>0, <1>2, <1>3
<1>5. DenseRows'
  BY <1>0, <1>4 DEF DenseRows
<1>6. UniqueRows'
  <2>1. \A r \in rows : r.aggregate = a => r.version # v
    BY <1>1 DEF Versions
  <2>2. new.aggregate = a /\ new.version = v OBVIOUS
  <2> HIDE DEF new
  <2> QED BY <1>0, <2>1, <2>2 DEF UniqueRows
<1>7. \A u \in Writers : HasEntry(u)' => u # w /\ HasEntry(u)
        /\ ver'[u] = ver[u] /\ agg'[u] = agg[u]
  BY DEF HasEntry, StoreRow, TypeOK
<1>8. \A u \in Writers : pc'[u] = "index" => u # w /\ pc[u] = "index"
        /\ ver'[u] = ver[u] /\ agg'[u] = agg[u]
  BY DEF StoreRow, TypeOK
<1>9. \A b : Versions(b) \subseteq Versions(b)' BY <1>0
<1>10. ClaimsNext' BY <1>7, <1>8, <1>9 DEF ClaimsNext
<1>11. EntriesUnused'
  <2> SUFFICES ASSUME NEW u \in Writers, HasEntry(u)'
               PROVE  (ver[u] \notin Versions(agg[u]))'
    BY DEF EntriesUnused
  <2>1. u # w /\ HasEntry(u) /\ ver'[u] = ver[u] /\ agg'[u] = agg[u] BY <1>7
  <2>2. ver[u] \notin Versions(agg[u]) BY <2>1 DEF EntriesUnused
  <2>3. <<agg[u], ver[u]>> # <<a, v>> BY <2>1, <1>1, <1>a DEF EntriesDistinct
  <2> QED BY <2>1, <2>2, <2>3, <1>0
<1>12. EntriesDistinct' BY <1>7 DEF EntriesDistinct
<1> QED BY <1>5, <1>6, <1>10, <1>11, <1>12

\* The actions that compute no version keep the types.
LEMMA TypeStep ==
  ASSUME VersionInv, NEW w \in Writers,
         \/ \E a \in Aggregates : Call(w, a)
         \/ AcquireClient(w) \/ AcquireFails(w) \/ Begin(w)
         \/ InsertRow(w) \/ UniqueViolation(w) \/ Commit(w)
         \/ RollbackThrows(w) \/ RollbackRetries(w) \/ BackoffExpires(w)
         \/ Fault(w)
  PROVE  TypeOK' /\ CallStarted'
<1> USE DEF VersionInv, TypeOK, CallStarted, PCs, Errors, Results
<1>1. pc[w] # "idle" => Event(w) \in EventIds BY DEF Event, EventIds
<1>2. CASE \E a \in Aggregates : Call(w, a) BY <1>2, RetriesAssumption DEF Call
<1>3. CASE AcquireClient(w) BY <1>3 DEF AcquireClient
<1>4. CASE AcquireFails(w) BY <1>1, <1>4 DEF AcquireFails
<1>5. CASE Begin(w) BY <1>5 DEF Begin
<1>6. CASE InsertRow(w) BY <1>6 DEF InsertRow
<1>7. CASE UniqueViolation(w) BY <1>7 DEF UniqueViolation
<1>8. ASSUME pc[w] = "commit", StoreRow(w)
      PROVE  rows' \subseteq Row /\ ver' \in [Writers -> Nat]
  <2>1. ver[w] \in Nat \ {0} BY <1>8 DEF ClaimsNext, HasEntry
  <2>2. [event |-> Event(w), aggregate |-> agg[w], version |-> ver[w]] \in Row
    BY <1>1, <1>8, <2>1 DEF Row
  <2> QED BY <1>8, <2>2 DEF StoreRow
<1>9. CASE Commit(w) BY <1>1, <1>8, <1>9 DEF Commit, Finish
<1>10. CASE RollbackThrows(w) BY <1>1, <1>10 DEF RollbackThrows, Finish
<1>11. CASE RollbackRetries(w)
  BY <1>11, RetriesAssumption DEF RollbackRetries, Retryable
<1>12. CASE BackoffExpires(w) BY <1>12 DEF BackoffExpires
<1>13. CASE \E e \in Errors : QueryFails(w, e) BY <1>13 DEF QueryFails
<1>14. CASE CommitAckLost(w) BY <1>8, <1>14 DEF CommitAckLost
<1>15. CASE RollbackFails(w) BY <1>1, <1>15 DEF RollbackFails, Finish
<1> QED BY <1>2, <1>3, <1>4, <1>5, <1>6, <1>7, <1>9, <1>10, <1>11, <1>12,
           <1>13, <1>14, <1>15 DEF Fault

\* Every step keeps the first layer: one case per action.
LEMMA VersionInvStep == VersionInv /\ [Next]_vars => VersionInv'
<1> SUFFICES ASSUME VersionInv, [Next]_vars PROVE VersionInv' OBVIOUS
<1>0. CASE UNCHANGED vars
  BY <1>0, NoNewClaim DEF vars, VersionInv, TypeOK, CallStarted, HasEntry
<1>l. CASE \E r \in Readers : LoadAcquires(r) \/ LoadEnds(r)
  <2>1. TypeOK' /\ CallStarted'
    BY <1>l DEF LoadAcquires, LoadEnds, VersionInv, TypeOK, CallStarted
  <2> QED BY <1>l, <2>1, NoNewClaim DEF LoadAcquires, LoadEnds, HasEntry
<1> SUFFICES ASSUME NEW w \in Writers,
                    \/ \E a \in Aggregates : Call(w, a)
                    \/ Progress(w) \/ Fault(w)
             PROVE  VersionInv'
  BY <1>0, <1>l DEF Next
<1> USE DEF HasEntry
<1>t. TypeOK BY DEF VersionInv
<1>1. CASE \E a \in Aggregates : Call(w, a)
  BY <1>1, <1>t, TypeStep, NoNewClaim DEF Call, TypeOK
<1>2. CASE AcquireClient(w)
  BY <1>2, <1>t, TypeStep, NoNewClaim DEF AcquireClient, TypeOK
<1>3. CASE AcquireFails(w)
  BY <1>3, <1>t, TypeStep, NoNewClaim DEF AcquireFails, TypeOK
<1>4. CASE Begin(w)
  BY <1>4, <1>t, TypeStep, NoNewClaim DEF Begin, TypeOK
<1>5. CASE ComputeVersion(w) BY <1>5, ComputeVersionStep
<1>6. CASE InsertRow(w) BY <1>6, InsertRowStep
<1>7. CASE UniqueViolation(w)
  BY <1>7, <1>t, TypeStep, NoNewClaim DEF UniqueViolation, TypeOK
<1>8. CASE Commit(w)
  BY <1>8, <1>t, TypeStep, StoreRowStep DEF Commit, Finish, TypeOK
<1>9. CASE RollbackThrows(w)
  BY <1>9, <1>t, TypeStep, NoNewClaim DEF RollbackThrows, Finish, TypeOK
<1>10. CASE RollbackRetries(w)
  BY <1>10, <1>t, TypeStep, NoNewClaim DEF RollbackRetries, TypeOK
<1>11. CASE BackoffExpires(w)
  BY <1>11, <1>t, TypeStep, NoNewClaim DEF BackoffExpires, TypeOK
<1>12. CASE Fault(w)
  <2>0. TypeOK' /\ CallStarted' BY <1>12, TypeStep
  <2>1. CASE \E e \in Errors : QueryFails(w, e)
    BY <2>0, <2>1, <1>t, NoNewClaim DEF QueryFails, TypeOK
  <2>2. CASE CommitAckLost(w)
    BY <2>0, <2>2, <1>t, StoreRowStep DEF CommitAckLost, TypeOK
  <2>3. CASE RollbackFails(w)
    BY <2>0, <2>3, <1>t, NoNewClaim DEF RollbackFails, Finish, TypeOK
  <2> QED BY <1>12, <2>1, <2>2, <2>3 DEF Fault
<1> QED BY <1>1, <1>2, <1>3, <1>4, <1>5, <1>6, <1>7, <1>8, <1>9, <1>10,
           <1>11, <1>12 DEF Progress

LEMMA VersionInvariant == Spec => []VersionInv
BY InitVersionInv, VersionInvStep, PTL DEF Spec

\* append keeps the types of the table, the pool and the callers.
THEOREM TypeCorrect == Spec => []TypeOK
BY VersionInvariant, PTL DEF VersionInv

\* repository.ts and the UNIQUE constraint of schema.sql: the versions of an
\* aggregate are 1, 2, ... without a hole or a duplicate, for any number of
\* concurrent writers and whatever queries fail.
THEOREM VersionsAreDense == Spec => []VersionsDense
<1>1. VersionInv => VersionsDense
  <2> SUFFICES ASSUME VersionInv PROVE VersionsDense OBVIOUS
  <2>1. \A r, q \in rows : r.aggregate = q.aggregate /\ r.version = q.version
                             => r = q
    BY DEF VersionInv, UniqueRows
  <2>2. ASSUME NEW r \in rows, NEW v \in 1..r.version
        PROVE  v \in Versions(r.aggregate)
    <3>1. /\ r.aggregate \in Aggregates /\ r.version \in Nat \ {0}
          /\ r.version \in Versions(r.aggregate)
      BY DEF VersionInv, TypeOK, Row, Versions
    <3>2. PICK m \in Nat : Versions(r.aggregate) = 1..m
      BY <3>1 DEF VersionInv, DenseRows
    <3> QED BY <3>1, <3>2
  <2> QED BY <2>1, <2>2 DEF VersionsDense
<1> QED BY <1>1, VersionInvariant, PTL

-----------------------------------------------------------------------------
(* Second layer: the connections.  A writer or reader holds a client exactly *)
(* between connect() and release(), and both change "free" by one.           *)

LEMMA HoldersFinite ==
  ASSUME TypeOK
  PROVE  /\ IsFiniteSet(Holders) /\ Cardinality(Holders) \in Nat
         /\ IsFiniteSet(reading) /\ Cardinality(reading) \in Nat
BY WritersAssumption, FS_Subset, FS_CardinalityType DEF Holders, TypeOK

LEMMA ClientsStep ==
  TypeOK /\ ClientsConserved /\ [Next]_vars => ClientsConserved'
<1> SUFFICES ASSUME TypeOK, ClientsConserved, [Next]_vars
             PROVE  ClientsConserved'
  OBVIOUS
<1>0. /\ IsFiniteSet(Holders) /\ Cardinality(Holders) \in Nat
      /\ IsFiniteSet(reading) /\ Cardinality(reading) \in Nat
  BY HoldersFinite
<1>1. free \in Nat /\ PoolMax \in Nat BY PoolAssumption DEF TypeOK
<1>2. ASSUME free' = free, Holders' = Holders, reading' = reading
      PROVE ClientsConserved'
  BY <1>2 DEF ClientsConserved
<1>3. CASE UNCHANGED vars BY <1>2, <1>3 DEF vars, Holders
\* load connects, and releases
<1>l. ASSUME NEW r \in Readers, LoadAcquires(r) \/ LoadEnds(r)
      PROVE  ClientsConserved'
  <2>1. Holders' = Holders BY <1>l DEF LoadAcquires, LoadEnds, Holders
  <2>2. CASE LoadAcquires(r)
    <3>1. free' = free - 1 /\ r \notin reading /\ reading' = reading \cup {r}
      BY <2>2 DEF LoadAcquires
    <3>2. Cardinality(reading') = Cardinality(reading) + 1
      BY <1>0, <3>1, FS_AddElement
    <3> QED BY <1>0, <1>1, <2>1, <3>1, <3>2 DEF ClientsConserved
  <2>3. CASE LoadEnds(r)
    <3>1. free' = free + 1 /\ r \in reading /\ reading' = reading \ {r}
      BY <2>3 DEF LoadEnds
    <3>2. Cardinality(reading') = Cardinality(reading) - 1
      BY <1>0, <3>1, FS_RemoveElement
    <3> QED BY <1>0, <1>1, <2>1, <3>1, <3>2 DEF ClientsConserved
  <2> QED BY <1>l, <2>2, <2>3
<1> SUFFICES ASSUME NEW w \in Writers,
                    \/ \E a \in Aggregates : Call(w, a)
                    \/ Progress(w) \/ Fault(w)
             PROVE  ClientsConserved'
  BY <1>3, <1>l DEF Next
\* connect() resolves
<1>4. CASE AcquireClient(w)
  <2>1. /\ free' = free - 1 /\ reading' = reading
        /\ w \notin Holders /\ Holders' = Holders \cup {w}
    BY <1>4 DEF AcquireClient, Holders, TypeOK
  <2>2. Cardinality(Holders') = Cardinality(Holders) + 1
    BY <1>0, <2>1, FS_AddElement
  <2> QED BY <1>0, <1>1, <2>1, <2>2 DEF ClientsConserved
\* release()
<1>5. ASSUME free' = free + 1, w \in Holders, Holders' = Holders \ {w},
             reading' = reading
      PROVE  ClientsConserved'
  <2>1. Cardinality(Holders') = Cardinality(Holders) - 1
    BY <1>0, <1>5, FS_RemoveElement
  <2> QED BY <1>0, <1>1, <1>5, <2>1 DEF ClientsConserved
<1>6. CASE Commit(w) BY <1>5, <1>6 DEF Commit, Finish, Holders, TypeOK
<1>7. CASE RollbackThrows(w)
  BY <1>5, <1>7 DEF RollbackThrows, Finish, Holders, TypeOK
<1>8. CASE RollbackFails(w)
  BY <1>5, <1>8 DEF RollbackFails, Finish, Holders, TypeOK
<1>9. CASE BackoffExpires(w)
  BY <1>5, <1>9 DEF BackoffExpires, Holders, TypeOK
\* all other steps keep the client or have none
<1>10. CASE \E a \in Aggregates : Call(w, a)
  BY <1>2, <1>10 DEF Call, Holders, TypeOK
<1>11. CASE AcquireFails(w)
  BY <1>2, <1>11 DEF AcquireFails, Holders, TypeOK
<1>12. CASE Begin(w) BY <1>2, <1>12 DEF Begin, Holders, TypeOK
<1>13. CASE ComputeVersion(w)
  BY <1>2, <1>13 DEF ComputeVersion, Holders, TypeOK
<1>14. CASE InsertRow(w) BY <1>2, <1>14 DEF InsertRow, Holders, TypeOK
<1>15. CASE UniqueViolation(w)
  BY <1>2, <1>15 DEF UniqueViolation, Holders, TypeOK
<1>16. CASE RollbackRetries(w)
  BY <1>2, <1>16 DEF RollbackRetries, Holders, TypeOK
<1>17. CASE \E e \in Errors : QueryFails(w, e)
  BY <1>2, <1>17 DEF QueryFails, Holders, TypeOK
<1>18. CASE CommitAckLost(w)
  BY <1>2, <1>18 DEF CommitAckLost, Holders, TypeOK
<1> QED BY <1>4, <1>6, <1>7, <1>8, <1>9, <1>10, <1>11, <1>12, <1>13, <1>14,
           <1>15, <1>16, <1>17, <1>18 DEF Progress, Fault

\* executeWithRetry releases every client it acquired, exactly once, on every
\* path: return, throw, retry, and a ROLLBACK that rejects.
THEOREM ClientsAreConserved == Spec => []ClientsConserved
<1>1. Init => ClientsConserved
  <2> SUFFICES ASSUME Init PROVE ClientsConserved OBVIOUS
  <2>1. Holders = {} BY DEF Init, Holders
  <2>2. free = PoolMax /\ reading = {} BY DEF Init
  <2> QED BY <2>1, <2>2, FS_EmptySet, PoolAssumption DEF ClientsConserved
<1> QED BY <1>1, ClientsStep, TypeCorrect, PTL DEF Spec

-----------------------------------------------------------------------------
(* Third layer: the row that an append leaves.  The append a writer is in    *)
(* has a row only after a COMMIT whose answer was lost, and that error is    *)
(* never one that executeWithRetry retries.                                  *)

\* Rows stem from calls; a call that is still open has a row only if its
\* COMMIT was not acknowledged.
RowsAccounted ==
  \A r \in rows : \E w \in Writers, n \in 1..MaxCalls :
    /\ r.event = <<w, n>>
    /\ n <= call[w]
    /\ n = call[w] => \/ pc[w] = "idle"
                      \/ pc[w] = "rollback" /\ err[w] = "other" /\ ver[w] = 0

OutcomesFinal ==
  \A w \in Writers, n \in 1..MaxCalls :
    outcome[<<w, n>>] # "pending" =>
      n <= call[w] /\ (n = call[w] => pc[w] = "idle")

AccountInv == RowsAccounted /\ OutcomesFinal /\ CallAccountability

LEMMA NoRowYet ==
  ASSUME TypeOK, RowsAccounted, NEW w \in Writers, pc[w] # "idle",
         ~(pc[w] = "rollback" /\ err[w] = "other" /\ ver[w] = 0)
  PROVE  \A r \in rows : r.event # Event(w)
BY DEF RowsAccounted, Event, TypeOK

\* Writer w changes at most its own part of the state.
OnlyWriter(w) == \A u \in Writers \ {w} :
                   pc'[u] = pc[u] /\ err'[u] = err[u] /\ ver'[u] = ver[u]

\* A step inside append that stores nothing and ends nothing.
LEMMA InnerStep ==
  ASSUME TypeOK, AccountInv, NEW w \in Writers, pc[w] # "idle",
         ~(pc[w] = "rollback" /\ err[w] = "other" /\ ver[w] = 0),
         rows' = rows, outcome' = outcome, call' = call,
         pc'[w] # "idle", OnlyWriter(w)
  PROVE  AccountInv'
<1>1. \A r \in rows : r.event # <<w, call[w]>>
  BY NoRowYet DEF AccountInv, Event
<1>2. RowsAccounted'
  <2> SUFFICES ASSUME NEW r \in rows
               PROVE  \E u \in Writers, n \in 1..MaxCalls :
                        /\ r.event = <<u, n>>
                        /\ n <= call[u]
                        /\ n = call[u] => \/ pc'[u] = "idle"
                                          \/ /\ pc'[u] = "rollback"
                                             /\ err'[u] = "other" /\ ver'[u] = 0
    BY DEF RowsAccounted
  <2>1. PICK u \in Writers, n \in 1..MaxCalls :
          /\ r.event = <<u, n>>
          /\ n <= call[u]
          /\ n = call[u] => \/ pc[u] = "idle"
                            \/ pc[u] = "rollback" /\ err[u] = "other" /\ ver[u] = 0
    BY DEF AccountInv, RowsAccounted
  <2>2. CASE u = w BY <1>1, <2>1, <2>2
  <2>3. CASE u # w BY <2>1, <2>3 DEF OnlyWriter
  <2> QED BY <2>2, <2>3
<1>3. OutcomesFinal'
  <2> SUFFICES ASSUME NEW u \in Writers, NEW n \in 1..MaxCalls,
                      outcome[<<u, n>>] # "pending"
               PROVE  n <= call[u] /\ (n = call[u] => pc'[u] = "idle")
    BY DEF OutcomesFinal
  <2>1. n <= call[u] /\ (n = call[u] => pc[u] = "idle")
    BY DEF AccountInv, OutcomesFinal
  <2>2. CASE u = w BY <2>1, <2>2
  <2>3. CASE u # w BY <2>1, <2>3 DEF OnlyWriter
  <2> QED BY <2>2, <2>3
<1>4. CallAccountability' BY DEF AccountInv, CallAccountability
<1> QED BY <1>2, <1>3, <1>4 DEF AccountInv

\* append returns or throws, and the row it may have left is accounted for.
LEMMA EndStep ==
  ASSUME TypeOK, CallStarted, NEW w \in Writers, pc[w] # "idle",
         RowsAccounted, OutcomesFinal, call' = call, pc'[w] = "idle", OnlyWriter(w),
         NEW result \in Results, outcome' = [outcome EXCEPT ![Event(w)] = result],
         rows \subseteq rows', \A r \in rows' \ rows : r.event = Event(w),
         \A r, q \in rows' : r.event = q.event => r = q,
         result = "stored" => \E r \in rows' : r.event = Event(w),
         result = "conflict" => \A r \in rows' : r.event # Event(w),
         CallAccountability
  PROVE  AccountInv'
<1>1. call[w] \in 1..MaxCalls /\ Event(w) = <<w, call[w]>> /\ Event(w) \in EventIds
  BY DEF CallStarted, Event, EventIds
<1>2. RowsAccounted'
  <2> SUFFICES ASSUME NEW r \in rows'
               PROVE  \E u \in Writers, n \in 1..MaxCalls :
                        /\ r.event = <<u, n>>
                        /\ n <= call[u]
                        /\ n = call[u] => \/ pc'[u] = "idle"
                                          \/ /\ pc'[u] = "rollback"
                                             /\ err'[u] = "other" /\ ver'[u] = 0
    BY DEF RowsAccounted
  <2>1. CASE r.event = Event(w) BY <1>1, <2>1
  <2>2. CASE r \in rows
    <3>1. PICK u \in Writers, n \in 1..MaxCalls :
            /\ r.event = <<u, n>>
            /\ n <= call[u]
            /\ n = call[u] => \/ pc[u] = "idle"
                              \/ /\ pc[u] = "rollback"
                                 /\ err[u] = "other" /\ ver[u] = 0
      BY <2>2 DEF RowsAccounted
    <3>2. CASE u = w BY <3>1, <3>2
    <3>3. CASE u # w BY <3>1, <3>3 DEF OnlyWriter
    <3> QED BY <3>2, <3>3
  <2> QED BY <2>1, <2>2
<1>3. OutcomesFinal'
  <2> SUFFICES ASSUME NEW u \in Writers, NEW n \in 1..MaxCalls,
                      outcome'[<<u, n>>] # "pending"
               PROVE  n <= call[u] /\ (n = call[u] => pc'[u] = "idle")
    BY DEF OutcomesFinal
  <2>1. CASE u = w /\ n = call[w] BY <1>1, <2>1
  <2>2. CASE ~(u = w /\ n = call[w])
    <3>1. <<u, n>> # Event(w) /\ <<u, n>> \in EventIds BY <1>1, <2>2 DEF EventIds
    <3>2. outcome[<<u, n>>] # "pending" BY <3>1 DEF TypeOK
    <3>3. n <= call[u] /\ (n = call[u] => pc[u] = "idle")
      BY <3>2 DEF OutcomesFinal
    <3> QED BY <2>2, <3>3 DEF OnlyWriter
  <2> QED BY <2>1, <2>2
<1>4. ASSUME NEW e \in EventIds
      PROVE  /\ outcome'[e] = "stored" => \E r \in rows' : r.event = e
             /\ outcome'[e] = "conflict" => \A r \in rows' : r.event # e
  <2>1. CASE e = Event(w) BY <1>1, <2>1 DEF TypeOK
  <2>2. CASE e # Event(w)
    <3>1. outcome'[e] = outcome[e] BY <1>1, <2>2 DEF TypeOK
    <3> QED BY <2>2, <3>1 DEF CallAccountability
  <2> QED BY <2>1, <2>2
<1>5. CallAccountability' BY <1>4 DEF CallAccountability
<1> QED BY <1>2, <1>3, <1>5 DEF AccountInv

\* A COMMIT that takes effect adds the first row of its event.
LEMMA FirstRow ==
  ASSUME TypeOK, AccountInv, NEW w \in Writers, pc[w] = "commit", StoreRow(w)
  PROVE  /\ rows \subseteq rows'
         /\ \A r \in rows' \ rows : r.event = Event(w)
         /\ \E r \in rows' : r.event = Event(w)
         /\ \A r, q \in rows' : r.event = q.event => r = q
<1>1. \A r \in rows : r.event # Event(w) BY NoRowYet DEF AccountInv
<1> DEFINE new == [event |-> Event(w), aggregate |-> agg[w], version |-> ver[w]]
<1>2. rows' = rows \cup {new} /\ new.event = Event(w) BY DEF StoreRow
<1> HIDE DEF new
<1>3. \A r, q \in rows : r.event = q.event => r = q
  BY DEF AccountInv, CallAccountability
<1> QED BY <1>1, <1>2, <1>3

LEMMA AccountStep ==
  VersionInv /\ AccountInv /\ [Next]_vars => AccountInv'
<1> SUFFICES ASSUME VersionInv, AccountInv, [Next]_vars PROVE AccountInv'
  OBVIOUS
<1>t. TypeOK /\ CallStarted BY DEF VersionInv
<1>0. CASE UNCHANGED vars
  BY <1>0 DEF vars, AccountInv, RowsAccounted, OutcomesFinal, CallAccountability
<1>l. CASE \E r \in Readers : LoadAcquires(r) \/ LoadEnds(r)
  BY <1>l DEF LoadAcquires, LoadEnds, AccountInv, RowsAccounted, OutcomesFinal,
     CallAccountability
<1> SUFFICES ASSUME NEW w \in Writers,
                    \/ \E a \in Aggregates : Call(w, a)
                    \/ Progress(w) \/ Fault(w)
             PROVE  AccountInv'
  BY <1>0, <1>l DEF Next
\* the next call: what belongs to earlier calls stays
<1>1. ASSUME NEW a \in Aggregates, Call(w, a) PROVE AccountInv'
  <2>1. RowsAccounted'
    BY <1>1, <1>t DEF Call, AccountInv, RowsAccounted, TypeOK
  <2>2. OutcomesFinal'
    BY <1>1, <1>t DEF Call, AccountInv, OutcomesFinal, TypeOK
  <2>3. CallAccountability' BY <1>1 DEF Call, AccountInv, CallAccountability
  <2> QED BY <2>1, <2>2, <2>3 DEF AccountInv
\* steps inside append
<1> USE DEF OnlyWriter
<1>2. CASE AcquireClient(w)
  BY <1>2, <1>t, InnerStep DEF AcquireClient, TypeOK
<1>3. CASE Begin(w) BY <1>3, <1>t, InnerStep DEF Begin, TypeOK
<1>4. CASE ComputeVersion(w)
  BY <1>4, <1>t, InnerStep DEF ComputeVersion, TypeOK
<1>5. CASE InsertRow(w) BY <1>5, <1>t, InnerStep DEF InsertRow, TypeOK
<1>6. CASE UniqueViolation(w)
  BY <1>6, <1>t, InnerStep DEF UniqueViolation, TypeOK
<1>7. CASE RollbackRetries(w)
  BY <1>7, <1>t, InnerStep DEF RollbackRetries, Retryable, TypeOK
<1>8. CASE BackoffExpires(w)
  BY <1>8, <1>t, InnerStep DEF BackoffExpires, TypeOK
<1>9. CASE \E e \in Errors : QueryFails(w, e)
  BY <1>9, <1>t, InnerStep DEF QueryFails, TypeOK
\* steps that end an append
<1>i. /\ RowsAccounted /\ OutcomesFinal /\ CallAccountability
      /\ \A r, q \in rows : r.event = q.event => r = q
  BY DEF AccountInv, CallAccountability
<1>10. CASE AcquireFails(w)
  <2>1. "failed" \in Results BY DEF Results
  <2> QED BY <1>10, <1>t, <1>i, <2>1, EndStep DEF AcquireFails, TypeOK
<1>11. CASE Commit(w)
  <2>1. /\ rows \subseteq rows'
        /\ \A r \in rows' \ rows : r.event = Event(w)
        /\ \E r \in rows' : r.event = Event(w)
        /\ \A r, q \in rows' : r.event = q.event => r = q
    BY <1>11, <1>t, FirstRow DEF Commit
  <2>2. /\ call' = call /\ pc[w] = "commit" /\ pc'[w] = "idle"
        /\ outcome' = [outcome EXCEPT ![Event(w)] = "stored"]
        /\ \A u \in Writers \ {w} :
             pc'[u] = pc[u] /\ err'[u] = err[u] /\ ver'[u] = ver[u]
    BY <1>11, <1>t DEF Commit, Finish, StoreRow, TypeOK
  <2>3. "stored" \in Results BY DEF Results
  <2> QED BY <1>t, <1>i, <2>1, <2>2, <2>3, EndStep
<1>12. CASE RollbackThrows(w)
  <2>1. CASE err[w] = "unique"
    <3>1. \A r \in rows : r.event # Event(w)
      BY <1>12, <1>t, <1>i, <2>1, NoRowYet DEF RollbackThrows
    <3>2. "conflict" \in Results BY DEF Results
    <3> QED BY <1>12, <1>t, <1>i, <2>1, <3>1, <3>2, EndStep
        DEF RollbackThrows, Finish, TypeOK
  <2>2. CASE err[w] # "unique"
    <3>1. "failed" \in Results BY DEF Results
    <3> QED BY <1>12, <1>t, <1>i, <2>2, <3>1, EndStep
        DEF RollbackThrows, Finish, TypeOK
  <2> QED BY <2>1, <2>2
<1>13. CASE RollbackFails(w)
  <2>1. "failed" \in Results BY DEF Results
  <2> QED BY <1>13, <1>t, <1>i, <2>1, EndStep DEF RollbackFails, Finish, TypeOK
\* the row of a COMMIT whose answer is lost
<1>14. CASE CommitAckLost(w)
  <2>1. /\ rows \subseteq rows'
        /\ \A r \in rows' \ rows : r.event = Event(w)
        /\ \A r, q \in rows' : r.event = q.event => r = q
    BY <1>14, <1>t, FirstRow DEF CommitAckLost
  <2>2. /\ call' = call /\ outcome' = outcome /\ pc[w] = "commit"
        /\ pc'[w] = "rollback" /\ err'[w] = "other" /\ ver'[w] = 0
        /\ OnlyWriter(w)
    BY <1>14, <1>t DEF CommitAckLost, StoreRow, TypeOK
  <2>3. call[w] \in 1..MaxCalls /\ Event(w) = <<w, call[w]>>
    BY <1>t, <2>2 DEF CallStarted, Event
  <2>4. RowsAccounted'
    <3> SUFFICES ASSUME NEW r \in rows'
                 PROVE  \E u \in Writers, n \in 1..MaxCalls :
                          /\ r.event = <<u, n>>
                          /\ n <= call[u]
                          /\ n = call[u] => \/ pc'[u] = "idle"
                                            \/ /\ pc'[u] = "rollback"
                                               /\ err'[u] = "other" /\ ver'[u] = 0
      BY <2>2 DEF RowsAccounted
    <3>1. CASE r.event = Event(w) BY <2>2, <2>3, <3>1
    <3>2. CASE r \in rows
      <4>1. PICK u \in Writers, n \in 1..MaxCalls :
              /\ r.event = <<u, n>>
              /\ n <= call[u]
              /\ n = call[u] => \/ pc[u] = "idle"
                                \/ /\ pc[u] = "rollback"
                                   /\ err[u] = "other" /\ ver[u] = 0
        BY <1>i, <3>2 DEF RowsAccounted
      <4>2. CASE u = w BY <2>2, <4>1, <4>2
      <4>3. CASE u # w BY <2>2, <4>1, <4>3
      <4> QED BY <4>2, <4>3
    <3> QED BY <2>1, <3>1, <3>2
  <2>5. OutcomesFinal'
    <3> SUFFICES ASSUME NEW u \in Writers, NEW n \in 1..MaxCalls,
                        outcome[<<u, n>>] # "pending"
                 PROVE  n <= call[u] /\ (n = call[u] => pc'[u] = "idle")
      BY <2>2 DEF OutcomesFinal
    <3>1. n <= call[u] /\ (n = call[u] => pc[u] = "idle")
      BY <1>i DEF OutcomesFinal
    <3> QED BY <2>2, <3>1
  <2>6. \A e \in EventIds : outcome[e] = "conflict" => e # Event(w)
    <3> SUFFICES ASSUME outcome[Event(w)] = "conflict" PROVE FALSE OBVIOUS
    <3> QED BY <1>i, <2>2, <2>3 DEF OutcomesFinal
  <2>7. CallAccountability'
    BY <1>i, <2>1, <2>2, <2>6 DEF CallAccountability
  <2> QED BY <2>4, <2>5, <2>7 DEF AccountInv
<1> QED BY <1>1, <1>2, <1>3, <1>4, <1>5, <1>6, <1>7, <1>8, <1>9, <1>10,
           <1>11, <1>12, <1>13, <1>14 DEF Progress, Fault

LEMMA AccountInvariant == Spec => []AccountInv
<1>1. Init => AccountInv
  <2> SUFFICES ASSUME Init PROVE AccountInv OBVIOUS
  <2>1. \A e \in EventIds : outcome[e] = "pending" BY DEF Init
  <2>2. \A u \in Writers, n \in 1..MaxCalls : <<u, n>> \in EventIds
    BY DEF EventIds
  <2> QED BY <2>1, <2>2
      DEF Init, AccountInv, RowsAccounted, OutcomesFinal, CallAccountability
<1> QED BY <1>1, AccountStep, VersionInvariant, PTL DEF Spec

\* repository.ts:166-193: the retries inside executeWithRetry never store an
\* event twice; "stored" means one row, OptimisticConcurrencyError means none.
THEOREM CallsAreAccounted == Spec => []CallAccountability
BY AccountInvariant, PTL DEF AccountInv

-----------------------------------------------------------------------------
(* The table implements the log: a COMMIT that takes effect is an append at  *)
(* the end of one log, every other step leaves all logs as they are.         *)

\* RowAt names the row of a version, and load lists the rows in order.
RowsNamed ==
  /\ UniqueRows => \A r \in rows : RowAt(r.aggregate, r.version) = r
  /\ \A a : \A v \in Versions(a) : /\ RowAt(a, v) \in rows
                                   /\ RowAt(a, v).aggregate = a
                                   /\ RowAt(a, v).version = v
LoadLists ==
  TypeOK => \A a : \A n \in Nat : Versions(a) = 1..n =>
    /\ Load(a) \in Seq(EventIds)
    /\ Len(Load(a)) = n
    /\ \A v \in 1..n : Load(a)[v] = RowAt(a, v).event

LEMMA RowsAreNamed == RowsNamed
<1>1. UniqueRows => \A r \in rows : RowAt(r.aggregate, r.version) = r
  BY DEF UniqueRows, RowAt
<1>2. ASSUME NEW a, NEW v \in Versions(a)
      PROVE  RowAt(a, v) \in rows /\ RowAt(a, v).aggregate = a
               /\ RowAt(a, v).version = v
  BY DEF Versions, RowAt
<1> QED BY <1>1, <1>2 DEF RowsNamed

LEMMA LoadListsRows == LoadLists
<1> SUFFICES ASSUME TypeOK, NEW a, NEW n \in Nat, Versions(a) = 1..n
             PROVE  /\ Load(a) \in Seq(EventIds)
                    /\ Len(Load(a)) = n
                    /\ \A v \in 1..n : Load(a)[v] = RowAt(a, v).event
  BY DEF LoadLists
<1>1. NextVersion(a) - 1 = n BY NextVersionOfDense
<1>2. Load(a) = [v \in 1..n |-> RowAt(a, v).event] BY <1>1 DEF Load
<1>3. \A v \in 1..n : RowAt(a, v).event \in EventIds
  BY RowsAreNamed DEF RowsNamed, TypeOK, Row
<1>4. Load(a) \in Seq(EventIds)
  <2> DEFINE e(v) == RowAt(a, v).event
  <2>1. \A v \in 1..n : e(v) \in EventIds BY <1>3
  <2> HIDE DEF e
  <2>2. [v \in 1..n |-> e(v)] \in Seq(EventIds) BY <2>1, IsASeq
  <2> QED BY <1>2, <2>2 DEF e
<1>5. DOMAIN Load(a) = 1..n BY <1>2
<1>6. Len(Load(a)) = n BY <1>4, <1>5, LenProperties
<1> QED BY <1>2, <1>4, <1>6

LEMMA LoadSame == rows' = rows => \A a : Load(a)' = Load(a)
BY DEF Load, RowAt, NextVersion, Versions

\* A row keeps its name when rows are added.
LEMMA NameKept ==
  ASSUME UniqueRows', rows \subseteq rows', NEW a, NEW v \in Versions(a)
  PROVE  RowAt(a, v)' = RowAt(a, v)
<1>1. RowsNamed /\ RowsNamed' BY RowsAreNamed, PTL
<1>2. PICK r \in rows : r.aggregate = a /\ r.version = v /\ RowAt(a, v) = r
  BY <1>1 DEF RowsNamed
<1>3. r \in rows' /\ RowAt(r.aggregate, r.version)' = r BY <1>1, <1>2 DEF RowsNamed
<1> QED BY <1>2, <1>3

\* What load returns of an aggregate after a step that added rows.
LEMMA LoadAfter ==
  ASSUME TypeOK, TypeOK', UniqueRows', rows \subseteq rows',
         NEW a, NEW n \in Nat, Versions(a) = 1..n,
         NEW m \in Nat, Versions(a)' = 1..m, n <= m
  PROVE  /\ Load(a) \in Seq(EventIds) /\ Len(Load(a)) = n
         /\ Load(a)' \in Seq(EventIds) /\ Len(Load(a)') = m
         /\ \A v \in 1..n : Load(a)'[v] = Load(a)[v]
         /\ \A v \in 1..m : Load(a)'[v] = RowAt(a, v)'.event
<1>1. LoadLists /\ LoadLists' BY LoadListsRows, PTL
<1>2. \A v \in 1..n : RowAt(a, v)' = RowAt(a, v) BY NameKept
<1>3. /\ Load(a) \in Seq(EventIds) /\ Len(Load(a)) = n
      /\ \A v \in 1..n : Load(a)[v] = RowAt(a, v).event
  BY <1>1 DEF LoadLists
<1>4. /\ Load(a)' \in Seq(EventIds) /\ Len(Load(a)') = m
      /\ \A v \in 1..m : Load(a)'[v] = RowAt(a, v)'.event
  BY <1>1 DEF LoadLists
<1>5. \A v \in 1..n : v \in 1..m OBVIOUS
<1> QED BY <1>2, <1>3, <1>4, <1>5

\* A COMMIT that takes effect is one AppendEvent of the log.
LEMMA StoreAppends ==
  ASSUME VersionInv, VersionInv', AccountInv, NEW w \in Writers,
         CallStarted, pc[w] = "commit", StoreRow(w)
  PROVE  Log!LogNext
<1>t. /\ TypeOK /\ TypeOK' /\ UniqueRows /\ UniqueRows'
      /\ DenseRows /\ DenseRows'
  BY DEF VersionInv
<1>a. PICK e, a, v : e = Event(w) /\ a = agg[w] /\ v = ver[w] OBVIOUS
<1>1. /\ rows' = rows \cup {[event |-> e, aggregate |-> a, version |-> v]}
      /\ a \in Aggregates /\ e \in EventIds /\ v \in Nat \ {0}
      /\ v \notin Versions(a)
  BY <1>a, <1>t DEF StoreRow, TypeOK, VersionInv, CallStarted, Event, EventIds,
                    HasEntry, EntriesUnused, ClaimsNext
<1>2. /\ Versions(a)' = Versions(a) \cup {v}
      /\ \A b : b # a => Versions(b)' = Versions(b)
  BY <1>1, VersionsOfInsert
<1>3. rows \subseteq rows' BY <1>1
<1>4. PICK n \in Nat : Versions(a) = 1..n BY <1>1, <1>t DEF DenseRows
<1>5. PICK m \in Nat : Versions(a)' = 1..m BY <1>1, <1>t DEF DenseRows
<1>6. v = n + 1 /\ m = n + 1
  <2>1. 1..m = (1..n) \cup {v} /\ v \notin 1..n BY <1>1, <1>2, <1>4, <1>5
  <2>2. v > n BY <1>1, <2>1
  <2>3. v \in 1..m /\ m \in (1..n) \cup {v} BY <2>1, <1>1
  <2>4. m = v BY <2>2, <2>3, <1>1
  <2>5. CASE v > n + 1
    <3>1. n + 1 \in 1..m /\ n + 1 \notin (1..n) \cup {v} BY <2>4, <2>5
    <3> QED BY <2>1, <3>1
  <2> QED BY <1>1, <2>2, <2>4, <2>5
\* the log of a
<1>7. /\ Load(a) \in Seq(EventIds) /\ Len(Load(a)) = n
      /\ Load(a)' \in Seq(EventIds) /\ Len(Load(a)') = n + 1
      /\ \A i \in 1..n : Load(a)'[i] = Load(a)[i]
      /\ \A i \in 1..(n + 1) : Load(a)'[i] = RowAt(a, i)'.event
  BY <1>t, <1>3, <1>4, <1>5, <1>6, LoadAfter
<1>8. RowAt(a, n + 1)'.event = e
  <2> DEFINE new == [event |-> e, aggregate |-> a, version |-> v]
  <2>1. RowsNamed' BY RowsAreNamed, PTL
  <2>2. new \in rows' /\ new.aggregate = a /\ new.version = n + 1 /\ new.event = e
    BY <1>1, <1>6
  <2> HIDE DEF new
  <2>3. RowAt(new.aggregate, new.version)' = new
    BY <1>t, <2>1, <2>2 DEF RowsNamed
  <2> QED BY <2>2, <2>3
<1>9. Load(a)' = Append(Load(a), e)
  <2>1. /\ Append(Load(a), e) \in Seq(EventIds)
        /\ Len(Append(Load(a), e)) = n + 1
        /\ \A i \in 1..n : Append(Load(a), e)[i] = Load(a)[i]
        /\ Append(Load(a), e)[n + 1] = e
    BY <1>1, <1>7, AppendProperties
  <2>2. \A i \in 1..(n + 1) : Load(a)'[i] = Append(Load(a), e)[i]
    <3> SUFFICES ASSUME NEW i \in 1..(n + 1)
                 PROVE  Load(a)'[i] = Append(Load(a), e)[i]
      OBVIOUS
    <3>1. CASE i = n + 1 BY <1>7, <1>8, <2>1, <3>1
    <3>2. CASE i \in 1..n BY <1>7, <2>1, <3>2
    <3>3. i = n + 1 \/ i \in 1..n BY <1>4
    <3> QED BY <3>1, <3>2, <3>3
  <2> QED BY <1>7, <2>1, <2>2, SeqEqual
\* the other logs
<1>10. ASSUME NEW b \in Aggregates, b # a PROVE Load(b)' = Load(b)
  <2>1. PICK k \in Nat : Versions(b) = 1..k BY <1>t DEF DenseRows
  <2>2. Versions(b)' = 1..k BY <1>2, <1>10, <2>1
  <2>3. /\ Load(b) \in Seq(EventIds) /\ Len(Load(b)) = k
        /\ Load(b)' \in Seq(EventIds) /\ Len(Load(b)') = k
        /\ \A i \in 1..k : Load(b)'[i] = Load(b)[i]
    BY <1>t, <1>3, <2>1, <2>2, LoadAfter
  <2> QED BY <2>3, SeqEqual
<1> DEFINE log == [b \in Aggregates |-> Load(b)]
<1>11. log' = [log EXCEPT ![a] = Append(@, e)] BY <1>1, <1>9, <1>10
\* the event is new
<1>12. ~Log!Logged(e)
  <2> SUFFICES ASSUME NEW b \in Aggregates, NEW i \in 1..Len(Load(b))
               PROVE  Load(b)[i] # e
    BY DEF Log!Logged
  <2>1. PICK k \in Nat : Versions(b) = 1..k BY <1>t DEF DenseRows
  <2>2. Len(Load(b)) = k /\ Load(b)[i] = RowAt(b, i).event
    BY <1>t, <2>1, LoadListsRows DEF LoadLists
  <2>3. RowAt(b, i) \in rows BY <2>1, <2>2, RowsAreNamed DEF RowsNamed
  <2>4. \A r \in rows : r.event # Event(w) BY <1>t, NoRowYet DEF AccountInv
  <2> QED BY <1>a, <2>2, <2>3, <2>4
<1>13. Log!AppendEvent(a, e) BY <1>11, <1>12 DEF Log!AppendEvent
<1> QED BY <1>1, <1>13 DEF Log!LogNext

\* EventStore implements EventLog: what load returns only ever grows, at the
\* end, by one event that was not there, under every interleaving and failure.
THEOREM StoreImplementsLog == Spec => ImplementsLog
<1> DEFINE log == [a \in Aggregates |-> Load(a)]
<1>1. Init => Log!LogInit
  <2> SUFFICES ASSUME Init PROVE log = [a \in Aggregates |-> << >>]
    BY DEF Log!LogInit
  <2>1. \A a : Versions(a) = 1..0 BY DEF Init, Versions
  <2>2. TypeOK BY InitVersionInv DEF VersionInv
  <2>3. \A a : Load(a) \in Seq(EventIds) /\ Len(Load(a)) = 0
    BY <2>1, <2>2, LoadListsRows DEF LoadLists
  <2>4. \A a : Load(a) = << >> BY <2>3, EmptySeq
  <2> QED BY <2>4
<1>2. VersionInv /\ VersionInv' /\ AccountInv /\ [Next]_vars
        => [Log!LogNext]_log
  <2> SUFFICES ASSUME VersionInv, VersionInv', AccountInv, [Next]_vars
               PROVE  Log!LogNext \/ log' = log
    OBVIOUS
  <2>1. rows' = rows => log' = log BY LoadSame
  <2>2. CASE UNCHANGED vars BY <2>1, <2>2 DEF vars
  <2>l. CASE \E r \in Readers : LoadAcquires(r) \/ LoadEnds(r)
    BY <2>1, <2>l DEF LoadAcquires, LoadEnds
  <2> SUFFICES ASSUME NEW w \in Writers,
                      \/ \E a \in Aggregates : Call(w, a)
                      \/ Progress(w) \/ Fault(w)
               PROVE  Log!LogNext \/ log' = log
    BY <2>2, <2>l DEF Next
  <2>3. CASE Commit(w) \/ CommitAckLost(w)
    BY <2>3, StoreAppends DEF Commit, CommitAckLost, VersionInv
  <2>4. CASE ~(Commit(w) \/ CommitAckLost(w))
    <3>1. rows' = rows
      BY <2>4 DEF Progress, Fault, Call, AcquireClient, AcquireFails, Begin,
         ComputeVersion, InsertRow, UniqueViolation, RollbackThrows,
         RollbackRetries, BackoffExpires, QueryFails, RollbackFails
    <3> QED BY <2>1, <3>1
  <2> QED BY <2>3, <2>4
<1> QED BY <1>1, <1>2, VersionInvariant, AccountInvariant, PTL
    DEF Spec, ImplementsLog, Log!LogSpec

-----------------------------------------------------------------------------
(* Why append returns: a writer has finitely many steps left, and whenever   *)
(* one is inside append, one that is inside can take its next step.          *)

\* What a writer has before it until its operation ends or is retried.
StepsFrom ==
  [p \in PCs |-> CASE p = "backoff"  -> 7
                   [] p = "acquire"  -> 6
                   [] p = "begin"    -> 5
                   [] p = "select"   -> 4
                   [] p = "index"    -> 3
                   [] p = "commit"   -> 2
                   [] p = "rollback" -> 1
                   [] p = "idle"     -> 0]

\* A retry starts over and is counted.
StepsLeft(w) == (DefaultRetries - attempt[w]) * 8 + StepsFrom[pc[w]]

Unmoved(w) == pc'[w] = pc[w] /\ attempt'[w] = attempt[w] /\ call'[w] = call[w]
Shrinks(w) == pc[w] # "idle" /\ StepsLeft(w)' < StepsLeft(w)
Called(w)  == pc[w] = "idle" /\ pc'[w] = "acquire"

\* Inside append every step of a writer, whether it fails or not, is one step less.
StepsShrink == \A w \in Writers : Unmoved(w) \/ Shrinks(w) \/ Called(w)

\* The guard of Progress(w) once its wait is over; connect may always time out.
CanGoOn(w) == pc[w] # "idle" /\ (pc[w] = "index" => IndexFree(w))

SomeoneGoesOn ==
  (\E w \in Writers : pc[w] # "idle") => \E w \in Writers : CanGoOn(w)

LEMMA StepsOfWriter ==
  ASSUME TypeOK, TypeOK', NEW w \in Writers, Progress(w) \/ Fault(w)
  PROVE  Shrinks(w)
<1> USE DEF Shrinks
<1>t. /\ pc[w] \in PCs /\ pc'[w] \in PCs
      /\ attempt[w] \in 0..DefaultRetries /\ attempt'[w] \in 0..DefaultRetries
  BY DEF TypeOK
<1>1. \A p \in PCs : StepsFrom[p] \in 0..7 BY DEF StepsFrom, PCs
<1>2. CASE RollbackRetries(w)
  <2>1. pc[w] = "rollback" /\ pc'[w] = "backoff" /\ attempt'[w] = attempt[w] + 1
    BY <1>2 DEF RollbackRetries, TypeOK
  <2>2. StepsFrom["rollback"] = 1 /\ StepsFrom["backoff"] = 7 BY DEF StepsFrom, PCs
  <2> QED BY <2>1, <2>2, <1>t, RetriesAssumption DEF StepsLeft
<1>3. CASE ~RollbackRetries(w)
  <2>1. attempt' = attempt /\ pc[w] # "idle"
    BY <1>3 DEF Progress, Fault, AcquireClient, AcquireFails, Begin, ComputeVersion,
       InsertRow, UniqueViolation, Commit, RollbackThrows, BackoffExpires, QueryFails,
       CommitAckLost, RollbackFails
  <2>2. \/ pc[w] = "backoff" /\ pc'[w] = "acquire"
        \/ pc[w] = "acquire" /\ pc'[w] \in {"begin", "idle"}
        \/ pc[w] = "begin" /\ pc'[w] \in {"select", "rollback"}
        \/ pc[w] = "select" /\ pc'[w] \in {"index", "rollback"}
        \/ pc[w] = "index" /\ pc'[w] \in {"commit", "rollback"}
        \/ pc[w] = "commit" /\ pc'[w] \in {"idle", "rollback"}
        \/ pc[w] = "rollback" /\ pc'[w] = "idle"
    BY <1>3 DEF Progress, Fault, AcquireClient, AcquireFails, Begin, ComputeVersion,
       InsertRow, UniqueViolation, Commit, RollbackThrows, BackoffExpires, QueryFails,
       CommitAckLost, RollbackFails, Finish, TypeOK
  <2>3. StepsFrom[pc'[w]] < StepsFrom[pc[w]] BY <2>2 DEF StepsFrom, PCs
  <2> QED BY <2>1, <2>3, <1>t, <1>1, RetriesAssumption DEF StepsLeft
<1> QED BY <1>2, <1>3

LEMMA OthersUnmoved ==
  ASSUME TypeOK, NEW w \in Writers,
         \/ \E a \in Aggregates : Call(w, a)
         \/ Progress(w) \/ Fault(w)
  PROVE  \A u \in Writers \ {w} : Unmoved(u)
BY DEF Call, Progress, Fault, AcquireClient, AcquireFails, Begin, ComputeVersion,
       InsertRow, UniqueViolation, Commit, RollbackThrows, RollbackRetries, BackoffExpires,
       QueryFails, CommitAckLost, RollbackFails, Finish, TypeOK, Unmoved

\* executeWithRetry (repository.ts:166-193) makes no more than DEFAULT_RETRIES + 1
\* attempts, and none of them turns back: an append takes 8 * (DEFAULT_RETRIES + 1)
\* steps at most, whatever fails and whatever others do.
THEOREM AppendStepsBounded == Spec => [][StepsShrink]_vars
<1>1. TypeOK /\ TypeOK' /\ [Next]_vars => [StepsShrink]_vars
  <2> SUFFICES ASSUME TypeOK, TypeOK', Next PROVE StepsShrink OBVIOUS
  <2>1. ASSUME NEW r \in Readers, LoadAcquires(r) \/ LoadEnds(r) PROVE StepsShrink
    <3>1. \A w \in Writers : Unmoved(w) BY <2>1 DEF LoadAcquires, LoadEnds, Unmoved
    <3> QED BY <3>1 DEF StepsShrink
  <2>2. ASSUME NEW w \in Writers, NEW a \in Aggregates, Call(w, a) PROVE StepsShrink
    <3>1. Called(w) BY <2>2 DEF Call, TypeOK, Called
    <3>2. \A u \in Writers \ {w} : Unmoved(u) BY <2>2, OthersUnmoved
    <3> QED BY <3>1, <3>2 DEF StepsShrink
  <2>3. ASSUME NEW w \in Writers, Progress(w) \/ Fault(w) PROVE StepsShrink
    <3>1. Shrinks(w) BY <2>3, StepsOfWriter
    <3>2. \A u \in Writers \ {w} : Unmoved(u) BY <2>3, OthersUnmoved
    <3> QED BY <3>1, <3>2 DEF StepsShrink
  <2> QED BY <2>1, <2>2, <2>3 DEF Next
<1> QED BY <1>1, TypeCorrect, PTL DEF Spec

\* repository.ts:84-94, 195-202: neither the pool nor the unique index can stop every
\* append at once: connect may time out, and the transaction whose entry an INSERT
\* waits for waits for nothing itself.
THEOREM AppendsNeverStuck == Spec => []SomeoneGoesOn
<1>1. TypeOK => SomeoneGoesOn
  <2> SUFFICES ASSUME TypeOK, NEW w \in Writers, pc[w] # "idle"
               PROVE  \E u \in Writers : CanGoOn(u)
    BY DEF SomeoneGoesOn
  <2>1. CASE CanGoOn(w) BY <2>1
  <2>2. CASE ~CanGoOn(w)
    <3>1. PICK u \in Writers : HasEntry(u) BY <2>2 DEF CanGoOn, IndexFree
    <3>2. CanGoOn(u) BY <3>1 DEF CanGoOn, HasEntry
    <3> QED BY <3>2
  <2> QED BY <2>1, <2>2
<1> QED BY <1>1, TypeCorrect, PTL
=============================================================================
