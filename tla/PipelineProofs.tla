--------------------------- MODULE PipelineProofs ---------------------------
(***************************************************************************)
(* First what the idempotency key of dispatchFlag guarantees for any       *)
(* number of calls and faults (AlertingSubsystem): how often an alert can  *)
(* be sent, and who can be found holding the key.  Then the same for the   *)
(* deliveries of Pipeline, which only makes those calls, and why a         *)
(* committed transaction may have got neither an alert nor a dead letter.  *)
(***************************************************************************)
EXTENDS Pipeline, FiniteSetTheorems, TLAPS

AlertsPaid == alerts + Cardinality(Publishers) <= 1 + breaches

\* The calls that are about to publish; while the key does not exist each of
\* them was overtaken by a removal, and so was each that is there beside a
\* holder that is not going to publish.
PublishersPaid ==
  /\ AlertsPaid
  /\ key = Nobody => alerts + Cardinality(Publishers) <= breaches
  /\ key # Nobody /\ alerts = 0 /\ key \notin Publishers
       => Cardinality(Publishers) <= breaches

\* A call in its catch block may remove a key, and got there by a failure.
Cleaners     == {d \in Dispatchers : pc[d] = "cleanup"}
RemovalsPaid == breaches + Cardinality(Cleaners) <= faults

AlertInv == TypeOK /\ PublishersPaid /\ RemovalsPaid /\ KeyExplained

-----------------------------------------------------------------------------
LEMMA PublishersFinite ==
  IsFiniteSet(Publishers) /\ Cardinality(Publishers) \in Nat
BY DispatchersAssumption, FS_Subset, FS_CardinalityType DEF Publishers

\* The number of publishers after a dispatcher has moved.
LEMMA PublishersAfter ==
  ASSUME TypeOK, NEW d \in Dispatchers, NEW step \in PCs, GoTo(d, step)
  PROVE  /\ pc' \in [Dispatchers -> PCs] /\ pc'[d] = step
         /\ \A e \in Dispatchers \ {d} : pc'[e] = pc[e]
         /\ step \in {"create", "publish"} => Publishers' = Publishers \cup {d}
         /\ step \notin {"create", "publish"} => Publishers' = Publishers \ {d}
         /\ Cardinality(Publishers') \in Nat
         /\ step \in {"create", "publish"} =>
              Cardinality(Publishers') =
                Cardinality(Publishers) + (IF d \in Publishers THEN 0 ELSE 1)
         /\ step \notin {"create", "publish"} =>
              Cardinality(Publishers') =
                Cardinality(Publishers) - (IF d \in Publishers THEN 1 ELSE 0)
<1>1. /\ pc' \in [Dispatchers -> PCs] /\ pc'[d] = step
      /\ \A e \in Dispatchers \ {d} : pc'[e] = pc[e]
  BY DEF TypeOK, GoTo
<1>2. step \in {"create", "publish"} => Publishers' = Publishers \cup {d}
  BY <1>1 DEF Publishers
<1>3. step \notin {"create", "publish"} => Publishers' = Publishers \ {d}
  BY <1>1 DEF Publishers
<1>4. IsFiniteSet(Publishers) /\ Cardinality(Publishers) \in Nat
  BY PublishersFinite
<1>5. Cardinality(Publishers \cup {d}) =
        Cardinality(Publishers) + (IF d \in Publishers THEN 0 ELSE 1)
  <2>1. Cardinality(Publishers \cup {d}) =
          IF d \in Publishers THEN Cardinality(Publishers)
                             ELSE Cardinality(Publishers) + 1
    BY <1>4, FS_AddElement, Zenon
  <2> QED BY <2>1, <1>4
<1>6. Cardinality(Publishers \ {d}) =
        Cardinality(Publishers) - (IF d \in Publishers THEN 1 ELSE 0)
  <2>1. Cardinality(Publishers \ {d}) =
          IF d \in Publishers THEN Cardinality(Publishers) - 1
                             ELSE Cardinality(Publishers)
    BY <1>4, FS_RemoveElement, Zenon
  <2> QED BY <2>1, <1>4
<1>7. d \in Publishers => Cardinality(Publishers) >= 1
  <2> SUFFICES ASSUME d \in Publishers PROVE Cardinality(Publishers) # 0
    BY <1>4
  <2> QED BY <1>4, FS_EmptySet
<1>8. Cardinality(Publishers') \in Nat
  <2>1. CASE step \in {"create", "publish"} BY <2>1, <1>2, <1>4, <1>5
  <2>2. CASE step \notin {"create", "publish"}
    BY <2>2, <1>3, <1>4, <1>6, <1>7
  <2> QED BY <2>1, <2>2
<1> QED BY <1>1, <1>2, <1>3, <1>5, <1>6, <1>8

\* The number of calls in the catch block after a dispatcher has moved.
LEMMA CleanersAfter ==
  ASSUME TypeOK, NEW d \in Dispatchers, NEW step \in PCs, GoTo(d, step)
  PROVE  /\ Cardinality(Cleaners) \in Nat /\ Cardinality(Cleaners') \in Nat
         /\ step = "cleanup" => Cardinality(Cleaners') <= Cardinality(Cleaners) + 1
         /\ step # "cleanup" => Cardinality(Cleaners') <=
              Cardinality(Cleaners) - (IF pc[d] = "cleanup" THEN 1 ELSE 0)
<1>1. /\ IsFiniteSet(Cleaners) /\ Cardinality(Cleaners) \in Nat
      /\ IsFiniteSet(Cleaners') /\ Cardinality(Cleaners') \in Nat
  BY DispatchersAssumption, FS_Subset, FS_CardinalityType DEF Cleaners
<1>2. step = "cleanup" => Cleaners' = Cleaners \cup {d} BY DEF TypeOK, GoTo, Cleaners
<1>3. step # "cleanup" => Cleaners' = Cleaners \ {d} BY DEF TypeOK, GoTo, Cleaners
<1>4. Cardinality(Cleaners \cup {d}) =
        IF d \in Cleaners THEN Cardinality(Cleaners) ELSE Cardinality(Cleaners) + 1
  BY <1>1, FS_AddElement, Zenon
<1>5. Cardinality(Cleaners \ {d}) =
        IF d \in Cleaners THEN Cardinality(Cleaners) - 1 ELSE Cardinality(Cleaners)
  BY <1>1, FS_RemoveElement, Zenon
<1>6. pc[d] = "cleanup" <=> d \in Cleaners BY DEF Cleaners
<1>7. CASE step = "cleanup"
  <2>1. Cardinality(Cleaners') \in {Cardinality(Cleaners), Cardinality(Cleaners) + 1}
    BY <1>2, <1>4, <1>7
  <2> QED BY <1>1, <1>7, <2>1
<1>8. CASE step # "cleanup"
  <2>1. CASE d \in Cleaners
    <3>1. Cardinality(Cleaners') = Cardinality(Cleaners) - 1 BY <1>3, <1>5, <1>8, <2>1
    <3> QED BY <1>1, <1>6, <1>8, <2>1, <3>1
  <2>2. CASE d \notin Cleaners
    <3>1. Cardinality(Cleaners') = Cardinality(Cleaners) BY <1>3, <1>5, <1>8, <2>2
    <3> QED BY <1>1, <1>6, <1>8, <2>2, <3>1
  <2> QED BY <2>1, <2>2
<1> QED BY <1>7, <1>8

LEMMA InitEstablishes == Init => AlertInv
<1> SUFFICES ASSUME Init PROVE AlertInv OBVIOUS
<1>1. TypeOK BY FaultsAssumption DEF Init, TypeOK, PCs, Endings
<1>2. Publishers = {} BY DEF Init, Publishers
<1>3. Cardinality(Publishers) = 0 BY <1>2, FS_EmptySet
<1>4. PublishersPaid BY <1>3 DEF Init, PublishersPaid, AlertsPaid
<1>5. KeyExplained BY DEF Init, KeyExplained
<1>6. RemovalsPaid
  <2>1. Cleaners = {} BY DEF Init, Cleaners
  <2> QED BY <2>1, FS_EmptySet DEF Init, RemovalsPaid
<1> QED BY <1>1, <1>4, <1>5, <1>6 DEF AlertInv

-----------------------------------------------------------------------------
LEMMA TypeStep == TypeOK /\ [Next]_vars => TypeOK'
<1> SUFFICES ASSUME TypeOK, [Next]_vars PROVE TypeOK' OBVIOUS
<1> USE FaultsAssumption DEF TypeOK
<1>1. ASSUME NEW d \in Dispatchers,
             Call(d) \/ SetWins(d) \/ SetSkips(d) \/ SetResent(d) \/ SetFails(d)
      PROVE  TypeOK'
  BY <1>1 DEF Call, SetWins, SetSkips, SetResent, SetFails, GoTo, End, Fault,
              PCs, Endings
<1>2. ASSUME NEW d \in Dispatchers,
             Create(d) \/ CreateFails(d) \/ Publish(d) \/ PublishFails(d)
      PROVE  TypeOK'
  BY <1>2 DEF Create, CreateFails, Publish, PublishFails, GoTo, End, Fault,
              PCs, Endings
<1>3. ASSUME NEW d \in Dispatchers,
             Release(d) \/ ReleaseResent(d) \/ ReleaseFails(d)
      PROVE  TypeOK'
  BY <1>3 DEF Release, ReleaseResent, ReleaseFails, Delete, GoTo, End,
              Fault, PCs, Endings
<1>4. ASSUME NEW D \in SUBSET Dispatchers, Crash(D) PROVE TypeOK'
  BY <1>4 DEF Crash, Fault, PCs, Endings
<1>5. CASE Expire BY <1>5 DEF Expire, Fault
<1>6. CASE UNCHANGED vars BY <1>6 DEF vars
<1> QED BY <1>1, <1>2, <1>3, <1>4, <1>5, <1>6 DEF Next

LEMMA PaidStep == AlertInv /\ [Next]_vars => PublishersPaid'
<1> SUFFICES ASSUME AlertInv, [Next]_vars PROVE PublishersPaid' OBVIOUS
<1>t. TypeOK BY DEF AlertInv
<1>a. alerts \in Nat /\ breaches \in Nat /\ Cardinality(Publishers) \in Nat
  BY <1>t, PublishersFinite DEF TypeOK
<1>n. Nobody \notin Dispatchers BY DispatchersAssumption
<1> USE DEF AlertInv, PublishersPaid, AlertsPaid
<1>1. ASSUME NEW d \in Dispatchers, SetWins(d) PROVE PublishersPaid'
  <2>1. GoTo(d, "create") /\ key = Nobody /\ key' = d /\ UNCHANGED <<alerts, breaches>>
    BY <1>1 DEF SetWins
  <2>2. /\ Publishers' = Publishers \cup {d}
        /\ Cardinality(Publishers') <= Cardinality(Publishers) + 1
        /\ Cardinality(Publishers') \in Nat
    BY <2>1, <1>t, <1>a, PublishersAfter DEF PCs
  <2> QED BY <2>1, <2>2, <1>a, <1>n
<1>2. ASSUME NEW d \in Dispatchers, Create(d) PROVE PublishersPaid'
  <2>1. GoTo(d, "publish") /\ d \in Publishers /\ UNCHANGED <<key, alerts, breaches>>
    BY <1>2 DEF Create, Publishers
  <2>2. Publishers' = Publishers
    BY <2>1, <1>t, PublishersAfter DEF PCs
  <2> QED BY <2>1, <2>2
<1>3. ASSUME NEW d \in Dispatchers, Publish(d) PROVE PublishersPaid'
  <2>1. GoTo(d, "idle") /\ d \in Publishers /\ alerts' = alerts + 1
        /\ UNCHANGED <<key, breaches>>
    BY <1>3 DEF Publish, Publishers, End
  <2>2. Cardinality(Publishers') = Cardinality(Publishers) - 1
    BY <2>1, <1>t, PublishersAfter DEF PCs
  <2> QED BY <2>1, <2>2, <1>a
<1>4. ASSUME NEW d \in Dispatchers, CreateFails(d) \/ PublishFails(d)
      PROVE PublishersPaid'
  <2>1. /\ GoTo(d, "cleanup") /\ d \in Publishers
        /\ alerts' \in {alerts, alerts + 1} /\ UNCHANGED <<key, breaches>>
    BY <1>4 DEF CreateFails, PublishFails, Publishers
  <2>2. Cardinality(Publishers') = Cardinality(Publishers) - 1
    BY <2>1, <1>t, PublishersAfter DEF PCs
  <2> QED BY <2>1, <2>2, <1>a
<1>5. ASSUME NEW d \in Dispatchers, Release(d) \/ ReleaseResent(d)
      PROVE PublishersPaid'
  <2>1. pc[d] = "cleanup" /\ Delete(d) /\ alerts' = alerts /\ d \notin Publishers
    BY <1>5 DEF Release, ReleaseResent, Publishers
  <2>2. Publishers' = Publishers
    <3>1. CASE Release(d)
      <4>1. GoTo(d, "idle") BY <3>1 DEF Release, End
      <4>2. Publishers' = Publishers \ {d}
        BY <4>1, <1>t, PublishersAfter DEF PCs
      <4> QED BY <4>2, <2>1
    <3>2. CASE ReleaseResent(d) BY <3>2 DEF ReleaseResent, Publishers
    <3> QED BY <3>1, <3>2, <1>5
  <2>3. key' = Nobody /\ breaches' = breaches + IF Breach(d) THEN 1 ELSE 0
    BY <2>1 DEF Delete
  <2>4. CASE Breach(d) BY <2>4, <2>1, <2>2, <2>3, <1>a
  <2>5. CASE ~Breach(d) /\ key = Nobody BY <2>5, <2>1, <2>2, <2>3, <1>a
  <2>6. CASE ~Breach(d) /\ key # Nobody
    <3>1. alerts = 0 /\ key = d BY <2>6, <1>a DEF Breach
    <3> QED BY <3>1, <2>6, <2>1, <2>2, <2>3, <1>a
  <2> QED BY <2>4, <2>5, <2>6
<1>6. ASSUME NEW d \in Dispatchers, SetFails(d) PROVE PublishersPaid'
  <2>1. /\ GoTo(d, "cleanup") /\ d \notin Publishers
        /\ UNCHANGED <<alerts, breaches>>
        /\ key' = key \/ (key = Nobody /\ key' = d)
    BY <1>6 DEF SetFails, Publishers
  <2>2. Publishers' = Publishers
    BY <2>1, <1>t, PublishersAfter DEF PCs
  <2> QED BY <2>1, <2>2, <1>a, <1>n
<1>7. ASSUME NEW d \in Dispatchers, SetResent(d) PROVE PublishersPaid'
  <2>1. /\ UNCHANGED <<pc, alerts, breaches>> /\ key = Nobody /\ key' = d
    BY <1>7 DEF SetResent
  <2>2. Publishers' = Publishers BY <2>1 DEF Publishers
  <2> QED BY <2>1, <2>2, <1>a, <1>n
<1>8. ASSUME NEW d \in Dispatchers, Call(d) \/ SetSkips(d) \/ ReleaseFails(d)
      PROVE PublishersPaid'
  <2>1. /\ GoTo(d, "set") \/ GoTo(d, "idle")
        /\ d \notin Publishers /\ UNCHANGED <<key, alerts, breaches>>
    BY <1>8 DEF Call, SetSkips, ReleaseFails, End, Publishers
  <2>2. Publishers' = Publishers
    BY <2>1, <1>t, PublishersAfter DEF PCs
  <2> QED BY <2>1, <2>2
<1>9. ASSUME NEW D \in SUBSET Dispatchers, Crash(D) PROVE PublishersPaid'
  <2>1. /\ UNCHANGED <<key, alerts, breaches>>
        /\ pc' = [d \in Dispatchers |->
                    IF d \in D /\ pc[d] # "idle" THEN "idle" ELSE pc[d]]
    BY <1>9 DEF Crash
  <2>2. Publishers' = Publishers \ D BY <2>1 DEF Publishers
  <2>3. IsFiniteSet(Publishers) BY PublishersFinite
  <2>4. /\ Cardinality(Publishers') \in Nat
        /\ Cardinality(Publishers') <= Cardinality(Publishers)
    BY <2>2, <2>3, FS_Subset, FS_CardinalityType
  <2>5. CASE key \in Publishers /\ key \in D
    <3>1. Publishers' \subseteq Publishers \ {key} BY <2>2, <2>5
    <3>2. IsFiniteSet(Publishers \ {key})
          /\ Cardinality(Publishers \ {key}) = Cardinality(Publishers) - 1
      BY <2>3, <2>5, FS_RemoveElement
    <3>3. Cardinality(Publishers') <= Cardinality(Publishers) - 1
      BY <3>1, <3>2, FS_Subset
    <3> QED BY <2>1, <2>4, <3>3, <1>a
  <2>6. CASE ~(key \in Publishers /\ key \in D)
    BY <2>1, <2>2, <2>4, <2>6, <1>a
  <2> QED BY <2>5, <2>6
<1>10. CASE Expire
  <2>1. /\ key # Nobody /\ key' = Nobody /\ breaches' = breaches + 1
        /\ alerts' = alerts /\ pc' = pc
    BY <1>10 DEF Expire
  <2>2. Publishers' = Publishers BY <2>1 DEF Publishers
  <2> QED BY <2>1, <2>2, <1>a
<1>11. CASE UNCHANGED vars
  <2>1. Publishers' = Publishers /\ UNCHANGED <<key, alerts, breaches>>
    BY <1>11 DEF vars, Publishers
  <2> QED BY <2>1
<1> QED
  BY <1>1, <1>2, <1>3, <1>4, <1>5, <1>6, <1>7, <1>8, <1>9, <1>10, <1>11 DEF Next

LEMMA RemovalsStep == AlertInv /\ [Next]_vars => RemovalsPaid'
<1> SUFFICES ASSUME AlertInv, [Next]_vars PROVE RemovalsPaid' OBVIOUS
<1>t. TypeOK /\ RemovalsPaid BY DEF AlertInv
<1>a. breaches \in Nat /\ faults \in Nat BY <1>t, FaultsAssumption DEF TypeOK
<1>c. Cardinality(Cleaners) \in Nat /\ IsFiniteSet(Cleaners)
  BY DispatchersAssumption, FS_Subset, FS_CardinalityType DEF Cleaners
<1> USE DEF RemovalsPaid
<1>1. ASSUME NEW d \in Dispatchers,
             \/ Call(d) \/ SetWins(d) \/ SetSkips(d) \/ Create(d) \/ Publish(d)
      PROVE  RemovalsPaid'
  <2>1. PICK step \in PCs \ {"cleanup"} : GoTo(d, step)
    BY <1>1 DEF Call, SetWins, SetSkips, Create, Publish, End, PCs
  <2>2. UNCHANGED <<breaches, faults>>
    BY <1>1 DEF Call, SetWins, SetSkips, Create, Publish
  <2>3. Cardinality(Cleaners') \in Nat /\ Cardinality(Cleaners') <= Cardinality(Cleaners)
    BY <1>t, <1>c, <2>1, CleanersAfter
  <2> QED BY <1>t, <1>a, <1>c, <2>2, <2>3
<1>2. ASSUME NEW d \in Dispatchers,
             SetFails(d) \/ CreateFails(d) \/ PublishFails(d)
      PROVE  RemovalsPaid'
  <2>1. GoTo(d, "cleanup") /\ breaches' = breaches /\ faults' = faults + 1
    BY <1>2 DEF SetFails, CreateFails, PublishFails, Fault
  <2>2. /\ Cardinality(Cleaners') \in Nat
        /\ Cardinality(Cleaners') <= Cardinality(Cleaners) + 1
    BY <1>t, <2>1, CleanersAfter DEF PCs
  <2> QED BY <1>t, <1>a, <1>c, <2>1, <2>2
<1>3. ASSUME NEW d \in Dispatchers, Release(d) PROVE RemovalsPaid'
  <2>1. /\ GoTo(d, "idle") /\ pc[d] = "cleanup" /\ faults' = faults
        /\ breaches' \in {breaches, breaches + 1}
    BY <1>3, <1>a DEF Release, End, Delete
  <2>2. /\ Cardinality(Cleaners') \in Nat
        /\ Cardinality(Cleaners') <= Cardinality(Cleaners) - 1
    BY <1>t, <2>1, CleanersAfter DEF PCs
  <2> QED BY <1>t, <1>a, <1>c, <2>1, <2>2
<1>4. ASSUME NEW d \in Dispatchers, ReleaseFails(d) PROVE RemovalsPaid'
  <2>1. GoTo(d, "idle") /\ pc[d] = "cleanup" /\ faults' = faults + 1 /\ breaches' = breaches
    BY <1>4 DEF ReleaseFails, End, Fault
  <2>2. /\ Cardinality(Cleaners') \in Nat
        /\ Cardinality(Cleaners') <= Cardinality(Cleaners) - 1
    BY <1>t, <2>1, CleanersAfter DEF PCs
  <2> QED BY <1>t, <1>a, <1>c, <2>1, <2>2
<1>5. ASSUME Expire \/ \E d \in Dispatchers : SetResent(d) \/ ReleaseResent(d)
      PROVE  RemovalsPaid'
  <2>1. pc' = pc /\ faults' = faults + 1 /\ breaches' \in {breaches, breaches + 1}
    BY <1>5, <1>a DEF Expire, SetResent, ReleaseResent, Fault, Delete
  <2>2. Cleaners' = Cleaners BY <2>1 DEF Cleaners
  <2> QED BY <1>t, <1>a, <1>c, <2>1, <2>2
<1>6. ASSUME NEW D \in SUBSET Dispatchers, Crash(D) PROVE RemovalsPaid'
  <2>1. faults' = faults + 1 /\ breaches' = breaches /\ Cleaners' \subseteq Cleaners
    BY <1>6 DEF Crash, Fault, Cleaners
  <2>2. /\ Cardinality(Cleaners') \in Nat /\ Cardinality(Cleaners') <= Cardinality(Cleaners)
    BY <1>c, <2>1, FS_Subset, FS_CardinalityType
  <2> QED BY <1>t, <1>a, <1>c, <2>1, <2>2
<1>7. CASE UNCHANGED vars
  <2>1. Cleaners' = Cleaners /\ UNCHANGED <<breaches, faults>> BY <1>7 DEF vars, Cleaners
  <2> QED BY <1>t, <2>1
<1> QED BY <1>1, <1>2, <1>3, <1>4, <1>5, <1>6, <1>7 DEF Next

LEMMA ExplainedStep == AlertInv /\ [Next]_vars => KeyExplained'
<1> SUFFICES ASSUME AlertInv, [Next]_vars PROVE KeyExplained' OBVIOUS
<1>t. TypeOK BY DEF AlertInv
<1>k. KeyExplained BY DEF AlertInv
<1>n. Nobody \notin Dispatchers BY DispatchersAssumption
<1>a. alerts \in Nat BY <1>t DEF TypeOK
<1> SUFFICES ASSUME key' # Nobody
             PROVE  \/ alerts' > 0
                    \/ pc'[key'] \in {"create", "publish", "cleanup"}
                    \/ key' \in stranded'
  BY DEF KeyExplained
<1>1. ASSUME NEW d \in Dispatchers, Call(d) \/ SetSkips(d)
      PROVE  alerts' > 0 \/ pc'[key'] \in {"create", "publish", "cleanup"}
               \/ key' \in stranded'
  BY <1>1, <1>t, <1>k DEF Call, SetSkips, GoTo, End, TypeOK, KeyExplained
<1>2. ASSUME NEW d \in Dispatchers, SetWins(d) \/ SetResent(d) \/ SetFails(d)
      PROVE  alerts' > 0 \/ pc'[key'] \in {"create", "publish", "cleanup"}
               \/ key' \in stranded'
  BY <1>2, <1>t, <1>k DEF SetWins, SetResent, SetFails, GoTo, TypeOK, KeyExplained
<1>3. ASSUME NEW d \in Dispatchers, Create(d) \/ CreateFails(d) \/ PublishFails(d)
      PROVE  alerts' > 0 \/ pc'[key'] \in {"create", "publish", "cleanup"}
               \/ key' \in stranded'
  BY <1>3, <1>t, <1>k, <1>a
     DEF Create, CreateFails, PublishFails, GoTo, TypeOK, KeyExplained
<1>4. ASSUME NEW d \in Dispatchers, Publish(d) PROVE alerts' > 0
  BY <1>4, <1>a DEF Publish
<1>5. ASSUME NEW d \in Dispatchers, Release(d) \/ ReleaseResent(d) PROVE FALSE
  BY <1>5 DEF Release, ReleaseResent, Delete
<1>6. ASSUME NEW d \in Dispatchers, ReleaseFails(d)
      PROVE  alerts' > 0 \/ pc'[key'] \in {"create", "publish", "cleanup"}
               \/ key' \in stranded'
  <2>1. /\ UNCHANGED <<key, alerts>> /\ pc' = [pc EXCEPT ![d] = "idle"]
        /\ stranded' = stranded \cup ({key} \cap {d})
    BY <1>6 DEF ReleaseFails, End, GoTo
  <2>2. CASE key = d BY <2>2, <2>1
  <2>3. CASE key # d BY <2>3, <2>1, <1>t, <1>k DEF TypeOK, KeyExplained
  <2> QED BY <2>2, <2>3
<1>7. ASSUME NEW D \in SUBSET Dispatchers, Crash(D)
      PROVE  alerts' > 0 \/ pc'[key'] \in {"create", "publish", "cleanup"}
               \/ key' \in stranded'
  BY <1>7, <1>t, <1>k DEF Crash, TypeOK, KeyExplained
<1>8. CASE Expire BY <1>8 DEF Expire
<1>9. CASE UNCHANGED vars BY <1>9, <1>k DEF vars, KeyExplained
<1> QED BY <1>1, <1>2, <1>3, <1>4, <1>5, <1>6, <1>7, <1>8, <1>9 DEF Next

\* alerts.ts:74-120 as the pipeline calls it: a call about to publish owns the key,
\* or a removal has been counted.
THEOREM AlertInvariant == Spec => []AlertInv
<1>1. AlertInv /\ [Next]_vars => AlertInv'
  BY TypeStep, PaidStep, RemovalsStep, ExplainedStep DEF AlertInv
<1> QED BY <1>1, InitEstablishes, PTL DEF Spec

-----------------------------------------------------------------------------
(* Every step of Pipeline is a step of AlertingSubsystem, or none.           *)

LEMMA MishapIsCrash == ASSUME TypeOK, Mishap PROVE Next
<1>1. Crash({})
  <2>1. /\ pc' = [d \in Dispatchers |-> pc[d]]
        /\ ended' = [d \in Dispatchers |-> ended[d]]
    BY DEF Mishap, TypeOK
  <2>2. stranded' = stranded \cup ({key} \cap {}) BY DEF Mishap
  <2> QED BY <2>1, <2>2 DEF Crash, Mishap
<1> QED BY <1>1 DEF Next

LEMMA PipeStepIsCallStep ==
  ASSUME TypeOK, [PipeNext]_pipeVars PROVE [Next]_vars
<1>1. ASSUME NEW d \in Dispatchers, GroupProgress(d) \/ JudgeFails(d)
             \/ DispatchStumbles(d) \/ SendToDlqFails(d)
      PROVE  Next \/ UNCHANGED vars
  <2>1. CASE JudgeFails(d) \/ SendToDlqFails(d)
    BY <2>1, MishapIsCrash DEF JudgeFails, SendToDlqFails
  <2>2. CASE Judge(d) \/ SendToDlq(d) BY <2>2 DEF Judge, SendToDlq
  <2>3. CASE Dispatch(d) \/ DispatchGoesOn(d) \/ DispatchSkips(d) \/ DispatchStumbles(d)
    BY <2>3 DEF Dispatch, DispatchGoesOn, DispatchSkips, DispatchStumbles, Next
  <2> QED BY <1>1, <2>1, <2>2, <2>3 DEF GroupProgress
<1>2. CASE RunnerProgress BY <1>2 DEF RunnerProgress, Commit, Deliver
<1>3. CASE BatchRejects \/ SessionLost
  BY <1>3, MishapIsCrash DEF BatchRejects, SessionLost
<1>4. CASE \E p \in 1..member : ProcessDies(p)
  <2>1. PICK p \in 1..member : ProcessDies(p) BY <1>4
  <2>2. PICK D \in SUBSET Dispatchers : Crash(D) BY <2>1 DEF ProcessDies
  <2> QED BY <2>2 DEF Next
<1>5. CASE Expire BY <1>5 DEF Next
<1>6. CASE UNCHANGED pipeVars BY <1>6 DEF pipeVars
<1> QED BY <1>1, <1>2, <1>3, <1>4, <1>5, <1>6 DEF PipeNext

LEMMA PipeAlertInvariant == PipeSpec => []AlertInv
<1>1. PipeInit => AlertInv BY InitEstablishes DEF PipeInit
<1>2. AlertInv /\ [PipeNext]_pipeVars => AlertInv'
  <2> SUFFICES ASSUME AlertInv, [PipeNext]_pipeVars PROVE AlertInv' OBVIOUS
  <2>1. [Next]_vars BY PipeStepIsCallStep DEF AlertInv
  <2> QED BY <2>1, TypeStep, PaidStep, RemovalsStep, ExplainedStep DEF AlertInv
<1> QED BY <1>1, <1>2, PTL DEF PipeSpec

-----------------------------------------------------------------------------
(* Where the deliveries are.                                                 *)

\* Places of a delivery that has called dispatchFlag (or was cut off).
Called == {"dispatching", "settled", "rejected", "dead"}

\* The place of a delivery agrees with its call of dispatchFlag, and what it
\* says of alerts and dead letters is true.
PlacesFit ==
  \A d \in Dispatchers :
    /\ pc[d] # "idle" => at[d] = "dispatching"
    /\ at[d] \notin Called => ended[d] = "never"
    /\ at[d] = "dispatching" /\ pc[d] = "idle" => ended[d] \in {"sent", "skipped", "threw"}
    /\ ended[d] = "sent" => alerts > 0
    /\ at[d] = "settled" => deadLettered

\* The key, and each key that made a delivery skip, is of a delivery that has
\* called dispatchFlag.
OwnersCalled ==
  /\ key # Nobody => key \in Dispatchers /\ at[key] \in Called
  /\ \A d \in Dispatchers : ended[d] = "skipped" =>
       /\ skippedFor[d] \in Dispatchers
       /\ at[skippedFor[d]] \in Called

\* Rules forget nothing: who was cleared was not the first to be judged.
ClearedSecond ==
  /\ remembered => \E e \in Dispatchers : at[e] \notin {"unborn", "judging"}
  /\ \A d \in Dispatchers : at[d] = "cleared" =>
       \E e \in Dispatchers \ {d} : at[e] # "unborn"

CommitsSettled ==
  /\ phase \in {"running", "committed"} => current \in Dispatchers
  /\ phase = "committed" => Settled(current)

PipeInv == PipeTypeOK /\ PlacesFit /\ OwnersCalled /\ ClearedSecond /\ CommitsSettled

LEMMA PipeInitInv == PipeInit => PipeInv
<1> SUFFICES ASSUME PipeInit PROVE PipeInv OBVIOUS
<1>1. TypeOK BY InitEstablishes DEF PipeInit, AlertInv
<1>2. PipeTypeOK
  <2>1. at \in [Dispatchers -> Places] /\ phase \in Phases BY DEF PipeInit, Places, Phases
  <2>2. member \in Nat \ {0} /\ host \in [Dispatchers -> Nat \ {0}] BY DEF PipeInit
  <2> QED BY <1>1, <2>1, <2>2 DEF PipeInit, PipeTypeOK
<1>3. PlacesFit /\ OwnersCalled /\ ClearedSecond /\ CommitsSettled
  BY DEF PipeInit, Init, PlacesFit, OwnersCalled, ClearedSecond, CommitsSettled, Called
<1> QED BY <1>2, <1>3 DEF PipeInv

\* A delivery moves outside of dispatchFlag.
LEMMA PutStep ==
  ASSUME PipeInv, NEW d \in Dispatchers, NEW place \in Places \ {"unborn"}, Put(d, place),
         UNCHANGED <<key, pc, ended, alerts, skippedFor>>,
         deadLettered => deadLettered',
         pc[d] = "idle", place # "dispatching",
         at[d] \in Called => place \in Called,
         place \notin Called => ended[d] = "never",
         place = "settled" => deadLettered',
         at[d] \notin {"unborn", "judging"} => place # "judging",
         remembered' => remembered \/ place # "judging",
         place = "cleared" => remembered /\ at[d] = "judging"
  PROVE  PlacesFit' /\ OwnersCalled' /\ ClearedSecond'
<1> USE DEF PipeInv
<1>t. TypeOK /\ PipeTypeOK BY DEF PipeTypeOK
<1>2. /\ at'[d] = place
      /\ \A e \in Dispatchers \ {d} : at'[e] = at[e]
  BY <1>t DEF Put, PipeTypeOK
<1>3. PlacesFit' BY <1>2 DEF PlacesFit
<1>4. \A e \in Dispatchers : at[e] \in Called => at'[e] \in Called BY <1>2
<1>5. OwnersCalled' BY <1>4 DEF OwnersCalled
<1>6. \A e \in Dispatchers : at[e] \notin {"unborn", "judging"} =>
        at'[e] \notin {"unborn", "judging"}
  BY <1>2
<1>7. \A e \in Dispatchers : at[e] # "unborn" => at'[e] # "unborn" BY <1>2
<1>8. ClearedSecond'
  <2>1. remembered' => \E e \in Dispatchers : at'[e] \notin {"unborn", "judging"}
    BY <1>2, <1>6 DEF ClearedSecond
  <2>2. ASSUME NEW e \in Dispatchers, at'[e] = "cleared"
        PROVE  \E f \in Dispatchers \ {e} : at'[f] # "unborn"
    <3>1. CASE at[e] = "cleared"
      BY <3>1, <1>7 DEF ClearedSecond
    <3>2. CASE at[e] # "cleared"
      <4>1. e = d /\ place = "cleared" BY <1>2, <2>2, <3>2
      <4>2. PICK f \in Dispatchers : at[f] \notin {"unborn", "judging"}
        BY <4>1 DEF ClearedSecond
      <4> QED BY <4>1, <4>2, <1>7
    <3> QED BY <3>1, <3>2
  <2> QED BY <2>1, <2>2 DEF ClearedSecond
<1> QED BY <1>3, <1>5, <1>8

\* A step inside dispatchFlag.
LEMMA CallStep ==
  ASSUME PipeInv, TypeOK', NEW d \in Dispatchers,
         DispatchGoesOn(d) \/ DispatchStumbles(d) \/ DispatchSkips(d)
  PROVE  PipeInv'
<1> USE DEF PipeInv
<1>t. TypeOK /\ PipeTypeOK BY DEF PipeTypeOK
<1>a. alerts \in Nat BY <1>t DEF TypeOK
<1>1. /\ UNCHANGED <<at, runner, remembered, deadLettered>>
      /\ UNCHANGED skippedFor \/ skippedFor' = [skippedFor EXCEPT ![d] = key]
  BY DEF DispatchGoesOn, DispatchStumbles, DispatchSkips, pipe
<1>r. UNCHANGED <<member, host, current, phase>> BY <1>1 DEF runner
<1>2. pc[d] # "idle" /\ alerts' >= alerts
  BY <1>a DEF DispatchGoesOn, DispatchStumbles, DispatchSkips, SetWins, Create, Publish,
         Release, SetResent, SetFails, CreateFails, PublishFails, ReleaseResent,
         ReleaseFails, SetSkips, Delete
<1>3. at[d] = "dispatching" BY <1>2 DEF PlacesFit
<1>4. PipeTypeOK'
  <2>1. key \in Dispatchers \cup {Nobody} BY <1>t DEF TypeOK
  <2>2. skippedFor' \in [Dispatchers -> Dispatchers \cup {Nobody}]
    BY <1>1, <1>t, <2>1 DEF PipeTypeOK
  <2> QED BY <1>t, <1>1, <1>r, <2>2 DEF PipeTypeOK
\* how the call goes on
<1>5. \/ /\ \E step \in PCs \ {"idle"} : pc' = [pc EXCEPT ![d] = step]
         /\ ended' = ended
      \/ /\ pc' = [pc EXCEPT ![d] = "idle"]
         /\ \E how \in {"sent", "skipped", "threw"} :
              /\ ended' = [ended EXCEPT ![d] = how]
              /\ how = "sent" => alerts' > 0
              /\ how = "skipped" => DispatchSkips(d)
      \/ UNCHANGED <<pc, ended>>
  <2>1. CASE DispatchSkips(d) BY <2>1 DEF DispatchSkips, SetSkips, End, GoTo
  <2>2. CASE DispatchGoesOn(d)
    BY <2>2, <1>a DEF DispatchGoesOn, SetWins, Create, Publish, Release, End, GoTo, PCs
  <2>3. CASE DispatchStumbles(d)
    BY <2>3 DEF DispatchStumbles, SetResent, SetFails, CreateFails, PublishFails,
       ReleaseResent, ReleaseFails, End, GoTo, PCs
  <2> QED BY <2>1, <2>2, <2>3
<1>6. PlacesFit'
  <2> SUFFICES ASSUME NEW e \in Dispatchers
      PROVE /\ pc'[e] # "idle" => at[e] = "dispatching"
            /\ at[e] \notin Called => ended'[e] = "never"
            /\ at[e] = "dispatching" /\ pc'[e] = "idle" =>
                 ended'[e] \in {"sent", "skipped", "threw"}
            /\ ended'[e] = "sent" => alerts' > 0
            /\ at[e] = "settled" => deadLettered
    BY <1>1 DEF PlacesFit
  <2>1. CASE e = d
    <3>1. at[e] \in Called /\ at[e] # "settled" BY <1>3, <2>1 DEF Called
    <3>2. ended[e] = "sent" => alerts' > 0
      <4>1. alerts' \in Nat BY DEF TypeOK
      <4> QED BY <1>2, <1>a, <4>1 DEF PlacesFit
    <3> QED BY <1>2, <1>3, <1>5, <1>t, <2>1, <3>1, <3>2 DEF TypeOK, PCs
  <2>2. CASE e # d
    <3>1. pc'[e] = pc[e] /\ ended'[e] = ended[e] BY <1>5, <1>t, <2>2 DEF TypeOK
    <3>2. ended[e] = "sent" => alerts' > 0
      <4>1. alerts' \in Nat BY DEF TypeOK
      <4> QED BY <1>2, <1>a, <4>1 DEF PlacesFit
    <3> QED BY <3>1, <3>2 DEF PlacesFit
  <2> QED BY <2>1, <2>2
<1>7. OwnersCalled'
  <2>1. key' # Nobody => key' = key \/ key' = d
    BY DEF DispatchGoesOn, DispatchStumbles, DispatchSkips, SetWins, Create, Publish,
       Release, SetResent, SetFails, CreateFails, PublishFails, ReleaseResent,
       ReleaseFails, SetSkips, Delete
  <2>2. key' # Nobody => key' \in Dispatchers /\ at'[key'] \in Called
    BY <1>1, <1>3, <2>1 DEF OwnersCalled, Called
  <2>3. ASSUME NEW e \in Dispatchers, ended'[e] = "skipped"
        PROVE  skippedFor'[e] \in Dispatchers /\ at'[skippedFor'[e]] \in Called
    <3>1. CASE DispatchSkips(d) /\ e = d
      <4>1. key # Nobody /\ skippedFor'[e] = key
        BY <3>1, <1>t DEF DispatchSkips, SetSkips, PipeTypeOK
      <4> QED BY <1>1, <4>1 DEF OwnersCalled
    <3>2. CASE ~(DispatchSkips(d) /\ e = d)
      <4>1. ended[e] = "skipped"
        <5>1. CASE e # d BY <5>1, <1>5, <1>t, <2>3 DEF TypeOK
        <5>2. CASE e = d BY <5>2, <3>2, <1>5, <1>t, <2>3 DEF TypeOK
        <5> QED BY <5>1, <5>2
      <4>2. skippedFor'[e] = skippedFor[e]
        <5>1. CASE e # d BY <5>1, <1>1, <1>t DEF PipeTypeOK
        <5>2. CASE e = d
          BY <5>2, <3>2 DEF DispatchGoesOn, DispatchStumbles, pipe
        <5> QED BY <5>1, <5>2
      <4> QED BY <1>1, <4>1, <4>2 DEF OwnersCalled
    <3> QED BY <3>1, <3>2
  <2> QED BY <2>2, <2>3 DEF OwnersCalled
<1>8. ClearedSecond' BY <1>1 DEF ClearedSecond
<1>9. CommitsSettled'
  <2>1. ASSUME phase = "committed" PROVE Settled(current)'
    <3>1. current \in Dispatchers /\ Settled(current) BY <2>1 DEF CommitsSettled
    <3>2. current # d BY <1>2, <1>3, <3>1 DEF Settled, Returned
    <3>3. pc'[current] = pc[current] /\ ended'[current] = ended[current]
      BY <1>5, <1>t, <3>1, <3>2 DEF TypeOK
    <3> QED BY <1>1, <1>r, <3>1, <3>3 DEF Settled, Returned
  <2> QED BY <1>r, <2>1 DEF CommitsSettled
<1> QED BY <1>4, <1>6, <1>7, <1>8, <1>9

\* The other steps of a group.
LEMMA GroupStep ==
  ASSUME PipeInv, TypeOK', NEW d \in Dispatchers,
         Judge(d) \/ JudgeFails(d) \/ SendToDlq(d) \/ SendToDlqFails(d)
  PROVE  PipeInv'
<1> USE DEF PipeInv
<1>t. TypeOK /\ PipeTypeOK BY DEF PipeTypeOK
<1>1. /\ UNCHANGED <<key, pc, ended, alerts, skippedFor, member, host, current>>
      /\ ~Settled(d) /\ pc[d] = "idle"
  BY DEF Judge, JudgeFails, SendToDlq, SendToDlqFails, vars, Mishap, runner, Settled,
     Returned, Threw, ToDeadLetter, PlacesFit
<1>2. /\ phase' = phase \/ (phase = "running" /\ phase' = "rejected")
      /\ phase' \in Phases
  BY <1>t DEF Judge, JudgeFails, SendToDlq, SendToDlqFails, runner, GiveUp, PipeTypeOK,
     Phases
<1>3. PICK place \in Places \ {"unborn"} :
         /\ Put(d, place)
         /\ \/ place = "flagged" /\ Judge(d)
            \/ place = "cleared" /\ remembered /\ Judge(d)
            \/ place = "failed" /\ JudgeFails(d)
            \/ place = "settled" /\ SendToDlq(d)
            \/ place = "rejected" /\ SendToDlqFails(d)
  <2>0. {"flagged", "failed", "cleared", "settled", "rejected"} \subseteq Places \ {"unborn"}
    BY DEF Places
  <2>1. Judge(d) => Put(d, "flagged") \/ (remembered /\ Put(d, "cleared")) BY DEF Judge
  <2>2. JudgeFails(d) => Put(d, "failed") BY DEF JudgeFails
  <2>3. SendToDlq(d) => Put(d, "settled") BY DEF SendToDlq
  <2>4. SendToDlqFails(d) => Put(d, "rejected") BY DEF SendToDlqFails
  <2>5. CASE Judge(d) BY <2>0, <2>1, <2>5
  <2>6. CASE JudgeFails(d) BY <2>0, <2>2, <2>6
  <2>7. CASE SendToDlq(d) BY <2>0, <2>3, <2>7
  <2>8. CASE SendToDlqFails(d) BY <2>0, <2>4, <2>8
  <2> QED BY <2>5, <2>6, <2>7, <2>8
<1>4. PipeTypeOK'
  <2>1. at' \in [Dispatchers -> Places] BY <1>3, <1>t DEF Put, PipeTypeOK
  <2>2. remembered' \in BOOLEAN /\ deadLettered' \in BOOLEAN
    BY <1>t DEF Judge, JudgeFails, SendToDlq, SendToDlqFails, PipeTypeOK
  <2> QED BY <1>1, <1>2, <1>t, <2>1, <2>2 DEF PipeTypeOK
<1>5. PlacesFit' /\ OwnersCalled' /\ ClearedSecond'
  <2>1. CASE place \in {"flagged", "cleared", "failed"}
    <3>1. /\ at[d] = "judging" /\ deadLettered' = deadLettered
      BY <1>3, <2>1 DEF Judge, JudgeFails
    <3>2. ended[d] = "never" BY <3>1 DEF PlacesFit, Called
    <3>3. place = "cleared" => remembered BY <1>3
    <3> QED BY <1>1, <1>3, <2>1, <3>1, <3>2, <3>3, PutStep DEF Called
  <2>2. CASE place \in {"settled", "rejected"}
    <3>1. /\ remembered' = remembered /\ ToDeadLetter(d)
          /\ deadLettered => deadLettered'
          /\ place = "settled" => deadLettered'
      <4>1. CASE SendToDlq(d) BY <4>1 DEF SendToDlq
      <4>2. CASE SendToDlqFails(d) /\ place = "rejected"
        <5>1. deadLettered' \in {deadLettered, TRUE} BY <4>2 DEF SendToDlqFails
        <5>2. deadLettered => deadLettered' BY <5>1, Zenon
        <5> QED BY <4>2, <5>2 DEF SendToDlqFails
      <4> QED BY <1>3, <2>2, <4>1, <4>2
    <3>2. at[d] \notin {"unborn", "judging"} BY <3>1 DEF ToDeadLetter, Threw
    <3> QED BY <1>1, <1>3, <2>2, <3>1, <3>2, PutStep DEF Called
  <2> QED BY <1>3, <2>1, <2>2
<1>6. CommitsSettled'
  <2>1. ASSUME phase' = "committed" PROVE Settled(current)'
    <3>1. current \in Dispatchers /\ Settled(current)
      BY <2>1, <1>2 DEF CommitsSettled
    <3>2. at'[current] = at[current] BY <1>1, <1>3, <1>t, <3>1 DEF Put, PipeTypeOK
    <3> QED BY <1>1, <3>1, <3>2 DEF Settled, Returned
  <2> QED BY <1>1, <1>2, <2>1 DEF CommitsSettled
<1> QED BY <1>4, <1>5, <1>6

LEMMA DispatchStep ==
  ASSUME PipeInv, TypeOK', NEW d \in Dispatchers, Dispatch(d) PROVE PipeInv'
<1> USE DEF PipeInv
<1>t. TypeOK /\ PipeTypeOK BY DEF PipeTypeOK
<1>1. /\ at[d] = "flagged" /\ at' = [at EXCEPT ![d] = "dispatching"]
      /\ pc' = [pc EXCEPT ![d] = "set"]
      /\ UNCHANGED <<key, ended, alerts, member, host, current, phase, remembered,
                     skippedFor, deadLettered>>
  BY DEF Dispatch, Put, Call, GoTo, runner
<1>2. PipeTypeOK' BY <1>1, <1>t DEF PipeTypeOK, Places
<1>3. PlacesFit'
  BY <1>1, <1>t DEF PlacesFit, PipeTypeOK, TypeOK, Called
<1>4. OwnersCalled' BY <1>1, <1>t DEF OwnersCalled, PipeTypeOK, Called
<1>5. ClearedSecond' BY <1>1, <1>t DEF ClearedSecond, PipeTypeOK
<1>6. CommitsSettled'
  BY <1>1, <1>t DEF CommitsSettled, PipeTypeOK, TypeOK, Settled, Returned
<1> QED BY <1>2, <1>3, <1>4, <1>5, <1>6

\* The runner hands out, commits or gives up a delivery.
LEMMA DeliverStep ==
  ASSUME PipeInv, TypeOK', NEW d \in Dispatchers, Deliver(d) PROVE PipeInv'
<1> USE DEF PipeInv
<1>t. TypeOK /\ PipeTypeOK BY DEF PipeTypeOK
<1>1. /\ at[d] = "unborn" /\ Put(d, "judging") /\ current' = d /\ phase' = "running"
      /\ host' = [host EXCEPT ![d] = member]
      /\ UNCHANGED <<key, pc, ended, alerts, member, remembered, skippedFor, deadLettered>>
  BY DEF Deliver, vars
<1>2. ended[d] = "never" /\ pc[d] = "idle" BY <1>1 DEF PlacesFit, Called
<1>3. PlacesFit' /\ OwnersCalled' /\ ClearedSecond'
  BY <1>1, <1>2, PutStep DEF Places, Called
<1>4. PipeTypeOK' BY <1>1, <1>t DEF PipeTypeOK, Put, Places, Phases
<1>5. CommitsSettled' BY <1>1 DEF CommitsSettled
<1> QED BY <1>3, <1>4, <1>5

LEMMA RunnerStep ==
  ASSUME PipeInv, TypeOK', Commit \/ BatchRejects \/ SessionLost PROVE PipeInv'
<1> USE DEF PipeInv
<1>t. TypeOK /\ PipeTypeOK BY DEF PipeTypeOK
<1>1. /\ UNCHANGED <<key, pc, ended, alerts, at, host, current, remembered, skippedFor,
                     deadLettered>>
      /\ member' \in {member, member + 1}
      /\ phase = "running" /\ phase' \in {"committed", "rejected", "fetching"}
      /\ phase' = "committed" => Settled(current)
  BY DEF Commit, BatchRejects, SessionLost, Mishap, vars, GiveUp
<1>2. PipeTypeOK' BY <1>1, <1>t DEF PipeTypeOK, Phases
<1>3. PlacesFit' /\ OwnersCalled' /\ ClearedSecond'
  BY <1>1 DEF PlacesFit, OwnersCalled, ClearedSecond
<1>4. CommitsSettled' BY <1>1 DEF CommitsSettled, Settled, Returned
<1> QED BY <1>2, <1>3, <1>4

LEMMA ProcessDiesStep ==
  ASSUME PipeInv, TypeOK', NEW p \in 1..member, ProcessDies(p) PROVE PipeInv'
<1> USE DEF PipeInv
<1>t. TypeOK /\ PipeTypeOK BY DEF PipeTypeOK
<1> DEFINE cut == {d \in Dispatchers : host[d] = p /\ Working(d)}
<1>1. /\ UNCHANGED <<key, alerts, host, current, remembered, skippedFor, deadLettered>>
      /\ at' = [d \in Dispatchers |-> IF d \in cut THEN "dead" ELSE at[d]]
      /\ pc' = [d \in Dispatchers |-> IF d \in cut /\ pc[d] # "idle" THEN "idle" ELSE pc[d]]
      /\ ended' = [d \in Dispatchers |->
                     IF d \in cut /\ pc[d] # "idle" THEN "crashed" ELSE ended[d]]
      /\ member' \in {member, member + 1}
      /\ phase' = phase \/ phase' = "fetching"
  BY DEF ProcessDies, Crash, GiveUp
<1>2. PipeTypeOK'
  <2>1. at' \in [Dispatchers -> Places] BY <1>1, <1>t DEF PipeTypeOK, Places
  <2> QED BY <1>1, <1>t, <2>1 DEF PipeTypeOK, Phases
<1>3. PlacesFit'
  <2> SUFFICES ASSUME NEW e \in Dispatchers
      PROVE /\ pc'[e] # "idle" => at'[e] = "dispatching"
            /\ at'[e] \notin Called => ended'[e] = "never"
            /\ at'[e] = "dispatching" /\ pc'[e] = "idle" =>
                 ended'[e] \in {"sent", "skipped", "threw"}
            /\ ended'[e] = "sent" => alerts > 0
            /\ at'[e] = "settled" => deadLettered
    BY <1>1 DEF PlacesFit
  <2>1. CASE e \in cut
    <3>1. at'[e] = "dead" /\ pc'[e] = "idle" /\ ended'[e] \in {"crashed", ended[e]}
      BY <1>1, <2>1
    <3> QED BY <3>1 DEF PlacesFit, Called
  <2>2. CASE e \notin cut
    <3>1. at'[e] = at[e] /\ pc'[e] = pc[e] /\ ended'[e] = ended[e] BY <1>1, <2>2
    <3> QED BY <3>1 DEF PlacesFit
  <2> QED BY <2>1, <2>2
<1>4. \A e \in Dispatchers : at[e] \in Called => at'[e] \in Called BY <1>1 DEF Called
<1>5. OwnersCalled'
  <2>1. \A e \in Dispatchers : ended'[e] = "skipped" => ended[e] = "skipped" BY <1>1
  <2> QED BY <1>1, <1>4, <2>1 DEF OwnersCalled
<1>6. ClearedSecond'
  <2>1. \A e \in Dispatchers : at[e] # "unborn" => at'[e] # "unborn" BY <1>1
  <2>2. \A e \in Dispatchers : at[e] \notin {"unborn", "judging"} =>
          at'[e] \notin {"unborn", "judging"}
    BY <1>1
  <2>3. \A e \in Dispatchers : at'[e] = "cleared" => at[e] = "cleared" BY <1>1
  <2> QED BY <1>1, <2>1, <2>2, <2>3 DEF ClearedSecond
<1>7. CommitsSettled'
  <2>1. ASSUME phase' = "committed" PROVE Settled(current)'
    <3>1. current \in Dispatchers /\ Settled(current) BY <2>1, <1>1 DEF CommitsSettled
    <3>2. current \notin cut BY <3>1 DEF Working
    <3>3. at'[current] = at[current] /\ pc'[current] = pc[current]
            /\ ended'[current] = ended[current]
      BY <1>1, <3>1, <3>2
    <3> QED BY <1>1, <3>1, <3>3 DEF Settled, Returned
  <2> QED BY <1>1, <2>1 DEF CommitsSettled
<1> QED BY <1>2, <1>3, <1>5, <1>6, <1>7

LEMMA PipeInvariant == PipeSpec => []PipeInv
<1>1. AlertInv /\ AlertInv' /\ PipeInv /\ [PipeNext]_pipeVars => PipeInv'
  <2> SUFFICES ASSUME TypeOK, TypeOK', PipeInv, [PipeNext]_pipeVars PROVE PipeInv'
    BY DEF AlertInv
  <2>1. CASE UNCHANGED pipeVars \/ (Expire /\ UNCHANGED pipe)
    <3>1. /\ UNCHANGED <<pc, ended, alerts, at, member, host, current, phase, remembered,
                         skippedFor, deadLettered>>
          /\ key' \in {key, Nobody}
      BY <2>1 DEF pipeVars, pipe, runner, vars, Expire
    <3> QED BY <3>1 DEF PipeInv, PipeTypeOK, PlacesFit, OwnersCalled, ClearedSecond,
                        CommitsSettled, Settled, Returned
  <2>2. ASSUME NEW d \in Dispatchers, GroupProgress(d) \/ JudgeFails(d)
               \/ DispatchStumbles(d) \/ SendToDlqFails(d)
        PROVE  PipeInv'
    BY <2>2, GroupStep, CallStep, DispatchStep DEF GroupProgress
  <2>3. CASE RunnerProgress \/ BatchRejects \/ SessionLost
    BY <2>3, DeliverStep, RunnerStep DEF RunnerProgress
  <2>4. CASE \E p \in 1..member : ProcessDies(p) BY <2>4, ProcessDiesStep
  <2> QED BY <2>1, <2>2, <2>3, <2>4 DEF PipeNext
<1> QED BY <1>1, PipeInitInv, PipeAlertInvariant, PTL DEF PipeSpec

-----------------------------------------------------------------------------
(* Nothing fails.                                                            *)

\* There is one delivery, which nobody has seen before it, and its call finds no key.
Smooth ==
  /\ ~deadLettered
  /\ \A d \in Dispatchers \ {current} : at[d] = "unborn"
  /\ phase # "rejected" /\ (phase = "fetching" => current = Nobody)
  /\ current = Nobody => ~remembered /\ key = Nobody /\ alerts = 0
  /\ current # Nobody =>
       \/ /\ at[current] = "judging" /\ ~remembered /\ key = Nobody /\ alerts = 0
       \/ /\ at[current] = "flagged" /\ key = Nobody /\ alerts = 0
       \/ /\ at[current] = "dispatching" /\ pc[current] = "set"
          /\ key = Nobody /\ alerts = 0
       \/ /\ at[current] = "dispatching" /\ pc[current] \in {"create", "publish"}
          /\ alerts = 0
       \/ /\ at[current] = "dispatching" /\ pc[current] = "idle"
          /\ ended[current] = "sent" /\ alerts = 1

\* A step that is no failure is one of these.
LEMMA FaultlessSteps ==
  ASSUME TypeOK, [PipeNext]_pipeVars, faults' = 0
  PROVE  /\ faults = 0
         /\ \/ \E d \in Dispatchers : GroupProgress(d)
            \/ RunnerProgress
            \/ UNCHANGED pipeVars
<1>a. faults \in Nat BY FaultsAssumption DEF TypeOK
<1>1. ~Fault BY <1>a DEF Fault
<1>2. ASSUME NEW d \in Dispatchers
      PROVE  ~(JudgeFails(d) \/ DispatchStumbles(d) \/ SendToDlqFails(d))
  BY <1>1 DEF JudgeFails, DispatchStumbles, SendToDlqFails, Mishap, SetResent, SetFails,
     CreateFails, PublishFails, ReleaseResent, ReleaseFails
<1>3. ~(BatchRejects \/ SessionLost \/ Expire) /\ \A p \in 1..member : ~ProcessDies(p)
  BY <1>1 DEF BatchRejects, SessionLost, Expire, Mishap, ProcessDies, Crash
<1>4. \/ \E d \in Dispatchers : GroupProgress(d)
      \/ RunnerProgress
      \/ UNCHANGED pipeVars
  BY <1>2, <1>3 DEF PipeNext
<1>5. faults' = faults
  BY <1>4 DEF GroupProgress, Judge, Dispatch, DispatchGoesOn, DispatchSkips, SendToDlq, Call,
     SetWins, SetSkips, Create, Publish, Release, RunnerProgress, Commit, Deliver, pipeVars, vars
<1> QED BY <1>4, <1>5

LEMMA SmoothStep ==
  ASSUME PipeInv, faults = 0 => Smooth, [PipeNext]_pipeVars, faults' = 0
  PROVE  Smooth'
<1>t. TypeOK /\ PipeTypeOK BY DEF PipeInv, PipeTypeOK
<1>n. Nobody \notin Dispatchers BY DispatchersAssumption
<1>s. Smooth BY <1>t, FaultlessSteps
<1>f. PlacesFit BY DEF PipeInv
<1>1. ASSUME NEW d \in Dispatchers, GroupProgress(d) PROVE Smooth'
  <2>0. at[d] # "unborn"
    BY <1>1, <1>f DEF GroupProgress, Judge, Dispatch, DispatchGoesOn, DispatchSkips, SendToDlq,
       ToDeadLetter, Threw, SetWins, SetSkips, Create, Publish, Release, PlacesFit
  <2>1. d = current BY <2>0, <1>s DEF Smooth
  <2>2. current' = current /\ phase' = phase /\ current # Nobody
    BY <1>1, <2>1, <1>n DEF GroupProgress, Judge, Dispatch, DispatchGoesOn, DispatchSkips,
       SendToDlq, pipe, runner
  <2>3. CASE Judge(d)
    <3>1. /\ at[d] = "judging" /\ ~remembered /\ Put(d, "flagged")
          /\ UNCHANGED <<key, alerts, deadLettered>>
      BY <2>1, <2>3, <1>s DEF Judge, Smooth, vars
    <3>2. at'[d] = "flagged" /\ \A e \in Dispatchers \ {d} : at'[e] = at[e]
      BY <3>1, <1>t DEF Put, PipeTypeOK
    <3> QED BY <2>1, <2>2, <3>1, <3>2, <1>s DEF Smooth
  <2>4. CASE Dispatch(d)
    <3>1. /\ at[d] = "flagged" /\ Put(d, "dispatching") /\ GoTo(d, "set")
          /\ UNCHANGED <<key, alerts, deadLettered>>
      BY <2>4 DEF Dispatch, Call
    <3>2. /\ at'[d] = "dispatching" /\ pc'[d] = "set"
          /\ \A e \in Dispatchers \ {d} : at'[e] = at[e]
      BY <3>1, <1>t DEF Put, GoTo, PipeTypeOK, TypeOK
    <3> QED BY <2>1, <2>2, <3>1, <3>2, <1>s DEF Smooth
  <2>5. CASE DispatchGoesOn(d)
    <3>1. UNCHANGED <<at, deadLettered>> BY <2>5 DEF DispatchGoesOn, pipe
    <3>2. ~Release(d) BY <2>1, <2>2, <1>s, <1>f DEF Release, Smooth, PlacesFit
    <3>3. CASE SetWins(d)
      <4>1. pc'[d] = "create" /\ alerts' = alerts /\ pc[d] = "set"
        BY <3>3, <1>t DEF SetWins, GoTo, TypeOK
      <4> QED BY <2>1, <2>2, <3>1, <4>1, <1>s, <1>f DEF Smooth, PlacesFit
    <3>4. CASE Create(d)
      <4>1. pc'[d] = "publish" /\ alerts' = alerts /\ pc[d] = "create"
        BY <3>4, <1>t DEF Create, GoTo, TypeOK
      <4> QED BY <2>1, <2>2, <3>1, <4>1, <1>s, <1>f DEF Smooth, PlacesFit
    <3>5. CASE Publish(d)
      <4>1. pc'[d] = "idle" /\ ended'[d] = "sent" /\ alerts' = alerts + 1 /\ pc[d] = "publish"
        BY <3>5, <1>t DEF Publish, End, GoTo, TypeOK
      <4> QED BY <2>1, <2>2, <3>1, <4>1, <1>s, <1>f DEF Smooth, PlacesFit
    <3> QED BY <2>5, <3>2, <3>3, <3>4, <3>5 DEF DispatchGoesOn
  <2>6. ~DispatchSkips(d)
    BY <2>1, <1>s, <1>f DEF DispatchSkips, SetSkips, Smooth, PlacesFit
  <2>7. ~SendToDlq(d)
    BY <2>1, <2>2, <1>s DEF SendToDlq, ToDeadLetter, Threw, Smooth
  <2> QED BY <1>1, <2>3, <2>4, <2>5, <2>6, <2>7 DEF GroupProgress
<1>2. ASSUME NEW d \in Dispatchers, Deliver(d) PROVE Smooth'
  <2>1. current = Nobody /\ Put(d, "judging") /\ current' = d /\ phase' = "running"
    BY <1>2, <1>s DEF Deliver, Smooth
  <2>2. at'[d] = "judging" /\ \A e \in Dispatchers \ {d} : at'[e] = at[e]
    BY <2>1, <1>t DEF Put, PipeTypeOK
  <2>3. UNCHANGED <<key, alerts, remembered, deadLettered>> BY <1>2 DEF Deliver, vars
  <2> QED BY <2>1, <2>2, <2>3, <1>s, <1>n DEF Smooth
<1>3. CASE Commit BY <1>3, <1>s DEF Commit, Smooth, vars
<1>4. CASE UNCHANGED pipeVars
  BY <1>4, <1>s DEF pipeVars, pipe, vars, runner, Smooth
<1> QED BY <1>1, <1>2, <1>3, <1>4, <1>t, FaultlessSteps DEF RunnerProgress

SmoothAtFirst == faults = 0 => Smooth

LEMMA SmoothInvariant == PipeSpec => []SmoothAtFirst
<1>1. PipeInit => SmoothAtFirst BY DEF PipeInit, Init, Smooth, SmoothAtFirst
<1>2. PipeInv /\ SmoothAtFirst /\ [PipeNext]_pipeVars => SmoothAtFirst'
  BY SmoothStep DEF SmoothAtFirst
<1> QED BY <1>1, <1>2, PipeInvariant, PTL DEF PipeSpec

-----------------------------------------------------------------------------
\* Deliveries, their processes and their calls keep their types.
THEOREM PipeTypeCorrect == PipeSpec => []PipeTypeOK
BY PipeInvariant, PTL DEF PipeInv

\* alerts.ts:74-120, for deliveries that overlap as those of Pipeline do: an alert
\* is sent again only after a removal of the key by the TTL or a catch block, and
\* every such removal takes a failure: k failures leave at most k + 1 alerts.
THEOREM PipeDuplicatesAccounted == PipeSpec => []DuplicatesAccounted
<1>1. AlertInv => DuplicatesAccounted
  <2> SUFFICES ASSUME AlertInv PROVE breaches <= faults
    BY DEF AlertInv, PublishersPaid, AlertsPaid, DuplicatesAccounted
  <2>1. Cardinality(Cleaners) \in Nat
    BY DispatchersAssumption, FS_Subset, FS_CardinalityType DEF Cleaners
  <2>2. breaches \in Nat /\ faults \in Nat BY FaultsAssumption DEF AlertInv, TypeOK
  <2> QED BY <2>1, <2>2 DEF AlertInv, RemovalsPaid
<1> QED BY <1>1, PipeAlertInvariant, PTL

\* The key of dispatchFlag blocks a redelivery only for the reasons listed.
THEOREM PipeKeyExplained == PipeSpec => []KeyExplained
<1>1. AlertInv => KeyExplained BY DEF AlertInv
<1> QED BY <1>1, PipeAlertInvariant, PTL

\* alerts.ts:76 within consumer.ts:81-160: an offset is committed on the strength of
\* another delivery's key only while that delivery is at work on the alert, has
\* sent it, or was killed, rejected or refused by its own key; while nothing fails it
\* is alerted once and never dead-lettered.
THEOREM PipeCommitExplained == PipeSpec => []CommitExplained
<1>0. ASSUME PipeInv, SmoothAtFirst, phase = "committed", faults = 0
      PROVE  alerts = 1 /\ ~deadLettered
  <2>1. current \in Dispatchers /\ Settled(current) BY <1>0 DEF PipeInv, CommitsSettled
  <2>2. current # Nobody BY <2>1, DispatchersAssumption
  <2> QED BY <1>0, <2>1, <2>2 DEF SmoothAtFirst, Smooth, Settled, Returned
<1>1. PipeInv /\ SmoothAtFirst => CommitExplained
  <2> SUFFICES ASSUME PipeInv, phase = "committed", ~Answered
               PROVE  \/ at[current] = "cleared"
                           /\ \E d \in Dispatchers \ {current} : at[d] # "unborn"
                      \/ skippedFor[current] # Nobody /\ ended[current] = "skipped"
                           /\ (Working(skippedFor[current]) \/ Unlucky(skippedFor[current]))
    BY <1>0 DEF CommitExplained
  <2> USE DEF PipeInv
  <2>1. current \in Dispatchers /\ Settled(current) BY DEF CommitsSettled
  <2>2. \A d \in Dispatchers : at[d] # "settled" /\ ended[d] # "sent"
    BY DEF PlacesFit, Answered
  <2>3. CASE at[current] = "cleared" BY <2>1, <2>3 DEF ClearedSecond
  <2>4. CASE at[current] # "cleared"
    <3>1. ended[current] = "skipped" BY <2>1, <2>2, <2>4 DEF Settled, Returned
    <3>2. PICK o \in Dispatchers : o = skippedFor[current] /\ at[o] \in Called
      BY <2>1, <3>1 DEF OwnersCalled
    <3>3. o # Nobody BY DispatchersAssumption
    <3>4. Working(o) \/ Unlucky(o)
      BY <2>2, <3>2 DEF Working, Unlucky, Called, Settled, Returned
    <3> QED BY <3>1, <3>2, <3>3, <3>4
  <2> QED BY <2>3, <2>4
<1> QED BY <1>1, PipeInvariant, SmoothInvariant, PTL

\* Seen from dispatchFlag, consumer and engine only make the calls, mishaps and
\* deaths that AlertingSubsystem foresees: the pipeline implements it.
THEOREM PipeImplementsAlerting == PipeSpec => Spec
<1>1. PipeInit => Init BY DEF PipeInit
<1>2. AlertInv /\ [PipeNext]_pipeVars => [Next]_vars BY PipeStepIsCallStep DEF AlertInv
<1> QED BY <1>1, <1>2, PipeAlertInvariant, PTL DEF PipeSpec, Spec

-----------------------------------------------------------------------------
(* Every delivery ends, when its promises settle.                            *)

\* WF_pipeVars(GroupProgress(d)), with Working(d) in the place of ENABLED: a delivery
\* at work waits for nobody.
GroupDue(d) == []<>~Working(d) \/ []<><<GroupProgress(d)>>_pipeVars

\* What a delivery at work still has before it.
CallRank ==
  [p \in PCs |-> CASE p = "set"     -> 5
                   [] p = "create"  -> 4
                   [] p = "publish" -> 3
                   [] p = "cleanup" -> 2
                   [] p = "idle"    -> 1]

Rank(d) == IF at[d] = "judging" THEN 7
           ELSE IF at[d] = "flagged" THEN 6
           ELSE IF at[d] = "dispatching" THEN CallRank[pc[d]] ELSE 1

Still(d) == at'[d] = at[d] /\ pc'[d] = pc[d] /\ ended'[d] = ended[d]

LEMMA CallRanks ==
  /\ CallRank["set"] = 5 /\ CallRank["create"] = 4 /\ CallRank["publish"] = 3
  /\ CallRank["cleanup"] = 2 /\ CallRank["idle"] = 1
  /\ \A p \in PCs : CallRank[p] \in 1..5
BY DEF CallRank, PCs

LEMMA RankRange ==
  ASSUME TypeOK, NEW d \in Dispatchers PROVE Rank(d) \in 1..7
BY CallRanks DEF TypeOK, Rank

\* A step of its own group brings a delivery forward.
LEMMA ProgressForward ==
  ASSUME PipeInv, NEW d \in Dispatchers, Working(d), GroupProgress(d)
  PROVE  Rank(d)' < Rank(d) \/ ~Working(d)'
<1>t. at \in [Dispatchers -> Places] /\ pc \in [Dispatchers -> PCs]
        /\ ended \in [Dispatchers -> Endings]
  BY DEF PipeInv, PipeTypeOK, TypeOK
<1>f. PlacesFit BY DEF PipeInv
<1>1. CASE Judge(d)
  <2>1. at[d] = "judging" /\ at'[d] \in {"flagged", "cleared"}
    BY <1>1, <1>t DEF Judge, Put
  <2> QED BY <2>1 DEF Rank, Working
<1>2. CASE Dispatch(d)
  <2>1. at[d] = "flagged" /\ at'[d] = "dispatching" /\ pc'[d] = "set"
    BY <1>2, <1>t DEF Dispatch, Put, Call, GoTo
  <2> QED BY <2>1, CallRanks DEF Rank
<1>3. CASE SendToDlq(d)
  <2>1. at'[d] = "settled" BY <1>3, <1>t DEF SendToDlq, Put
  <2> QED BY <2>1 DEF Working
<1>4. CASE DispatchGoesOn(d) \/ DispatchSkips(d)
  <2>1. pc[d] # "idle" /\ at' = at
    BY <1>4 DEF DispatchGoesOn, DispatchSkips, SetWins, Create, Publish, Release, SetSkips, pipe
  <2>2. at[d] = "dispatching" /\ at'[d] = "dispatching" BY <2>1, <1>f DEF PlacesFit
  <2>3. CASE SetWins(d)
    <3>1. pc[d] = "set" /\ pc'[d] = "create" BY <2>3, <1>t DEF SetWins, GoTo
    <3> QED BY <2>2, <3>1, CallRanks DEF Rank
  <2>4. CASE Create(d)
    <3>1. pc[d] = "create" /\ pc'[d] = "publish" BY <2>4, <1>t DEF Create, GoTo
    <3> QED BY <2>2, <3>1, CallRanks DEF Rank
  <2>5. CASE Release(d)
    <3>1. pc[d] = "cleanup" /\ pc'[d] = "idle" BY <2>5, <1>t DEF Release, End, GoTo
    <3> QED BY <2>2, <3>1, CallRanks DEF Rank
  <2>6. CASE Publish(d) \/ SetSkips(d)
    <3>1. pc'[d] = "idle" /\ ended'[d] \in {"sent", "skipped"}
      BY <2>6, <1>t DEF Publish, SetSkips, End, GoTo
    <3> QED BY <2>2, <3>1 DEF Working, Settled, Returned
  <2> QED BY <1>4, <2>3, <2>4, <2>5, <2>6 DEF DispatchGoesOn, DispatchSkips
<1> QED BY <1>1, <1>2, <1>3, <1>4 DEF GroupProgress

\* A failure of its own does not hold it back.
LEMMA FailureForward ==
  ASSUME PipeInv, NEW d \in Dispatchers, Working(d),
         JudgeFails(d) \/ DispatchStumbles(d) \/ SendToDlqFails(d)
  PROVE  Rank(d)' < Rank(d) \/ ~Working(d)' \/ Still(d)
<1>t. at \in [Dispatchers -> Places] /\ pc \in [Dispatchers -> PCs]
        /\ ended \in [Dispatchers -> Endings]
  BY DEF PipeInv, PipeTypeOK, TypeOK
<1>f. PlacesFit BY DEF PipeInv
<1>1. CASE JudgeFails(d)
  <2>1. at[d] = "judging" /\ at'[d] = "failed" BY <1>1, <1>t DEF JudgeFails, Put
  <2> QED BY <2>1 DEF Rank
<1>2. CASE SendToDlqFails(d)
  <2>1. at'[d] = "rejected" BY <1>2, <1>t DEF SendToDlqFails, Put
  <2> QED BY <2>1 DEF Working
<1>3. CASE DispatchStumbles(d)
  <2>1. pc[d] # "idle" /\ at' = at
    BY <1>3 DEF DispatchStumbles, SetResent, SetFails, CreateFails, PublishFails,
       ReleaseResent, ReleaseFails, pipe
  <2>2. at[d] = "dispatching" /\ at'[d] = "dispatching" BY <2>1, <1>f DEF PlacesFit
  <2>3. CASE SetFails(d) \/ CreateFails(d) \/ PublishFails(d)
    <3>1. pc[d] \in {"set", "create", "publish"} /\ pc'[d] = "cleanup"
      BY <2>3, <1>t DEF SetFails, CreateFails, PublishFails, GoTo
    <3> QED BY <2>2, <3>1, CallRanks DEF Rank
  <2>4. CASE ReleaseFails(d)
    <3>1. pc[d] = "cleanup" /\ pc'[d] = "idle" BY <2>4, <1>t DEF ReleaseFails, End, GoTo
    <3> QED BY <2>2, <3>1, CallRanks DEF Rank
  <2>5. CASE SetResent(d) \/ ReleaseResent(d)
    BY <2>1, <2>5 DEF SetResent, ReleaseResent, Still
  <2> QED BY <1>3, <2>3, <2>4, <2>5 DEF DispatchStumbles
<1> QED BY <1>1, <1>2, <1>3

\* No other step holds it back.
LEMMA StepForward ==
  ASSUME PipeInv, NEW d \in Dispatchers, Working(d), [PipeNext]_pipeVars
  PROVE  Rank(d)' < Rank(d) \/ ~Working(d)' \/ Still(d)
<1>t. at \in [Dispatchers -> Places] /\ pc \in [Dispatchers -> PCs]
        /\ ended \in [Dispatchers -> Endings]
  BY DEF PipeInv, PipeTypeOK, TypeOK
<1>1. ASSUME NEW e \in Dispatchers, GroupProgress(e) \/ JudgeFails(e)
             \/ DispatchStumbles(e) \/ SendToDlqFails(e)
      PROVE  Rank(d)' < Rank(d) \/ ~Working(d)' \/ Still(d)
  <2>1. CASE e = d BY <1>1, <2>1, ProgressForward, FailureForward
  <2>2. CASE e # d
    BY <1>1, <2>2, <1>t DEF GroupProgress, Judge, JudgeFails, Dispatch, DispatchGoesOn,
       DispatchStumbles, DispatchSkips, SendToDlq, SendToDlqFails, Mishap, Put, Call, SetWins,
       SetSkips, SetResent, SetFails, Create, CreateFails, Publish, PublishFails, Release,
       ReleaseResent, ReleaseFails, End, GoTo, vars, pipe, Still
  <2> QED BY <2>1, <2>2
<1>2. ASSUME NEW e \in Dispatchers, Deliver(e) PROVE Still(d)
  <2>1. e # d BY <1>2 DEF Deliver, Working
  <2> QED BY <1>2, <2>1, <1>t DEF Deliver, Put, vars, Still
<1>3. CASE Commit \/ BatchRejects \/ SessionLost
  BY <1>3 DEF Commit, BatchRejects, SessionLost, Mishap, vars, Still
<1>4. ASSUME NEW p \in 1..member, ProcessDies(p) PROVE ~Working(d)' \/ Still(d)
  <2> DEFINE cut == {e \in Dispatchers : host[e] = p /\ Working(e)}
  <2>1. /\ at' = [e \in Dispatchers |-> IF e \in cut THEN "dead" ELSE at[e]]
        /\ pc' = [e \in Dispatchers |-> IF e \in cut /\ pc[e] # "idle" THEN "idle" ELSE pc[e]]
        /\ ended' = [e \in Dispatchers |->
                       IF e \in cut /\ pc[e] # "idle" THEN "crashed" ELSE ended[e]]
    BY <1>4 DEF ProcessDies, Crash
  <2>2. CASE d \in cut
    <3>1. at'[d] = "dead" BY <2>1, <2>2
    <3> QED BY <3>1 DEF Working
  <2>3. CASE d \notin cut BY <2>1, <2>3 DEF Still
  <2> QED BY <2>2, <2>3
<1>5. CASE UNCHANGED pipeVars \/ (Expire /\ UNCHANGED pipe)
  BY <1>5 DEF pipeVars, pipe, vars, Expire, Still
<1> QED BY <1>1, <1>2, <1>3, <1>4, <1>5 DEF PipeNext, RunnerProgress

\* A delivery at work with no more than n before it.
Near(d, n) == Working(d) /\ Rank(d) <= n

LEMMA NextRankRange ==
  ASSUME TypeOK', NEW d \in Dispatchers PROVE Rank(d)' \in 1..7
BY CallRanks DEF TypeOK, Rank

LEMMA StaysNear ==
  ASSUME NEW d \in Dispatchers, NEW n \in 1..7,
         PipeInv, PipeInv', Near(d, n), [PipeNext]_pipeVars
  PROVE  Near(d, n)' \/ ~Working(d)'
<1> SUFFICES ASSUME Working(d)' PROVE Near(d, n)'
  OBVIOUS
<1>1. Rank(d)' < Rank(d) \/ Still(d) BY StepForward DEF Near
<1>2. Still(d) => Rank(d)' = Rank(d) BY DEF Still, Rank
<1>3. Rank(d) \in 1..7 /\ Rank(d)' \in 1..7
  BY RankRange, NextRankRange DEF PipeInv, PipeTypeOK
<1> QED BY <1>1, <1>2, <1>3 DEF Near

LEMMA GroupComesNearer ==
  ASSUME NEW d \in Dispatchers, NEW n \in 1..7,
         PipeInv, PipeInv', Near(d, n), GroupProgress(d)
  PROVE  Near(d, n - 1)' \/ ~Working(d)'
<1> SUFFICES ASSUME Working(d)' PROVE Near(d, n - 1)'
  OBVIOUS
<1>1. Rank(d)' < Rank(d) BY ProgressForward DEF Near
<1>2. Rank(d) \in 1..7 /\ Rank(d)' \in 1..7
  BY RankRange, NextRankRange DEF PipeInv, PipeTypeOK
<1> QED BY <1>1, <1>2 DEF Near

\* While n is before it every step leaves it at n or nearer, one of its group at m.
Nearer(d, n, m) ==
  PipeInv /\ PipeInv' /\ Near(d, n) =>
    /\ [PipeNext]_pipeVars => Near(d, n)' \/ ~Working(d)'
    /\ <<GroupProgress(d)>>_pipeVars => Near(d, m)' \/ ~Working(d)'

LEMMA ComesNearer ==
  ASSUME NEW d \in Dispatchers, NEW n \in 1..7, NEW m, m = n - 1
  PROVE  Nearer(d, n, m)
BY StaysNear, GroupComesNearer DEF Nearer

\* consumer.ts:81-147 around engine.ts and alerts.ts:74-120: whatever the runner, the
\* other deliveries and the faults do, a delivery whose promises settle comes to its
\* end: no retry, catch block or dead letter brings it back to where it was.
THEOREM DeliveryEnds ==
  ASSUME NEW CONSTANT d \in Dispatchers
  PROVE  PipeSpec /\ GroupDue(d) => (Working(d) ~> ~Working(d))
<1>1. Nearer(d, 1, 0) BY ComesNearer
<1>2. Nearer(d, 2, 1) BY ComesNearer
<1>3. Nearer(d, 3, 2) BY ComesNearer
<1>4. Nearer(d, 4, 3) BY ComesNearer
<1>5. Nearer(d, 5, 4) BY ComesNearer
<1>6. Nearer(d, 6, 5) BY ComesNearer
<1>7. Nearer(d, 7, 6) BY ComesNearer
<1>8. PipeInv => ~Near(d, 0)
  BY RankRange DEF Near, PipeInv, PipeTypeOK
<1>9. PipeInv /\ Working(d) => Near(d, 7)
  BY RankRange DEF Near, PipeInv, PipeTypeOK
<1> DEFINE G == PipeSpec /\ GroupDue(d)
<1>10. G => (Near(d, 1) ~> ~Working(d))
  <2>1. Near(d, 1) => Working(d) BY DEF Near
  <2> QED BY <1>1, <1>8, <2>1, PipeInvariant, PTL DEF PipeSpec, GroupDue, Nearer
<1>11. G => (Near(d, 3) ~> ~Working(d))
  <2>1. (Near(d, 2) => Working(d)) /\ (Near(d, 3) => Working(d)) BY DEF Near
  <2> QED BY <1>2, <1>3, <1>10, <2>1, PipeInvariant, PTL DEF PipeSpec, GroupDue, Nearer
<1>12. G => (Near(d, 5) ~> ~Working(d))
  <2>1. (Near(d, 4) => Working(d)) /\ (Near(d, 5) => Working(d)) BY DEF Near
  <2> QED BY <1>4, <1>5, <1>11, <2>1, PipeInvariant, PTL DEF PipeSpec, GroupDue, Nearer
<1>13. G => (Near(d, 7) ~> ~Working(d))
  <2>1. (Near(d, 6) => Working(d)) /\ (Near(d, 7) => Working(d)) BY DEF Near
  <2> QED BY <1>6, <1>7, <1>12, <2>1, PipeInvariant, PTL DEF PipeSpec, GroupDue, Nearer
<1> QED BY <1>9, <1>13, PipeInvariant, PTL DEF PipeSpec

\* The offset is committed on the strength of d's key (alerts.ts:76-79).
ReliesOn(d) ==
  phase = "committed" /\ ended[current] = "skipped" /\ skippedFor[current] = d

LEMMA ReliesForever ==
  ASSUME NEW d \in Dispatchers, PipeInv, ReliesOn(d), [PipeNext]_pipeVars
  PROVE  ReliesOn(d)'
<1>t. /\ ended \in [Dispatchers -> Endings]
      /\ skippedFor \in [Dispatchers -> Dispatchers \cup {Nobody}]
  BY DEF PipeInv, PipeTypeOK, TypeOK
<1>s. /\ current \in Dispatchers /\ pc[current] = "idle" /\ ~Working(current)
      /\ at[current] \in {"settled", "cleared", "dispatching"}
  BY DEF PipeInv, CommitsSettled, ReliesOn, PlacesFit, Settled, Returned, Working
<1> SUFFICES current' = current /\ phase' = phase
               /\ ended'[current] = ended[current] /\ skippedFor'[current] = skippedFor[current]
  BY DEF ReliesOn
<1>1. ASSUME NEW e \in Dispatchers, GroupProgress(e) \/ JudgeFails(e)
             \/ DispatchStumbles(e) \/ SendToDlqFails(e)
      PROVE  /\ current' = current /\ phase' = phase
             /\ ended'[current] = ended[current] /\ skippedFor'[current] = skippedFor[current]
  <2>1. phase' = phase /\ current' = current
    BY <1>1 DEF ReliesOn, GroupProgress, Judge, JudgeFails, Dispatch, DispatchGoesOn,
       DispatchStumbles, DispatchSkips, SendToDlq, SendToDlqFails, pipe, runner
  <2>2. CASE e = current
    BY <1>1, <2>2, <1>s DEF ReliesOn, GroupProgress, Judge, JudgeFails, Dispatch,
       DispatchGoesOn, DispatchStumbles, DispatchSkips, SendToDlq, SendToDlqFails, ToDeadLetter,
       Threw, Call, SetWins, SetSkips, SetResent, SetFails, Create, CreateFails, Publish,
       PublishFails, Release, ReleaseResent, ReleaseFails
  <2>3. CASE e # current
    <3>1. CASE Judge(e) \/ JudgeFails(e) \/ Dispatch(e) \/ SendToDlq(e) \/ SendToDlqFails(e)
      BY <3>1, <2>1 DEF Judge, JudgeFails, Dispatch, SendToDlq, SendToDlqFails, Mishap, Call, vars
    <3>2. CASE DispatchGoesOn(e) \/ DispatchStumbles(e)
      BY <3>2, <2>1, <2>3, <1>t, <1>s DEF DispatchGoesOn, DispatchStumbles, SetWins,
         SetResent, SetFails, Create, CreateFails, Publish, PublishFails, Release,
         ReleaseResent, ReleaseFails, End, pipe
    <3>3. CASE DispatchSkips(e)
      BY <3>3, <2>1, <2>3, <1>t, <1>s DEF DispatchSkips, SetSkips, End
    <3> QED BY <1>1, <3>1, <3>2, <3>3 DEF GroupProgress
  <2> QED BY <2>1, <2>2, <2>3
<1>2. ~RunnerProgress /\ ~BatchRejects /\ ~SessionLost
  BY DEF ReliesOn, RunnerProgress, Commit, Deliver, BatchRejects, SessionLost
<1>3. ASSUME NEW p \in 1..member, ProcessDies(p)
      PROVE  /\ current' = current /\ phase' = phase
             /\ ended'[current] = ended[current] /\ skippedFor'[current] = skippedFor[current]
  BY <1>3, <1>s DEF ProcessDies, Crash, ReliesOn
<1>4. CASE UNCHANGED pipeVars \/ (Expire /\ UNCHANGED pipe)
  BY <1>4 DEF pipeVars, pipe, vars, runner, Expire
<1> QED BY <1>1, <1>2, <1>3, <1>4 DEF PipeNext

\* alerts.ts:76 within consumer.ts:81-160, the second half of FateDecided: when the
\* offset of a flagged transaction was committed because another delivery held the
\* key, that delivery comes to an alert, to a dead letter or to bad luck of its own.
THEOREM ReliedOnEnds ==
  ASSUME NEW CONSTANT d \in Dispatchers
  PROVE  PipeSpec /\ GroupDue(d) => (ReliesOn(d) ~> (Answered \/ Unlucky(d)))
<1>1. PipeInv /\ ReliesOn(d) /\ ~Working(d) => Answered \/ Unlucky(d)
  <2> SUFFICES ASSUME PipeInv, ReliesOn(d), ~Working(d), ~Answered PROVE Unlucky(d)
    OBVIOUS
  <2> USE DEF PipeInv
  <2>1. current \in Dispatchers /\ Settled(current)
    BY DEF CommitsSettled, ReliesOn
  <2>2. \A e \in Dispatchers : at[e] # "settled" /\ ended[e] # "sent"
    BY DEF PlacesFit, Answered
  <2>3. at[d] \in Called BY <2>1 DEF ReliesOn, OwnersCalled
  <2> QED BY <2>2, <2>3 DEF Working, Unlucky, Called, Settled, Returned
<1>2. PipeInv /\ ReliesOn(d) /\ [PipeNext]_pipeVars => ReliesOn(d)'
  BY ReliesForever
<1> QED BY <1>1, <1>2, PipeInvariant, DeliveryEnds, PTL DEF PipeSpec
=============================================================================
