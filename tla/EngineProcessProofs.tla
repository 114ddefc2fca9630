------------------------- MODULE EngineProcessProofs -------------------------
(***************************************************************************)
(* Proofs about EngineProcess for any number of messages, signals and      *)
(* faults.                                                                 *)
(***************************************************************************)
EXTENDS EngineProcess, FiniteSetTheorems, TLAPS

Accounted == alerted \cup deadLettered \cup stranded

\* A transaction is in flight only when one is left.
InFlight == work # "idle" => committed < MaxMessages

\* A key belongs to an alert that is out, to a transaction known as stranded, or
\* to the dispatch in flight.
KeysExplained ==
  \A m \in keys : \/ m \in alerted \cup stranded
                  \/ m = Current /\ work \in {"reserved", "sending", "cleanup"}

SettledExplained == work = "settled" => Current \in Accounted

\* No handler exists before the client runs; a handler in shutdown has closed
\* what it passed.
HandlersInOrder ==
  /\ boot \notin {"listen", "up"} => at = Unset
  /\ \A h \in Handlers :
       /\ at[h] \in {"flush", "wait", "dlq"} => ~producer
       /\ at[h] = "dlq" => ~dlq /\ consumer = "off"

\* While a handler is in shutdown, the producer's handler is about to exit.
ExitPending ==
  \A h \in Handlers : at[h] \notin {"unset", "armed"} => at["producer"] = "flush"

\* A transaction is robbed by one signal or fault, and a signal whose handlers are
\* still at work may rob another one.
LossesPaid ==
  Cardinality(stranded) + (IF at["producer"] = "flush" THEN 1 ELSE 0)
    <= signals + faults

CommittedAccounted == \A m \in 1..committed : m \in Accounted

ProcessInv ==
  /\ TypeOK /\ InFlight /\ KeysExplained /\ SettledExplained
  /\ CommittedAccounted /\ HandlersInOrder /\ StoppedMeansClosed
  /\ ExitPending /\ LossesPaid

-----------------------------------------------------------------------------
LEMMA InitEstablishes == Init => ProcessInv
<1> SUFFICES ASSUME Init PROVE ProcessInv
  OBVIOUS
<1>b. isRunning \in BOOLEAN /\ producer \in BOOLEAN /\ dlq \in BOOLEAN
  BY Zenon DEF Init
<1>1. TypeOK
  BY <1>b, MessagesAssumption, SignalsAssumption, FaultsAssumption
     DEF Init, TypeOK, Unset, Handlers, Stages, Boots, Works
<1>2. InFlight /\ KeysExplained /\ SettledExplained
  BY DEF Init, InFlight, KeysExplained, SettledExplained
<1>3. CommittedAccounted BY DEF Init, CommittedAccounted
<1>4. HandlersInOrder /\ StoppedMeansClosed /\ ExitPending
  BY DEF Init, HandlersInOrder, StoppedMeansClosed, ExitPending, Unset
<1>5. LossesPaid
  <2>1. Cardinality({}) = 0 BY FS_EmptySet
  <2>2. at["producer"] = "unset" BY DEF Init, Unset, Handlers
  <2>3. stranded = {} /\ signals = 0 /\ faults = 0 BY DEF Init
  <2> QED BY <2>1, <2>2, <2>3 DEF LossesPaid
<1> QED BY <1>1, <1>2, <1>3, <1>4, <1>5 DEF ProcessInv

\* The transaction in flight is one of the log.
LEMMA CurrentIsMessage ==
  ASSUME TypeOK, InFlight, work # "idle" PROVE Current \in Messages
BY MessagesAssumption DEF TypeOK, InFlight, Current, Messages

\* Robbing one transaction more counts one more at most.
LEMMA OneMoreStranded ==
  ASSUME TypeOK, NEW m, stranded' \subseteq stranded \cup {m}, stranded \subseteq stranded'
  PROVE  /\ Cardinality(stranded) \in Nat /\ Cardinality(stranded') \in Nat
         /\ Cardinality(stranded') <= Cardinality(stranded) + 1
<1>1. IsFiniteSet(stranded)
  <2>1. IsFiniteSet(1..MaxMessages) BY MessagesAssumption, FS_Interval
  <2> QED BY <2>1, FS_Subset DEF TypeOK, Messages
<1>2. Cardinality(stranded) \in Nat BY <1>1, FS_CardinalityType
<1>3. CASE stranded' = stranded BY <1>2, <1>3
<1>4. CASE stranded' # stranded
  <2>1. stranded' = stranded \cup {m} /\ m \notin stranded BY <1>4
  <2>2. Cardinality(stranded \cup {m}) = Cardinality(stranded) + 1
    BY <1>1, <2>1, FS_AddElement
  <2>3. Cardinality(stranded') = Cardinality(stranded) + 1 BY <2>1, <2>2
  <2> QED BY <1>2, <2>3
<1> QED BY <1>3, <1>4

-----------------------------------------------------------------------------
(* The steps, by what they leave alone                                     *)

\* Steps of the work, the failures among them included.
Working == \/ Deliver \/ Reserve \/ ReserveResent \/ Skip \/ EvaluateFails \/ CreateFails \/ Publish
           \/ Acknowledged \/ SendFails \/ Release \/ ReleaseFails \/ DeadLetter
           \/ DeadLetterFails \/ Commit

\* Steps that keep the process and the work of the transaction.
Handling == \/ Launch \/ ProducerConnects \/ DlqConnects \/ ConsumerRuns
            \/ ServerListens
            \/ \E h \in {"client", "bootstrap"} : Stop(h) \/ ShutdownFails(h)

\* Steps that end the process.
Ending ==
  /\ Exit
  /\ \/ /\ UNCHANGED <<signals, faults>>
        /\ \E h \in Handlers : at[h] \notin {"unset", "armed"}
     \/ Fault
     \/ signals < MaxSignals /\ signals' = signals + 1 /\ UNCHANGED faults

\* A signal that handlers take.
Taken ==
  /\ boot # "down"
  /\ signals < MaxSignals /\ signals' = signals + 1 /\ UNCHANGED faults
  /\ at["producer"] # "unset"
  /\ at' = [h \in Handlers |->
              IF at[h] # "armed" THEN at[h]
              ELSE IF h = "producer" \/ isRunning THEN "flush" ELSE After(h)]
  /\ producer' = FALSE
  /\ UNCHANGED <<boot, isRunning, dlq, consumer, work, effects>>

LEMMA StepKinds == Next => Working \/ Handling \/ Ending \/ Taken
<1>1. Boot => Handling BY DEF Boot, Handling
<1>2. Work => Working BY DEF Work, Working
<1>3. Failures => Working \/ Ending
  BY DEF Failures, BootFails, Kill, Working, Ending
<1>4. Signal => Ending \/ Taken BY DEF Signal, Ending, Taken
<1>5. ProducerExits \/ ServerCloses => Ending
  BY DEF ProducerExits, ServerCloses, Ending, bounds, Handlers
<1>6. ASSUME NEW h \in {"client", "bootstrap"}, Stop(h) \/ ShutdownFails(h)
      PROVE  Handling
  BY <1>6 DEF Handling
<1> QED BY <1>1, <1>2, <1>3, <1>4, <1>5, <1>6 DEF Next

-----------------------------------------------------------------------------
LEMMA WorkingStep == ProcessInv /\ Working => ProcessInv'
<1> SUFFICES ASSUME ProcessInv, Working PROVE ProcessInv'
  OBVIOUS
<1> USE MessagesAssumption, FaultsAssumption
<1>t. TypeOK /\ InFlight /\ KeysExplained /\ SettledExplained /\ CommittedAccounted
  BY DEF ProcessInv
<1>p. UNCHANGED process
  BY DEF Working, Deliver, Reserve, ReserveResent, Skip, EvaluateFails, CreateFails, Publish,
         Acknowledged, SendFails, Release, ReleaseFails, DeadLetter, DeadLetterFails,
         Commit
<1>1. HandlersInOrder' /\ StoppedMeansClosed'
  BY <1>p DEF ProcessInv, process, HandlersInOrder, StoppedMeansClosed
<1>c. committed \in Nat /\ (work # "idle" => Current \in Messages)
  BY <1>t, CurrentIsMessage DEF TypeOK
<1>2. ASSUME Deliver \/ Skip \/ EvaluateFails \/ CreateFails \/ Publish
      PROVE  TypeOK' /\ InFlight' /\ KeysExplained' /\ SettledExplained'
             /\ CommittedAccounted'
  BY <1>2, <1>t, <1>p, <1>c
     DEF Deliver, Skip, EvaluateFails, CreateFails, Publish, TypeOK, InFlight,
         KeysExplained, SettledExplained, CommittedAccounted, Accounted, Current, Works,
         process, effects, bounds, Fault
<1>3. ASSUME Reserve \/ ReserveResent \/ Acknowledged \/ SendFails \/ Release \/ ReleaseFails
             \/ DeadLetter \/ DeadLetterFails
      PROVE  TypeOK' /\ InFlight' /\ KeysExplained' /\ SettledExplained'
             /\ CommittedAccounted'
  <2>c. committed' = committed /\ Current' = Current
    BY <1>3 DEF Reserve, ReserveResent, Acknowledged, SendFails, Release, ReleaseFails, DeadLetter,
                DeadLetterFails, Current
  <2>1. TypeOK'
    BY <1>3, <1>t, <1>p, <1>c
       DEF Reserve, ReserveResent, Acknowledged, SendFails, Release, ReleaseFails, DeadLetter,
           DeadLetterFails, TypeOK, Works, process, bounds, Fault
  <2>2. InFlight'
    BY <1>3, <1>t, <2>c
       DEF Reserve, ReserveResent, Acknowledged, SendFails, Release, ReleaseFails, DeadLetter,
           DeadLetterFails, InFlight
  <2>3. KeysExplained'
    BY <1>3, <1>t, <2>c
       DEF Reserve, ReserveResent, Acknowledged, SendFails, Release, ReleaseFails, DeadLetter,
           DeadLetterFails, KeysExplained
  <2>4. SettledExplained'
    BY <1>3, <1>t, <2>c
       DEF Reserve, ReserveResent, Acknowledged, SendFails, Release, ReleaseFails, DeadLetter,
           DeadLetterFails, SettledExplained, Accounted
  <2>5. Accounted \subseteq Accounted'
    BY <1>3
       DEF Reserve, ReserveResent, Acknowledged, SendFails, Release, ReleaseFails, DeadLetter,
           DeadLetterFails, Accounted
  <2>6. CommittedAccounted'
    BY <1>t, <2>c, <2>5 DEF CommittedAccounted, Accounted
  <2> QED BY <2>1, <2>2, <2>3, <2>4, <2>6
<1>4. ASSUME Commit
      PROVE  TypeOK' /\ InFlight' /\ KeysExplained' /\ SettledExplained'
             /\ CommittedAccounted'
  <2>1. /\ work = "settled" /\ work' = "idle"
        /\ committed' \in {committed, committed + 1}
        /\ UNCHANGED <<process, keys, alerted, deadLettered, stranded, bounds>>
    BY <1>4 DEF Commit
  <2>2. TypeOK' BY <2>1, <1>t, <1>c DEF TypeOK, InFlight, Works, process, bounds
  <2>3. InFlight' /\ SettledExplained' BY <2>1 DEF InFlight, SettledExplained
  <2>4. KeysExplained' BY <2>1, <1>t DEF KeysExplained
  <2>5. \A m \in 1..(committed + 1) : m \in Accounted
    BY <2>1, <1>t, <1>c DEF CommittedAccounted, SettledExplained, Accounted, Current
  <2>6. CommittedAccounted' BY <2>1, <2>5, <1>c DEF CommittedAccounted, Accounted
  <2> QED BY <2>2, <2>3, <2>4, <2>6
<1>5. ExitPending' BY <1>p DEF ProcessInv, process, ExitPending
<1>6. LossesPaid'
  <2>0. LossesPaid /\ at' = at BY <1>p DEF ProcessInv, process
  <2>1. CASE ReserveResent \/ ReleaseFails
    <3>1. /\ stranded' \subseteq stranded \cup {Current} /\ stranded \subseteq stranded'
          /\ faults' = faults + 1 /\ signals' = signals
      BY <2>1 DEF ReserveResent, ReleaseFails, Fault
    <3>2. signals \in Nat /\ faults \in Nat BY <1>t, SignalsAssumption DEF TypeOK
    <3> QED BY <1>t, <2>0, <3>1, <3>2, OneMoreStranded DEF LossesPaid
  <2>2. CASE ~(ReserveResent \/ ReleaseFails)
    <3>1. stranded' = stranded
      BY <2>2 DEF Working, Deliver, Reserve, Skip, EvaluateFails, CreateFails, Publish,
           Acknowledged, SendFails, Release, DeadLetter, DeadLetterFails, Commit, effects
    <3>2. signals' = signals /\ faults' \in {faults, faults + 1}
      BY <2>2 DEF Working, Deliver, Reserve, Skip, EvaluateFails, CreateFails, Publish,
           Acknowledged, SendFails, Release, DeadLetter, DeadLetterFails, Commit,
           bounds, Fault
    <3>3. signals \in Nat /\ faults \in Nat BY <1>t, SignalsAssumption DEF TypeOK
    <3>4. Cardinality(stranded) \in Nat BY <1>t, <3>1, OneMoreStranded
    <3> QED BY <2>0, <3>1, <3>2, <3>3, <3>4 DEF LossesPaid
  <2> QED BY <2>1, <2>2
<1> QED BY <1>1, <1>2, <1>3, <1>4, <1>5, <1>6 DEF Working, ProcessInv

LEMMA HandlingStep == ProcessInv /\ Handling => ProcessInv'
<1> SUFFICES ASSUME ProcessInv, Handling PROVE ProcessInv'
  OBVIOUS
<1> USE FaultsAssumption DEF Handlers, Stages, Boots
<1>t. TypeOK /\ HandlersInOrder /\ StoppedMeansClosed BY DEF ProcessInv
<1>e. UNCHANGED <<work, effects, signals>> /\ faults' \in 0..MaxFaults
  BY <1>t DEF Handling, Launch, ProducerConnects, DlqConnects, ConsumerRuns, ServerListens,
         Stop, StopConsumer, Stopped, ShutdownReturns, ShutdownFails, bounds, Fault, TypeOK
<1>1. /\ InFlight' /\ KeysExplained' /\ SettledExplained' /\ CommittedAccounted'
  BY <1>e DEF ProcessInv, effects, InFlight, KeysExplained, SettledExplained,
              CommittedAccounted, Accounted, Current
<1>2. ASSUME \/ Launch \/ ProducerConnects \/ DlqConnects \/ ConsumerRuns
             \/ ServerListens
      PROVE  TypeOK' /\ HandlersInOrder' /\ StoppedMeansClosed'
  <2>1. TypeOK'
    BY <1>2, <1>t, <1>e DEF Launch, ProducerConnects, DlqConnects, ConsumerRuns,
       ServerListens, TypeOK, effects
  <2>2. HandlersInOrder'
    BY <1>2, <1>t DEF Launch, ProducerConnects, DlqConnects, ConsumerRuns,
       ServerListens, TypeOK, HandlersInOrder, Unset
  <2>3. StoppedMeansClosed'
    BY <1>2, <1>t DEF Launch, ProducerConnects, DlqConnects, ConsumerRuns,
       ServerListens, StoppedMeansClosed
  <2> QED BY <2>1, <2>2, <2>3
<1>3. ASSUME NEW h \in {"client", "bootstrap"}, Stop(h) \/ ShutdownFails(h)
      PROVE  TypeOK' /\ HandlersInOrder' /\ StoppedMeansClosed'
  <2>b. isRunning' \in BOOLEAN /\ producer' \in BOOLEAN /\ dlq' \in BOOLEAN
    BY <1>3, <1>t, Zenon DEF Stop, StopConsumer, Stopped, ShutdownReturns, ShutdownFails,
       TypeOK
  <2>a. at' \in [Handlers -> Stages] /\ consumer' \in {"on", "stopping", "off"}
    BY <1>3, <1>t DEF Stop, StopConsumer, Stopped, ShutdownReturns, ShutdownFails,
       After, TypeOK
  <2>1. TypeOK'
    BY <1>3, <1>t, <1>e, <2>a, <2>b DEF Stop, StopConsumer, Stopped, ShutdownReturns,
       ShutdownFails, TypeOK, effects
  <2>u. boot' = boot /\ boot \in {"listen", "up"} /\ producer' = producer
    BY <1>3, <1>t DEF Stop, StopConsumer, Stopped, ShutdownReturns, ShutdownFails,
       HandlersInOrder, Unset
  <2>p. ~producer
    BY <1>3, <1>t DEF Stop, StopConsumer, Stopped, ShutdownReturns, ShutdownFails,
       HandlersInOrder
  <2>d. \A g \in Handlers : at'[g] = "dlq" => ~dlq' /\ consumer' = "off"
    BY <1>3, <1>t DEF Stop, StopConsumer, Stopped, ShutdownReturns, ShutdownFails,
       After, TypeOK, HandlersInOrder
  <2>2. HandlersInOrder' BY <2>u, <2>p, <2>d DEF HandlersInOrder
  <2>3. StoppedMeansClosed'
    BY <1>3, <1>t DEF Stop, StopConsumer, Stopped, ShutdownReturns, ShutdownFails,
       After, TypeOK, HandlersInOrder, StoppedMeansClosed
  <2> QED BY <2>1, <2>2, <2>3
<1>4. ExitPending' /\ (at'["producer"] = "flush" <=> at["producer"] = "flush")
  BY <1>t DEF ProcessInv, ExitPending, HandlersInOrder, TypeOK, Unset, Handling, Launch,
       ProducerConnects, DlqConnects, ConsumerRuns, ServerListens, Stop, StopConsumer,
       Stopped, ShutdownReturns, ShutdownFails, After
<1>5. LossesPaid'
  <2>1. LossesPaid /\ stranded' = stranded /\ signals' = signals
    BY <1>e DEF ProcessInv, effects
  <2>2. faults' \in {faults, faults + 1}
    BY DEF Handling, Launch, ProducerConnects, DlqConnects, ConsumerRuns, ServerListens,
           Stop, StopConsumer, Stopped, ShutdownReturns, ShutdownFails, bounds, Fault
  <2>3. signals \in Nat /\ faults \in Nat BY <1>t, SignalsAssumption DEF TypeOK
  <2>4. Cardinality(stranded) \in Nat BY <1>t, <2>1, OneMoreStranded
  <2> QED BY <1>4, <2>1, <2>2, <2>3, <2>4 DEF LossesPaid
<1> QED BY <1>1, <1>2, <1>3, <1>4, <1>5 DEF Handling, ProcessInv

LEMMA EndingStep == ProcessInv /\ Ending => ProcessInv'
<1> SUFFICES ASSUME ProcessInv, Ending PROVE ProcessInv'
  OBVIOUS
<1> USE FaultsAssumption, SignalsAssumption
<1>t. TypeOK /\ InFlight /\ KeysExplained /\ CommittedAccounted BY DEF ProcessInv
<1>x. Exit BY DEF Ending
<1>b. signals' \in 0..MaxSignals /\ faults' \in 0..MaxFaults
  BY <1>t DEF Ending, Fault, TypeOK
<1>c. committed' = committed /\ Current' = Current /\ keys' = keys /\ work' = "idle"
  BY <1>x DEF Exit, Current
<1>m. work # "idle" => Current \in Messages BY <1>t, CurrentIsMessage
<1>k. keys \subseteq Messages /\ committed \in 0..MaxMessages BY <1>t DEF TypeOK
<1>1. alerted \subseteq alerted' /\ alerted' \subseteq Messages
  BY <1>x, <1>m, <1>t DEF Exit, TypeOK
<1>2. deadLettered \subseteq deadLettered' /\ deadLettered' \subseteq Messages
  BY <1>x, <1>m, <1>t DEF Exit, TypeOK
<1>3. stranded' = stranded \cup ((keys \cap {Current}) \ alerted')
  BY <1>x DEF Exit
<1>4. TypeOK'
  <2>1. stranded' \subseteq Messages BY <1>3, <1>t DEF TypeOK
  <2> QED BY <2>1, <1>1, <1>2, <1>b, <1>c, <1>k, <1>x
          DEF TypeOK, Exit, Unset, Boots, Works, Handlers, Stages
<1>5. KeysExplained' BY <1>c, <1>1, <1>3, <1>t DEF KeysExplained
<1>a. Accounted \subseteq Accounted' BY <1>1, <1>2, <1>3 DEF Accounted
<1>6. CommittedAccounted' BY <1>a, <1>c, <1>t DEF CommittedAccounted
<1>7. HandlersInOrder' /\ StoppedMeansClosed'
  BY <1>x DEF Exit, HandlersInOrder, StoppedMeansClosed, Unset, Handlers
<1>8. InFlight' /\ SettledExplained' BY <1>c DEF InFlight, SettledExplained
<1>9. ExitPending' BY <1>x DEF Exit, ExitPending, Unset
<1>10. LossesPaid'
  <2>1. stranded' \subseteq stranded \cup {Current} /\ stranded \subseteq stranded'
    BY <1>3
  <2>2. /\ Cardinality(stranded) \in Nat /\ Cardinality(stranded') \in Nat
        /\ Cardinality(stranded') <= Cardinality(stranded) + 1
    BY <1>t, <2>1, OneMoreStranded
  <2>3. at'["producer"] # "flush" BY <1>x DEF Exit, Unset, Handlers
  <2>4. signals \in Nat /\ faults \in Nat BY <1>t DEF TypeOK
  <2>5. LossesPaid /\ ExitPending BY DEF ProcessInv
  \* either a handler was at work, or this step is a fault or a signal itself
  <2>6. \/ signals' + faults' = signals + faults /\ at["producer"] = "flush"
        \/ signals' + faults' = signals + faults + 1
    BY <2>4, <2>5 DEF Ending, Fault, ExitPending
  <2> QED BY <2>2, <2>3, <2>4, <2>5, <2>6 DEF LossesPaid
<1> QED BY <1>4, <1>5, <1>6, <1>7, <1>8, <1>9, <1>10 DEF ProcessInv

LEMMA TakenStep == ProcessInv /\ Taken => ProcessInv'
<1> SUFFICES ASSUME ProcessInv, Taken PROVE ProcessInv'
  OBVIOUS
<1> USE SignalsAssumption
<1>t. TypeOK /\ HandlersInOrder /\ StoppedMeansClosed BY DEF ProcessInv
<1>1. InFlight' /\ KeysExplained' /\ SettledExplained' /\ CommittedAccounted'
  BY DEF Taken, ProcessInv, effects, InFlight, KeysExplained, SettledExplained,
         CommittedAccounted, Accounted, Current
<1>a. at' \in [Handlers -> Stages]
  BY <1>t DEF Taken, TypeOK, After, Stages
<1>b. isRunning' \in BOOLEAN /\ producer' \in BOOLEAN /\ dlq' \in BOOLEAN
  BY <1>t, Zenon DEF Taken, TypeOK
<1>2. TypeOK'
  BY <1>t, <1>a, <1>b DEF Taken, TypeOK, effects
<1>u. boot \in {"listen", "up"}
  BY <1>t DEF Taken, HandlersInOrder, Unset, Handlers
<1>3. HandlersInOrder'
  BY <1>t, <1>u DEF Taken, HandlersInOrder, After, TypeOK
<1>4. StoppedMeansClosed'
  BY <1>t DEF Taken, StoppedMeansClosed
<1>5. ExitPending'
  BY <1>t DEF ProcessInv, ExitPending, Taken, TypeOK, Handlers
<1>6. LossesPaid'
  <2>1. LossesPaid /\ stranded' = stranded /\ signals' = signals + 1 /\ faults' = faults
    BY DEF ProcessInv, Taken, effects
  <2>2. signals \in Nat /\ faults \in Nat BY <1>t, FaultsAssumption DEF TypeOK
  <2>3. Cardinality(stranded) \in Nat BY <1>t, <2>1, OneMoreStranded
  <2> QED BY <2>1, <2>2, <2>3 DEF LossesPaid
<1> QED BY <1>1, <1>2, <1>3, <1>4, <1>5, <1>6 DEF ProcessInv

\* What start, shutdown, the handlers and the dispatch in flight rely on
\* (kafka_client/index.ts, producer.ts, index.ts) holds in every state.
THEOREM ProcessInvariant == Spec => []ProcessInv
<1>1. ProcessInv /\ UNCHANGED vars => ProcessInv'
  BY DEF ProcessInv, vars, process, effects, bounds, TypeOK, InFlight, KeysExplained,
         SettledExplained, CommittedAccounted, HandlersInOrder, StoppedMeansClosed,
         Accounted, Current, ExitPending, LossesPaid
<1>2. ProcessInv /\ [Next]_vars => ProcessInv'
  BY <1>1, StepKinds, WorkingStep, HandlingStep, EndingStep, TakenStep
<1> QED BY <1>2, InitEstablishes, PTL DEF Spec

-----------------------------------------------------------------------------
\* The typing of the process, its work and its effects.
THEOREM ProcessTypeCorrect == Spec => []TypeOK
<1>1. ProcessInv => TypeOK BY DEF ProcessInv
<1> QED BY <1>1, ProcessInvariant, PTL

\* For any number of starts, signals and faults, an offset committed by the
\* consumer belongs to a transaction alerted, dead-lettered or stranded, and a
\* signal or a fault strands one at most.
THEOREM NothingElseIsLost == Spec => []SettledOrStranded
<1>1. ProcessInv => SettledOrStranded
  <2> SUFFICES ASSUME ProcessInv PROVE SettledOrStranded OBVIOUS
  <2>1. \A m \in 1..committed : m \in alerted \cup deadLettered \cup stranded
    BY DEF ProcessInv, CommittedAccounted, Accounted
  <2>2. Cardinality(stranded) + (IF at["producer"] = "flush" THEN 1 ELSE 0)
          <= signals + faults
    BY DEF ProcessInv, LossesPaid
  <2>3. Cardinality(stranded) \in Nat
    <3>1. IsFiniteSet(1..MaxMessages) BY MessagesAssumption, FS_Interval
    <3>2. IsFiniteSet(stranded) BY <3>1, FS_Subset DEF ProcessInv, TypeOK, Messages
    <3> QED BY <3>2, FS_CardinalityType
  <2>4. signals \in Nat /\ faults \in Nat
    BY SignalsAssumption, FaultsAssumption DEF ProcessInv, TypeOK
  <2>5. Cardinality(stranded) <= signals + faults BY <2>2, <2>3, <2>4
  <2> QED BY <2>1, <2>5 DEF SettledOrStranded
<1> QED BY <1>1, ProcessInvariant, PTL

\* KafkaMessagingClient.shutdown resets isRunning only when all is disconnected,
\* however many shutdowns overlap.
THEOREM ShutdownIsComplete == Spec => []StoppedMeansClosed
<1>1. ProcessInv => StoppedMeansClosed BY DEF ProcessInv
<1> QED BY <1>1, ProcessInvariant, PTL

-----------------------------------------------------------------------------
(* The refinement                                                          *)

\* A step accounts for the transaction in flight, or moves the offset over
\* transactions accounted for, or does neither.
LEMMA AccountedGrowth ==
  ASSUME ProcessInv, [Next]_vars
  PROVE  \/ committed' = committed /\ Accounted' \in {Accounted, Accounted \cup {Current}}
         \/ committed' = committed + 1 /\ UNCHANGED <<alerted, deadLettered, stranded>>
<1>1. CASE Working
  BY <1>1 DEF Working, Deliver, Reserve, ReserveResent, Skip, EvaluateFails, CreateFails,
         Publish, Acknowledged, SendFails, Release, ReleaseFails, DeadLetter,
         DeadLetterFails, Commit, Accounted, effects
<1>2. CASE Handling
  BY <1>2 DEF Handling, Launch, ProducerConnects, DlqConnects, ConsumerRuns, ServerListens,
         Stop, StopConsumer, Stopped, ShutdownReturns, ShutdownFails, Accounted, effects
<1>3. CASE Ending
  <2>1. Exit BY <1>3 DEF Ending
  <2>2. \/ alerted' = alerted
        \/ alerted' = alerted \cup {Current}
    BY <2>1 DEF Exit
  <2>3. \/ deadLettered' = deadLettered
        \/ deadLettered' = deadLettered \cup {Current}
    BY <2>1 DEF Exit
  <2>4. \/ stranded' = stranded
        \/ stranded' = stranded \cup {Current}
    BY <2>1 DEF Exit
  <2> QED BY <2>1, <2>2, <2>3, <2>4 DEF Exit, Accounted
<1>4. CASE Taken BY <1>4 DEF Taken, Accounted, effects
<1>5. CASE UNCHANGED vars BY <1>5 DEF vars, effects, Accounted
<1> QED BY <1>1, <1>2, <1>3, <1>4, <1>5, StepKinds

LEMMA ProcessInitRefines == Init => Promise!Init
BY DEF Init, Promise!Init

LEMMA ProcessStepRefines ==
  ASSUME ProcessInv, ProcessInv', [Next]_vars PROVE [Promise!Next]_(Promise!vars)
<1> DEFINE Done == {n \in 0..(MaxMessages - 1) : n + 1 \in alerted \cup deadLettered \cup stranded}
<1>t. /\ committed \in 0..MaxMessages /\ committed' \in 0..MaxMessages
      /\ Accounted \subseteq Messages /\ Accounted' \subseteq Messages
  BY DEF ProcessInv, TypeOK, Accounted
<1>d. /\ Done = {n \in 0..(MaxMessages - 1) : n + 1 \in Accounted}
      /\ Done' = {n \in 0..(MaxMessages - 1) : n + 1 \in Accounted'}
  BY DEF Accounted
<1>k. \A n \in 0..(MaxMessages - 1) : n < committed => n \in Done
  <2>a. \A m \in 1..committed : m \in Accounted BY DEF ProcessInv, CommittedAccounted
  <2>b. \A n \in 0..(MaxMessages - 1) : n < committed => n + 1 \in 1..committed
    BY <1>t, MessagesAssumption
  <2> QED BY <2>a, <2>b, <1>d
<1>1. CASE committed' = committed /\ Accounted' = Accounted
  BY <1>1, <1>d DEF Promise!vars
<1>2. CASE /\ committed' = committed /\ Accounted' = Accounted \cup {Current}
           /\ Current \notin Accounted
  <2>1. committed \in 0..(MaxMessages - 1)
    BY <1>2, <1>t, MessagesAssumption DEF Current, Messages
  <2>2. Done' = Done \cup {committed}
    BY <1>2, <2>1, <1>d, <1>t, MessagesAssumption DEF Current
  <2>3. PICK m \in 0..(MaxMessages - 1) : m = committed BY <2>1
  <2>4. Promise!Before(m) \subseteq Done
    BY <1>k, <2>3 DEF Promise!Before
  <2>5. Promise!Finish(m)
    BY <1>2, <2>2, <2>3, <2>4 DEF Promise!Finish
  <2> QED BY <2>5 DEF Promise!Next
<1>3. CASE committed' = committed + 1 /\ UNCHANGED <<alerted, deadLettered, stranded>>
  <2>1. Done' = Done BY <1>3
  <2>a. \A m \in 1..committed' : m \in Accounted' BY DEF ProcessInv, CommittedAccounted
  <2>b. \A n \in 0..(MaxMessages - 1) : n < committed' => n + 1 \in 1..committed'
    BY <1>t, MessagesAssumption
  <2>2. \A n \in 0..(MaxMessages - 1) : n < committed' => n \in Done'
    BY <2>a, <2>b, <1>d
  <2>3. Promise!Before(committed') \subseteq Done
    BY <2>1, <2>2 DEF Promise!Before
  <2>4. Promise!Commit(committed')
    BY <2>1, <2>3 DEF Promise!Commit
  <2> QED BY <1>t, <2>4 DEF Promise!Next
<1>4. \/ committed' = committed /\ Accounted' \in {Accounted, Accounted \cup {Current}}
      \/ committed' = committed + 1 /\ UNCHANGED <<alerted, deadLettered, stranded>>
  BY AccountedGrowth
<1>5. Current \in Accounted => Accounted \cup {Current} = Accounted
  OBVIOUS
<1> QED BY <1>1, <1>2, <1>3, <1>4, <1>5

\* Over all its lives the engine's process is done with the transactions of the
\* partition one by one, in the order of the log, and commits only what it is done
\* with: ImplementsKeyedLog, for any number of restarts, signals and faults.
THEOREM ProcessImplementsKeyedLog == Spec => ImplementsKeyedLog
<1>1. ProcessInv /\ ProcessInv' /\ [Next]_vars => [Promise!Next]_(Promise!vars)
  BY ProcessStepRefines
<1> QED BY <1>1, ProcessInitRefines, ProcessInvariant, PTL
        DEF Spec, ImplementsKeyedLog, Promise!Spec

-----------------------------------------------------------------------------
(* The end of the process                                                  *)

\* A handler of a signal is at work.
Signalled == \E h \in Handlers : at[h] \notin {"unset", "armed"}
Flushing  == at["producer"] = "flush"
Down      == boot = "down"

\* WF_vars(ProducerExits), with the guard of ProducerExits in the place of
\* ENABLED: producer.disconnect ends in the end.
ExitDue == []<>~Flushing \/ []<><<ProducerExits>>_vars

\* Once the producer's handler is at work only the end of the process stops it.
LEMMA FlushPersists ==
  ASSUME ProcessInv, [Next]_vars, Flushing PROVE Flushing' \/ Down'
<1> USE DEF Flushing, Down
<1>1. CASE Working
  <2>1. at' = at
    BY <1>1 DEF Working, Deliver, Reserve, ReserveResent, Skip, EvaluateFails, CreateFails,
         Publish, Acknowledged, SendFails, Release, ReleaseFails, DeadLetter,
         DeadLetterFails, Commit, process
  <2> QED BY <2>1
<1>2. CASE Handling
  BY <1>2 DEF ProcessInv, TypeOK, HandlersInOrder, Unset, Handlers, Handling, Launch,
       ProducerConnects, DlqConnects, ConsumerRuns, ServerListens, Stop, StopConsumer,
       Stopped, ShutdownReturns, ShutdownFails
<1>3. CASE Ending BY <1>3 DEF Ending, Exit
<1>4. CASE Taken BY <1>4 DEF Taken, Handlers
<1>5. CASE UNCHANGED vars BY <1>5 DEF vars, process
<1> QED BY <1>1, <1>2, <1>3, <1>4, <1>5, StepKinds

\* When producer.disconnect ends, a signal taken by a handler ends the process
\* (SignalStops), whatever the other handlers, the batch in flight and the faults do.
THEOREM SignalEndsProcess == Spec /\ ExitDue => SignalStops
<1>1. ProcessInv /\ Signalled => Flushing
  BY DEF ProcessInv, ExitPending, Signalled, Flushing
<1>2. ProcessInv /\ [Next]_vars /\ Flushing => Flushing' \/ Down'
  BY FlushPersists
<1>3. <<ProducerExits>>_vars => Down'
  BY DEF ProducerExits, Exit, Down
<1>4. Spec /\ ExitDue => (Signalled ~> Down)
  BY <1>1, <1>2, <1>3, ProcessInvariant, PTL DEF Spec, ExitDue
<1> QED BY <1>4 DEF SignalStops, Signalled, Down
=============================================================================
