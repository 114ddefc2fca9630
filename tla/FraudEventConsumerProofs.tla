---------------------- MODULE FraudEventConsumerProofs ----------------------
(***************************************************************************)
(* What FraudEventConsumer guarantees for every log and any number of      *)
(* keys, retries, deliveries and faults: a message is missed only when it  *)
(* is overtaken, that is when a message without a value and of another key *)
(* follows it.  At-least-once delivery and per-key order without exception *)
(* follow for logs in which such a message follows only messages of its    *)
(* own key or without a value; for others they do not hold.                *)
(***************************************************************************)
EXTENDS FraudEventConsumer, WellFoundedInduction, TLAPS

\* At x nothing more is due to m.
Safe(m, x) == Handled(m) \/ Overtaken(m, x)

\* Nothing below this offset will be missed, unless it is overtaken.
Below(x) == \A m \in Offsets : m < x => Safe(m, x)

\* Where the consumer may start, or has started, to read.
CursorsSafe == Below(committed) /\ Below(resolved) /\ Below(lo) /\ lo <= hi

\* A message of the batch in progress is handled or still with its group.
BatchHeld ==
  phase = "running" =>
    \A m \in Offsets : lo <= m /\ m < hi =>
      Handled(m) \/ m \in left[<<delivery, KeyOf[m]>>]

\* A group, of this delivery or an older one, takes its messages in order.
GroupsOrdered ==
  \A g \in Groups : \A x \in left[g] :
    /\ KeyOf[x] = g[2]
    /\ \A m \in Offsets : m < x /\ KeyOf[m] = g[2] => Safe(m, x) \/ m \in left[g]

\* A group is at a message exactly while it has one.
AtMessage == {"parse", "append", "project", "process", "dlq"}
StageFits ==
  \A g \in Groups : stage[g] \in AtMessage <=> left[g] # {}

\* A group that is running through the batch in progress has its delivery.
DeliveriesKnown ==
  /\ phase = "running" => delivery \in Deliveries
  /\ phase # "fetching" => delivery >= 1
  /\ \A g \in Groups : left[g] # {} => g[1] <= delivery

\* Nothing is stored before what comes first of its key.
KeyOrder ==
  \A m1, m2 \in Offsets :
    m1 < m2 /\ KeyOf[m1] = KeyOf[m2] /\ Stored(m2) => Safe(m1, m2)

ConsumerInv == TypeOK /\ CursorsSafe /\ BatchHeld /\ GroupsOrdered /\ StageFits
                 /\ DeliveriesKnown /\ KeyOrder

-----------------------------------------------------------------------------
LEMMA MinOfSet ==
  ASSUME NEW S \in SUBSET Nat, S # {}
  PROVE  MinOf(S) \in S /\ \A y \in S : MinOf(S) <= y
<1> DEFINE R == OpToRel(<, Nat)
<1>1. IsWellFoundedOn(R, Nat) BY NatLessThanWellFounded
<1>2. \A x, y \in Nat : y < x => <<y, x>> \in R BY DEF OpToRel
<1> HIDE DEF R
<1>3. PICK x \in S : \A y \in S : <<y, x>> \notin R BY <1>1, WFMin
<1>4. \A y \in S : x <= y
  <2> SUFFICES ASSUME NEW y \in S PROVE x <= y OBVIOUS
  <2>1. x \in Nat /\ y \in Nat OBVIOUS
  <2>2. ~(y < x) BY <1>2, <1>3, <2>1, Zenon
  <2> QED BY <2>1, <2>2
<1> QED BY <1>3, <1>4 DEF MinOf

LEMMA OffsetsNat == Offsets \subseteq Nat /\ \A m \in Offsets : m < N /\ m + 1 \in 0..N
BY SizeAssumption DEF Offsets

\* The message a group is at is its first one.
LEMMA CurrentIsFirst ==
  ASSUME TypeOK, StageFits, NEW g \in Groups, stage[g] \in AtMessage
  PROVE  /\ Current(g) \in left[g] /\ Current(g) \in Offsets
         /\ \A y \in left[g] : Current(g) <= y
<1>1. left[g] \in SUBSET Nat /\ left[g] # {} /\ left[g] \subseteq Offsets
  BY OffsetsNat DEF TypeOK, StageFits
<1> QED BY <1>1, MinOfSet DEF Current

\* What is overtaken before x is overtaken before every later offset.
LEMMA SafeLater ==
  ASSUME NEW m \in Offsets, NEW x \in Int, NEW y \in Int, x <= y, Safe(m, x)
  PROVE  Safe(m, y)
<1>1. \A n \in Offsets : n \in Int BY DEF Offsets
<1> QED BY <1>1 DEF Safe, Overtaken

\* Everything of its key before the message a group is at is handled, or is
\* overtaken before it.
LEMMA EarlierSafe ==
  ASSUME TypeOK, StageFits, GroupsOrdered, NEW g \in Groups, stage[g] \in AtMessage,
         NEW m \in Offsets, m < Current(g), KeyOf[m] = KeyOf[Current(g)]
  PROVE  Safe(m, Current(g))
<1>1. /\ Current(g) \in left[g] /\ Current(g) \in Offsets
      /\ \A y \in left[g] : Current(g) <= y
  BY CurrentIsFirst
<1>2. Safe(m, Current(g)) \/ m \in left[g] BY <1>1 DEF GroupsOrdered
<1>3. m \in Nat /\ Current(g) \in Nat BY <1>1, OffsetsNat
<1>4. m \notin left[g]
  <2> SUFFICES ASSUME m \in left[g] PROVE FALSE OBVIOUS
  <2>1. Current(g) <= m BY <1>1
  <2> QED BY <1>3, <2>1
<1> QED BY <1>2, <1>4

LEMMA HandledUnchanged ==
  ASSUME UNCHANGED <<processed, deadLettered>>
  PROVE  /\ \A m : Handled(m)' <=> Handled(m)
         /\ \A m, x : Safe(m, x)' <=> Safe(m, x)
BY DEF Safe, Handled, Settled, Overtaken

LEMMA HandledKept ==
  ASSUME processed \subseteq processed', deadLettered \subseteq deadLettered'
  PROVE  /\ \A m : Handled(m) => Handled(m)'
         /\ \A m, x : Safe(m, x) => Safe(m, x)'
BY DEF Safe, Handled, Settled, Overtaken

\* Groups only give up messages that are handled, and cursors only move to
\* where everything before is handled.
LEMMA GroupMoves ==
  ASSUME ConsumerInv, NEW g \in Groups, NEW c \in Offsets,
         UNCHANGED <<committed, phase, delivery, lo, hi>>,
         Below(resolved)',
         processed \subseteq processed', deadLettered \subseteq deadLettered',
         \/ left' = left
         \/ left' = [left EXCEPT ![g] = @ \ {c}] /\ Handled(c)'
  PROVE  CursorsSafe' /\ BatchHeld' /\ GroupsOrdered' /\ DeliveriesKnown'
<1> USE DEF ConsumerInv
<1>1. /\ \A m : Handled(m) => Handled(m)'
      /\ \A m, x : Safe(m, x) => Safe(m, x)'
  BY HandledKept
<1>2. CursorsSafe' BY <1>1 DEF CursorsSafe, Below
<1>3. /\ \A h \in Groups : left'[h] \subseteq left[h]
      /\ \A h \in Groups : \A m \in left[h] : m \in left'[h] \/ Handled(m)'
  BY DEF TypeOK
<1>4. BatchHeld'
  <2> SUFFICES ASSUME phase = "running", NEW m \in Offsets, lo <= m, m < hi
               PROVE  Handled(m)' \/ m \in left'[<<delivery, KeyOf[m]>>]
    BY DEF BatchHeld
  <2>1. <<delivery, KeyOf[m]>> \in Groups
    BY LogAssumption DEF Groups, DeliveriesKnown
  <2>2. Handled(m) \/ m \in left[<<delivery, KeyOf[m]>>] BY DEF BatchHeld
  <2> QED BY <1>1, <1>3, <2>1, <2>2
<1>5. GroupsOrdered'
  <2> SUFFICES ASSUME NEW h \in Groups, NEW x \in left'[h]
               PROVE  /\ KeyOf[x] = h[2]
                      /\ \A m \in Offsets : m < x /\ KeyOf[m] = h[2] =>
                           Safe(m, x)' \/ m \in left'[h]
    BY DEF GroupsOrdered
  <2>1. x \in left[h] BY <1>3
  <2>2. \A m : Handled(m)' => Safe(m, x)' BY DEF Safe
  <2> QED BY <1>1, <1>3, <2>1, <2>2 DEF GroupsOrdered
<1>6. DeliveriesKnown' BY <1>3 DEF DeliveriesKnown
<1> QED BY <1>2, <1>4, <1>5, <1>6

-----------------------------------------------------------------------------
(* The steps of a group.                                                     *)

\* The group stays at its message.
LEMMA GoToStep ==
  ASSUME TypeOK, StageFits, NEW g \in Groups, stage[g] \in AtMessage,
         NEW s \in AtMessage, GoTo(g, s)
  PROVE  StageFits' /\ stage' \in [Groups -> Stages] /\ left' = left
BY DEF GoTo, TypeOK, StageFits, AtMessage, Stages

\* The group takes the next message or ends.
LEMMA AdvanceStep ==
  ASSUME TypeOK, StageFits, NEW g \in Groups, NEW c, c = Current(g),
         stage[g] \in AtMessage, Advance(g)
  PROVE  /\ StageFits' /\ stage' \in [Groups -> Stages]
         /\ left' \in [Groups -> SUBSET Offsets]
         /\ left' = [left EXCEPT ![g] = @ \ {c}]
<1>1. left' = [left EXCEPT ![g] = @ \ {c}] BY DEF Advance
<1>2. left' \in [Groups -> SUBSET Offsets] BY <1>1 DEF TypeOK
<1>3. stage' = [stage EXCEPT ![g] = IF left[g] \ {c} = {} THEN "heartbeat"
                                                         ELSE "parse"]
  BY DEF Advance
<1>4. stage' \in [Groups -> Stages] BY <1>3 DEF TypeOK, Stages
<1>5. StageFits'
  <2> SUFFICES ASSUME NEW h \in Groups
               PROVE  stage'[h] \in AtMessage <=> left'[h] # {}
    BY DEF StageFits
  <2>1. CASE h = g BY <1>1, <1>3, <2>1 DEF TypeOK, AtMessage
  <2>2. CASE h # g BY <1>1, <1>3, <2>2 DEF TypeOK, StageFits
  <2> QED BY <2>1, <2>2
<1> QED BY <1>1, <1>2, <1>4, <1>5

\* The only step that overtakes: it resolves the offset of a message without a
\* value whatever became of the earlier messages of other keys.
LEMMA SkipEmptyStep ==
  ASSUME ConsumerInv, NEW g \in Groups, SkipEmpty(g)
  PROVE  ConsumerInv'
<1>t. TypeOK /\ StageFits /\ GroupsOrdered /\ stage[g] \in AtMessage
  BY DEF ConsumerInv, SkipEmpty, AtMessage
<1>0. PICK c : c = Current(g) OBVIOUS
<1>1. c \in Offsets /\ c \in left[g] /\ Kind[c] = "empty"
  BY <1>t, <1>0, CurrentIsFirst DEF SkipEmpty
<1>2. /\ UNCHANGED <<committed, phase, delivery, runnerSince, lo, hi, tries,
                     appends, processed, deadLettered, faults>>
      /\ resolved' = IF g[1] >= runnerSince THEN c + 1 ELSE resolved
      /\ Advance(g)
  BY <1>0 DEF SkipEmpty, effects
<1>3. /\ StageFits' /\ stage' \in [Groups -> Stages]
      /\ left' \in [Groups -> SUBSET Offsets]
      /\ left' = [left EXCEPT ![g] = @ \ {c}]
  BY <1>t, <1>0, <1>2, AdvanceStep
\* what precedes it is safe if it is of its key, and overtaken if it is not
<1>4. \A m \in Offsets : m < c + 1 => Safe(m, c + 1)
  <2> SUFFICES ASSUME NEW m \in Offsets, m < c + 1 PROVE Safe(m, c + 1) OBVIOUS
  <2>a. c \in Nat /\ m \in Nat BY <1>1, OffsetsNat
  <2>0. c \in Int /\ c + 1 \in Int /\ c <= c + 1 /\ m \in Int BY <2>a
  <2>1. CASE m = c BY <1>1, <2>1 DEF Safe, Handled
  <2>2. CASE m < c /\ KeyOf[m] = KeyOf[c]
    <3>1. Safe(m, c) BY <1>t, <1>0, <2>2, EarlierSafe
    <3> QED BY <2>0, <3>1, SafeLater
  <2>3. CASE m < c /\ KeyOf[m] # KeyOf[c]
    <3>1. Overtaken(m, c + 1) BY <1>1, <2>0, <2>3 DEF Overtaken
    <3> QED BY <3>1 DEF Safe
  <2> QED BY <2>0, <2>1, <2>2, <2>3
<1>5. Below(resolved)'
  <2>1. \A m : Handled(m)' <=> Handled(m) BY <1>2, HandledUnchanged
  <2>2. Below(resolved) BY DEF ConsumerInv, CursorsSafe
  <2> QED BY <1>2, <1>4, <2>1, <2>2 DEF Below, Safe
<1>6. Handled(c)' BY <1>1 DEF Handled
<1>7. CursorsSafe' /\ BatchHeld' /\ GroupsOrdered' /\ DeliveriesKnown'
  BY <1>1, <1>2, <1>3, <1>5, <1>6, GroupMoves
<1>8. TypeOK' BY <1>t, <1>1, <1>2, <1>3, OffsetsNat DEF TypeOK
<1>9. KeyOrder'
  BY <1>2, HandledUnchanged DEF ConsumerInv, KeyOrder, Stored
<1> QED BY <1>3, <1>7, <1>8, <1>9 DEF ConsumerInv

\* A step that stays at the message, and may store it.
LEMMA StayStep ==
  ASSUME ConsumerInv, NEW g \in Groups, stage[g] \in AtMessage,
         \/ left' = left /\ stage' = stage
         \/ \E s \in AtMessage : GoTo(g, s),
         UNCHANGED <<runner, processed, deadLettered>>,
         UNCHANGED appends \/ StoreEvent(g),
         tries' \in [Groups -> 0..MaxRetries], faults' \in 0..MaxFaults
  PROVE  ConsumerInv'
<1>t. TypeOK /\ StageFits /\ GroupsOrdered /\ KeyOrder BY DEF ConsumerInv
<1>1. StageFits' /\ stage' \in [Groups -> Stages] /\ left' = left
  BY <1>t, GoToStep DEF StageFits, TypeOK
<1>2. UNCHANGED <<committed, resolved, phase, runnerSince, delivery, lo, hi,
                  processed, deadLettered>>
  BY DEF runner
<1>3. PICK c \in Offsets : c = Current(g) BY <1>t, CurrentIsFirst
<1>4. appends' = appends \/ appends' = [appends EXCEPT ![<<g[1], c>>] = @ + 1]
  BY <1>3 DEF StoreEvent
<1>5. TypeOK'
  <2>1. <<g[1], c>> \in Deliveries \X Offsets BY DEF Groups
  <2>2. appends' \in [Deliveries \X Offsets -> Nat] BY <1>t, <1>4, <2>1 DEF TypeOK
  <2> QED BY <1>t, <1>1, <1>2, <2>2 DEF TypeOK
<1>6. /\ \A m : Handled(m)' <=> Handled(m)
      /\ \A m, x : Safe(m, x)' <=> Safe(m, x)
  BY <1>2, HandledUnchanged
<1>7. Below(resolved)' BY <1>2, <1>6 DEF ConsumerInv, CursorsSafe, Below
<1>8. CursorsSafe' /\ BatchHeld' /\ GroupsOrdered' /\ DeliveriesKnown'
  BY <1>1, <1>2, <1>3, <1>7, GroupMoves
<1>9. KeyOrder'
  <2> SUFFICES ASSUME NEW m1 \in Offsets, NEW m2 \in Offsets, m1 < m2,
                      KeyOf[m1] = KeyOf[m2], Stored(m2)'
               PROVE  Safe(m1, m2)
    BY <1>6 DEF KeyOrder
  <2>1. CASE m2 = c BY <1>t, <1>3, <2>1, EarlierSafe
  <2>2. CASE m2 # c
    <3>0. PICK d \in Deliveries : appends'[<<d, m2>>] > 0 BY DEF Stored
    <3>1. appends[<<d, m2>>] > 0 BY <1>t, <1>4, <2>2, <3>0 DEF TypeOK
    <3>2. Stored(m2) BY <3>1 DEF Stored
    <3> QED BY <1>t, <3>2 DEF KeyOrder
  <2> QED BY <2>1, <2>2
<1> QED BY <1>1, <1>5, <1>8, <1>9 DEF ConsumerInv

\* The message is handled, by the pipeline or the dead-letter topic.
LEMMA SettleStep ==
  ASSUME ConsumerInv, NEW g \in Groups, stage[g] \in AtMessage, Advance(g),
         UNCHANGED <<runner, tries, appends, faults>>,
         \/ processed' = processed \cup {Current(g)} /\ UNCHANGED deadLettered
         \/ deadLettered' = deadLettered \cup {Current(g)} /\ UNCHANGED processed
  PROVE  ConsumerInv'
<1>t. TypeOK /\ StageFits /\ KeyOrder BY DEF ConsumerInv
<1>0. UNCHANGED <<committed, resolved, phase, runnerSince, delivery, lo, hi>>
  BY DEF runner
<1>1. PICK c \in Offsets : c = Current(g) BY <1>t, CurrentIsFirst
<1>2. /\ StageFits' /\ stage' \in [Groups -> Stages]
      /\ left' \in [Groups -> SUBSET Offsets]
      /\ left' = [left EXCEPT ![g] = @ \ {c}]
  BY <1>t, <1>1, AdvanceStep
<1>3. processed \subseteq processed' /\ deadLettered \subseteq deadLettered'
  OBVIOUS
<1>4. Handled(c)' BY <1>1 DEF Handled, Settled
<1>5. /\ \A m : Handled(m) => Handled(m)'
      /\ \A m, x : Safe(m, x) => Safe(m, x)'
  BY <1>3, HandledKept
<1>6. Below(resolved)' BY <1>0, <1>5 DEF ConsumerInv, CursorsSafe, Below
<1>7. CursorsSafe' /\ BatchHeld' /\ GroupsOrdered' /\ DeliveriesKnown'
  BY <1>0, <1>2, <1>3, <1>4, <1>6, GroupMoves
<1>8. TypeOK' BY <1>t, <1>0, <1>1, <1>2 DEF TypeOK
<1>9. KeyOrder' BY <1>t, <1>5 DEF KeyOrder, Stored
<1> QED BY <1>2, <1>7, <1>8, <1>9 DEF ConsumerInv

\* A group rejects: what it held is left to the batch, which is rejected too.
LEMMA RejectStep ==
  ASSUME ConsumerInv, NEW g \in Groups, RejectGroup(g),
         UNCHANGED <<committed, resolved, delivery, runnerSince, lo, hi, tries,
                     appends, processed>>,
         deadLettered \subseteq deadLettered', deadLettered' \subseteq Offsets,
         faults' \in 0..MaxFaults
  PROVE  ConsumerInv'
<1> USE DEF ConsumerInv
<1>1. /\ left' = [left EXCEPT ![g] = {}]
      /\ stage' = [stage EXCEPT ![g] = "rejected"]
      /\ phase' = IF g[1] = delivery /\ phase = "running" THEN "rejected" ELSE phase
  BY DEF RejectGroup
<1>2. UNCHANGED <<appends, processed>> OBVIOUS
<1>3. TypeOK' BY <1>1, <1>2 DEF TypeOK, Phases, Stages
<1>4. /\ \A m : Handled(m) => Handled(m)'
      /\ \A m, x : Safe(m, x) => Safe(m, x)'
  BY <1>2, HandledKept
<1>5. CursorsSafe' BY <1>4 DEF CursorsSafe, Below
<1>6. BatchHeld'
  <2> SUFFICES ASSUME phase' = "running", NEW m \in Offsets, lo <= m, m < hi
               PROVE  Handled(m) \/ m \in left'[<<delivery, KeyOf[m]>>]
    BY <1>4 DEF BatchHeld
  <2>1. phase = "running" /\ g[1] # delivery BY <1>1
  <2>2. g # <<delivery, KeyOf[m]>> BY <2>1
  <2>3. <<delivery, KeyOf[m]>> \in Groups
    BY <2>1, LogAssumption DEF Groups, DeliveriesKnown
  <2>4. left'[<<delivery, KeyOf[m]>>] = left[<<delivery, KeyOf[m]>>]
    BY <1>1, <2>2, <2>3 DEF TypeOK
  <2> QED BY <2>1, <2>4 DEF BatchHeld
<1>7. GroupsOrdered' BY <1>1, <1>4 DEF GroupsOrdered, TypeOK
<1>8. StageFits' BY <1>1 DEF StageFits, TypeOK, AtMessage
<1>9. DeliveriesKnown' BY <1>1 DEF DeliveriesKnown, TypeOK
<1>10. KeyOrder' BY <1>2, <1>4 DEF KeyOrder, Stored
<1> QED BY <1>3, <1>5, <1>6, <1>7, <1>8, <1>9, <1>10

LEMMA HeartbeatStep ==
  ASSUME ConsumerInv, NEW g \in Groups, Heartbeat(g)
  PROVE  ConsumerInv'
<1> USE DEF ConsumerInv
<1>1. /\ left' = left /\ stage[g] = "heartbeat"
      /\ stage' = [stage EXCEPT ![g] = "done"]
      /\ UNCHANGED <<committed, resolved, phase, runnerSince, delivery, lo, hi,
                     tries, appends, processed, deadLettered, faults>>
  BY DEF Heartbeat, GoTo, runner, effects
<1>2. TypeOK' BY <1>1 DEF TypeOK, Stages
<1>3. StageFits' BY <1>1 DEF StageFits, TypeOK, AtMessage
<1>4. /\ \A m : Handled(m)' <=> Handled(m)
      /\ \A m, x : Safe(m, x)' <=> Safe(m, x)
  BY <1>1, HandledUnchanged
<1>5. CursorsSafe' /\ BatchHeld' /\ GroupsOrdered'
  BY <1>1, <1>4 DEF CursorsSafe, Below, BatchHeld, GroupsOrdered
<1>6. DeliveriesKnown' /\ KeyOrder'
  BY <1>1, <1>4 DEF DeliveriesKnown, KeyOrder, Stored
<1> QED BY <1>2, <1>3, <1>5, <1>6

-----------------------------------------------------------------------------
(* The steps of the runner.                                                  *)

\* A new delivery of from..to-1, when nothing before from will be missed.
LEMMA DeliverStep ==
  ASSUME ConsumerInv, NEW from \in 0..N, NEW to \in 0..N, from <= to, Below(from),
         delivery < MaxDeliveries, delivery' = delivery + 1,
         StartGroups(delivery + 1, from, to), phase' = "running",
         lo' = from, hi' = to,
         UNCHANGED <<committed, resolved, runnerSince, tries, effects, faults>>
  PROVE  ConsumerInv'
<1> USE DEF ConsumerInv
<1> DEFINE batch(k) == {m \in from..(to - 1) : KeyOf[m] = k}
           new(g) == g[1] = delivery + 1 /\ batch(g[2]) # {}
<1>1. /\ left' = [g \in Groups |-> IF new(g) THEN batch(g[2]) ELSE left[g]]
      /\ stage' = [g \in Groups |-> IF new(g) THEN "parse" ELSE stage[g]]
  BY DEF StartGroups
<1>2. UNCHANGED <<appends, processed, deadLettered>> BY DEF effects
<1>3. \A k : batch(k) \subseteq Offsets
  BY SizeAssumption DEF Offsets
<1>4. delivery \in Nat /\ MaxDeliveries \in Nat /\ delivery + 1 \in Deliveries
  BY SizeAssumption DEF TypeOK, Deliveries
<1>5. /\ \A m : Handled(m)' <=> Handled(m)
      /\ \A m, x : Safe(m, x)' <=> Safe(m, x)
  BY <1>2, HandledUnchanged
<1> HIDE DEF new
<1>6. TypeOK'
  <2>1. left' \in [Groups -> SUBSET Offsets] BY <1>1, <1>3 DEF TypeOK
  <2>2. stage' \in [Groups -> Stages] BY <1>1 DEF TypeOK, Stages
  <2>3. delivery' \in 0..MaxDeliveries BY <1>4
  <2> QED BY <1>2, <2>1, <2>2, <2>3 DEF TypeOK, Phases
<1>7. CursorsSafe' BY <1>5 DEF CursorsSafe, Below
<1>8. BatchHeld'
  <2> SUFFICES ASSUME NEW m \in Offsets, from <= m, m < to
               PROVE  m \in left'[<<delivery + 1, KeyOf[m]>>]
    BY DEF BatchHeld
  <2>1. m \in from..(to - 1) /\ KeyOf[m] \in Keys
    BY OffsetsNat, LogAssumption
  <2>2. m \in batch(KeyOf[m]) BY <2>1
  <2>3. <<delivery + 1, KeyOf[m]>> \in Groups BY <1>4, <2>1 DEF Groups
  <2>4. new(<<delivery + 1, KeyOf[m]>>) BY <2>2 DEF new
  <2> QED BY <1>1, <2>2, <2>3, <2>4
<1>9. GroupsOrdered'
  <2> SUFFICES ASSUME NEW g \in Groups, NEW x \in left'[g]
               PROVE  /\ KeyOf[x] = g[2]
                      /\ \A m \in Offsets : m < x /\ KeyOf[m] = g[2] =>
                           Safe(m, x) \/ m \in left'[g]
    BY <1>5 DEF GroupsOrdered
  <2>1. CASE ~new(g)
    <3>1. left'[g] = left[g] BY <1>1, <2>1
    <3> QED BY <3>1 DEF GroupsOrdered
  <2>2. CASE new(g)
    <3>1. left'[g] = batch(g[2]) BY <1>1, <2>2
    <3>2. x \in from..(to - 1) /\ KeyOf[x] = g[2] BY <3>1
    <3>3. ASSUME NEW m \in Offsets, m < x, KeyOf[m] = g[2]
          PROVE  Safe(m, x) \/ m \in batch(g[2])
      <4>1. m \in Nat BY OffsetsNat
      <4>2. CASE m < from
        <5>1. Safe(m, from) BY <4>2 DEF Below
        <5>2. x \in Int /\ from \in Int /\ from <= x BY <3>2
        <5> QED BY <5>1, <5>2, SafeLater
      <4>3. CASE m >= from
        <5>1. m \in from..(to - 1) BY <3>2, <3>3, <4>1, <4>3
        <5> QED BY <3>3, <5>1
      <4> QED BY <4>1, <4>2, <4>3
    <3> QED BY <3>1, <3>2, <3>3
  <2> QED BY <2>1, <2>2
<1>10. StageFits'
  <2> SUFFICES ASSUME NEW g \in Groups
               PROVE  stage'[g] \in AtMessage <=> left'[g] # {}
    BY DEF StageFits
  <2>1. CASE ~new(g) BY <1>1, <2>1 DEF StageFits
  <2>2. CASE new(g)
    <3>1. batch(g[2]) # {} BY <2>2 DEF new
    <3>2. stage'[g] = "parse" /\ left'[g] = batch(g[2]) BY <1>1, <2>2
    <3> QED BY <3>1, <3>2 DEF AtMessage
  <2> QED BY <2>1, <2>2
<1>11. DeliveriesKnown'
  <2>1. ASSUME NEW g \in Groups, left'[g] # {} PROVE g[1] <= delivery + 1
    <3>1. CASE new(g) BY <1>4, <3>1 DEF new
    <3>2. CASE ~new(g)
      <4>1. left[g] # {} BY <1>1, <2>1, <3>2
      <4>2. g[1] \in Deliveries BY DEF Groups
      <4> QED BY <1>4, <4>1, <4>2 DEF DeliveriesKnown, Deliveries
    <3> QED BY <3>1, <3>2
  <2> QED BY <1>4, <2>1 DEF DeliveriesKnown
<1>12. KeyOrder' BY <1>2, <1>5 DEF KeyOrder, Stored
<1> QED BY <1>6, <1>7, <1>8, <1>9, <1>10, <1>11, <1>12

\* Promise.all has resolved: the whole batch is handled.
LEMMA ResolveBatchStep == ASSUME ConsumerInv, ResolveBatch PROVE ConsumerInv'
<1> USE DEF ConsumerInv
<1>1. /\ resolved' = hi /\ phase = "running" /\ phase' = "committing"
      /\ UNCHANGED <<committed, delivery, runnerSince, lo, hi, left, stage,
                     tries, appends, processed, deadLettered, faults>>
  BY DEF ResolveBatch, ResolveUpTo, GroupsDone, groups, effects
<1>2. /\ \A m : Handled(m)' <=> Handled(m)
      /\ \A m, x : Safe(m, x)' <=> Safe(m, x)
  BY <1>1, HandledUnchanged
<1>3. Below(hi)
  <2> SUFFICES ASSUME NEW m \in Offsets, m < hi PROVE Safe(m, hi) BY DEF Below
  <2>0. m \in Nat /\ lo \in Nat /\ hi \in Nat /\ lo <= hi
    BY OffsetsNat DEF TypeOK, CursorsSafe
  <2>1. CASE m < lo
    <3>1. Safe(m, lo) BY <2>1 DEF CursorsSafe, Below
    <3> QED BY <2>0, <3>1, SafeLater
  <2>2. CASE lo <= m
    <3>1. <<delivery, KeyOf[m]>> \in Groups /\ KeyOf[m] \in Keys
      BY <1>1, LogAssumption DEF Groups, DeliveriesKnown
    <3>2. stage[<<delivery, KeyOf[m]>>] \in {"idle", "done"}
      BY <3>1 DEF ResolveBatch, GroupsDone
    <3>3. left[<<delivery, KeyOf[m]>>] = {}
      BY <3>1, <3>2 DEF StageFits, AtMessage
    <3> QED BY <1>1, <2>2, <3>3 DEF BatchHeld, Safe
  <2> QED BY <2>0, <2>1, <2>2
<1>4. CursorsSafe' BY <1>1, <1>2, <1>3 DEF CursorsSafe, Below
<1>5. TypeOK' BY <1>1 DEF TypeOK, Phases
<1>6. BatchHeld' /\ GroupsOrdered' /\ StageFits'
  BY <1>1, <1>2 DEF BatchHeld, GroupsOrdered, StageFits
<1>7. DeliveriesKnown' /\ KeyOrder'
  BY <1>1, <1>2 DEF DeliveriesKnown, KeyOrder, Stored
<1> QED BY <1>4, <1>5, <1>6, <1>7

\* A commit, a failed commit, a restart or a lost session moves the cursors
\* among positions that are safe already, and no batch is in progress after it.
LEMMA CursorStep ==
  ASSUME ConsumerInv,
         committed' \in {committed, resolved}, resolved' \in {committed, resolved},
         phase # "fetching", phase' \in Phases \ {"running"},
         runnerSince' \in 1..(MaxDeliveries + 1), faults' \in 0..MaxFaults,
         UNCHANGED <<delivery, lo, hi, groups, effects>>
  PROVE  ConsumerInv'
<1> USE DEF ConsumerInv
<1>1. UNCHANGED <<delivery, lo, hi, left, stage, tries, appends, processed,
                  deadLettered>>
  BY DEF groups, effects
<1>2. /\ \A m : Handled(m)' <=> Handled(m)
      /\ \A m, x : Safe(m, x)' <=> Safe(m, x)
  BY <1>1, HandledUnchanged
<1>3. CursorsSafe' BY <1>1, <1>2 DEF CursorsSafe, Below
<1>4. TypeOK' BY <1>1 DEF TypeOK
<1>5. BatchHeld' /\ GroupsOrdered' /\ StageFits'
  BY <1>1, <1>2 DEF BatchHeld, GroupsOrdered, StageFits
<1>6. DeliveriesKnown' /\ KeyOrder'
  BY <1>1, <1>2 DEF DeliveriesKnown, KeyOrder, Stored
<1> QED BY <1>3, <1>4, <1>5, <1>6

LEMMA CrashStep == ASSUME ConsumerInv, Crash PROVE ConsumerInv'
<1> USE DEF ConsumerInv
<1>1. /\ resolved' = committed /\ runnerSince' = delivery + 1
      /\ phase' = "fetching" /\ faults' = faults + 1 /\ faults < MaxFaults
      /\ left' = [g \in Groups |-> {}] /\ stage' = [g \in Groups |-> "idle"]
      /\ tries' = [g \in Groups |-> 0]
      /\ UNCHANGED <<committed, delivery, lo, hi, appends, processed,
                     deadLettered>>
  BY DEF Crash, Fault, effects
<1>2. /\ \A m : Handled(m)' <=> Handled(m)
      /\ \A m, x : Safe(m, x)' <=> Safe(m, x)
  BY <1>1, HandledUnchanged
<1>3. TypeOK' BY <1>1, SizeAssumption DEF TypeOK, Phases, Stages
<1>4. CursorsSafe' BY <1>1, <1>2 DEF CursorsSafe, Below
<1>5. BatchHeld' /\ GroupsOrdered' /\ StageFits'
  BY <1>1 DEF BatchHeld, GroupsOrdered, StageFits, AtMessage
<1>6. DeliveriesKnown' /\ KeyOrder'
  BY <1>1, <1>2 DEF DeliveriesKnown, KeyOrder, Stored
<1> QED BY <1>3, <1>4, <1>5, <1>6

-----------------------------------------------------------------------------
LEMMA InitConsumerInv == Init => ConsumerInv
<1> SUFFICES ASSUME Init PROVE ConsumerInv OBVIOUS
<1>1. TypeOK BY SizeAssumption DEF Init, TypeOK, Phases, Stages
<1>2. \A m \in Offsets : ~(m < 0) BY OffsetsNat
<1>3. CursorsSafe BY <1>2 DEF Init, CursorsSafe, Below
<1>4. BatchHeld /\ GroupsOrdered /\ StageFits
  BY DEF Init, BatchHeld, GroupsOrdered, StageFits, AtMessage
<1>5. DeliveriesKnown BY DEF Init, DeliveriesKnown
<1>6. KeyOrder BY DEF Init, KeyOrder, Stored
<1> QED BY <1>1, <1>3, <1>4, <1>5, <1>6 DEF ConsumerInv

LEMMA FaultType ==
  ASSUME TypeOK, Fault PROVE faults' \in 0..MaxFaults
BY SizeAssumption DEF TypeOK, Fault

\* retryWithBackoff keeps the message at its step or sends it to the DLQ, and
\* never counts beyond its limit.
LEMMA RetryType ==
  ASSUME TypeOK, NEW g \in Groups, Retry(g)
  PROVE  /\ tries' \in [Groups -> 0..MaxRetries]
         /\ \/ left' = left /\ stage' = stage
            \/ \E s \in AtMessage : GoTo(g, s)
<1>1. CASE tries[g] >= MaxRetries
  BY <1>1 DEF Retry, TypeOK, AtMessage
<1>2. CASE ~(tries[g] >= MaxRetries)
  <2>1. tries[g] \in 0..MaxRetries /\ MaxRetries \in Nat
    BY SizeAssumption DEF TypeOK
  <2>2. tries[g] + 1 \in 0..MaxRetries BY <1>2, <2>1
  <2> QED BY <1>2, <2>2 DEF Retry, TypeOK
<1> QED BY <1>1, <1>2

LEMMA GroupStep ==
  ASSUME ConsumerInv, NEW g \in Groups,
         GroupProgress(g) \/ GroupFails(g)
  PROVE  ConsumerInv'
<1>t. TypeOK /\ 0 \in 0..MaxRetries BY SizeAssumption DEF ConsumerInv
<1>f. faults \in 0..MaxFaults /\ tries \in [Groups -> 0..MaxRetries]
  BY <1>t DEF TypeOK
<1>1. CASE SkipEmpty(g) BY <1>1, SkipEmptyStep
<1>2. CASE Parse(g)
  <2>1. /\ stage[g] \in AtMessage
        /\ \E s \in AtMessage : GoTo(g, s)
        /\ UNCHANGED <<runner, processed, deadLettered>> /\ UNCHANGED appends
        /\ tries' \in [Groups -> 0..MaxRetries] /\ faults' \in 0..MaxFaults
    BY <1>2, <1>t, <1>f DEF Parse, AtMessage, effects
  <2> QED BY <2>1, StayStep
<1>3. CASE AppendEvent(g)
  <2>1. /\ stage[g] \in AtMessage
        /\ \E s \in AtMessage : GoTo(g, s)
        /\ UNCHANGED <<runner, processed, deadLettered>>
        /\ StoreEvent(g)
        /\ tries' \in [Groups -> 0..MaxRetries] /\ faults' \in 0..MaxFaults
    BY <1>3, <1>t, <1>f DEF AppendEvent, AtMessage
  <2> QED BY <2>1, StayStep
<1>4. CASE AppendFails(g)
  <2>1. /\ stage[g] \in AtMessage
        /\ UNCHANGED <<runner, processed, deadLettered>>
        /\ UNCHANGED appends \/ StoreEvent(g)
        /\ Retry(g) /\ Fault
    BY <1>4 DEF AppendFails, AtMessage
  <2> QED BY <1>t, <2>1, RetryType, FaultType, StayStep
<1>5. CASE Project(g)
  <2>1. /\ stage[g] \in AtMessage
        /\ \E s \in AtMessage : GoTo(g, s)
        /\ UNCHANGED <<runner, processed, deadLettered>> /\ UNCHANGED appends
        /\ tries' \in [Groups -> 0..MaxRetries] /\ faults' \in 0..MaxFaults
    BY <1>5, <1>f DEF Project, AtMessage, effects
  <2> QED BY <2>1, StayStep
<1>6. CASE ProjectFails(g)
  <2>1. /\ stage[g] \in AtMessage
        /\ UNCHANGED <<runner, processed, deadLettered>> /\ UNCHANGED appends
        /\ Retry(g) /\ Fault
    BY <1>6 DEF ProjectFails, AtMessage, effects
  <2> QED BY <1>t, <2>1, RetryType, FaultType, StayStep
<1>7. CASE Process(g)
  <2>1. stage[g] \in AtMessage BY <1>7 DEF Process, AtMessage
  <2> QED BY <1>7, <2>1, SettleStep DEF Process
<1>8. CASE ProcessFails(g)
  <2>1. /\ stage[g] \in AtMessage
        /\ \E s \in AtMessage : GoTo(g, s)
        /\ UNCHANGED <<runner, processed, deadLettered>> /\ UNCHANGED appends
        /\ tries' \in [Groups -> 0..MaxRetries] /\ Fault
    BY <1>8, <1>f DEF ProcessFails, AtMessage, effects
  <2> QED BY <1>t, <2>1, FaultType, StayStep
<1>9. CASE SendToDlq(g)
  <2>1. stage[g] \in AtMessage BY <1>9 DEF SendToDlq, AtMessage
  <2> QED BY <1>9, <2>1, SettleStep DEF SendToDlq
<1>10. CASE SendToDlqFails(g)
  <2>1. stage[g] \in AtMessage BY <1>10 DEF SendToDlqFails, AtMessage
  <2>2. Current(g) \in Offsets
    BY <1>t, <2>1, CurrentIsFirst DEF ConsumerInv
  <2>3. deadLettered \subseteq deadLettered' /\ deadLettered' \subseteq Offsets
    BY <1>10, <1>t, <2>2 DEF SendToDlqFails, TypeOK
  <2> QED BY <1>10, <1>t, <2>3, RejectStep, FaultType DEF SendToDlqFails
<1>11. CASE Heartbeat(g) BY <1>11, HeartbeatStep
<1>12. CASE HeartbeatFails(g)
  <2>1. UNCHANGED <<appends, processed, deadLettered>> /\ deadLettered \subseteq Offsets
    BY <1>12, <1>t DEF HeartbeatFails, effects, TypeOK
  <2> QED BY <1>12, <1>t, <2>1, RejectStep, FaultType DEF HeartbeatFails
<1> QED BY <1>1, <1>2, <1>3, <1>4, <1>5, <1>6, <1>7, <1>8, <1>9, <1>10,
           <1>11, <1>12 DEF GroupProgress, GroupFails

LEMMA RunnerStep ==
  ASSUME ConsumerInv,
         RunnerProgress \/ CommitFails \/ Restart \/ SessionLost \/ Crash
  PROVE  ConsumerInv'
<1>t. TypeOK BY DEF ConsumerInv
<1>s. /\ delivery \in Nat /\ delivery + 1 \in 1..(MaxDeliveries + 1)
      /\ runnerSince \in 1..(MaxDeliveries + 1) /\ faults \in 0..MaxFaults
  BY <1>t, SizeAssumption DEF TypeOK
<1>1. CASE Fetch
  <2>1. PICK to \in (resolved + 1)..N :
          lo' = resolved /\ hi' = to /\ StartGroups(delivery + 1, resolved, to)
    BY <1>1 DEF Fetch
  <2>2. resolved \in 0..N /\ to \in 0..N /\ Below(resolved)
    BY <1>t, SizeAssumption DEF TypeOK, ConsumerInv, CursorsSafe
  <2>3. PICK from \in 0..N : from = resolved BY <2>2
  <2> QED BY <1>1, <2>1, <2>2, <2>3, DeliverStep DEF Fetch
<1>2. CASE RetryBatch
  <2>1. lo \in 0..N /\ hi \in 0..N /\ lo <= hi /\ Below(lo)
    BY <1>t DEF TypeOK, ConsumerInv, CursorsSafe
  <2>2. PICK from \in 0..N, to \in 0..N : from = lo /\ to = hi /\ from <= to
    BY <2>1
  <2> QED BY <1>2, <2>1, <2>2, DeliverStep DEF RetryBatch
<1>3. CASE ResolveBatch BY <1>3, ResolveBatchStep
<1>4. CASE CommitBatch
  BY <1>4, <1>s, CursorStep DEF CommitBatch, Phases
<1>5. CASE CommitRejected
  BY <1>5, <1>s, CursorStep DEF CommitRejected, Phases
<1>6. CASE CommitFails
  BY <1>6, <1>s, <1>t, FaultType, CursorStep DEF CommitFails, Phases
<1>7. CASE Restart
  BY <1>7, <1>s, CursorStep DEF Restart, Phases
<1>8. CASE SessionLost
  BY <1>8, <1>s, <1>t, FaultType, CursorStep DEF SessionLost, Phases
<1>9. CASE Crash BY <1>9, CrashStep
<1> QED BY <1>1, <1>2, <1>3, <1>4, <1>5, <1>6, <1>7, <1>8, <1>9
    DEF RunnerProgress

LEMMA StutterStep == ConsumerInv /\ UNCHANGED vars => ConsumerInv'
BY DEF vars, runner, groups, effects, ConsumerInv, TypeOK, CursorsSafe, Below,
       BatchHeld, GroupsOrdered, StageFits, DeliveriesKnown, KeyOrder, Stored, Safe,
       Handled, Settled, Overtaken

\* consumer.ts:81-160 for any log: the cursors pass only messages that are settled
\* or overtaken, and each group holds what is left of its key.
THEOREM ConsumerInvariant == Spec => []ConsumerInv
<1>1. ConsumerInv /\ [Next]_vars => ConsumerInv'
  BY GroupStep, RunnerStep, StutterStep DEF Next
<1> QED BY <1>1, InitConsumerInv, PTL DEF Spec

-----------------------------------------------------------------------------
(* How often a delivery stores a message.                                    *)

\* What delivery d may still store of m: nothing was stored before the group
\* comes to m, and while it appends m, no more than the attempts it counted.
Budget(d, m) ==
  /\ appends[<<d, m>>] <= MaxRetries + 1
  /\ d > delivery => appends[<<d, m>>] = 0
  /\ m \in left[<<d, KeyOf[m]>>] =>
       /\ m # Current(<<d, KeyOf[m]>>) \/ stage[<<d, KeyOf[m]>>] = "parse" =>
            appends[<<d, m>>] = 0
       /\ m = Current(<<d, KeyOf[m]>>) /\ stage[<<d, KeyOf[m]>>] = "append" =>
            appends[<<d, m>>] <= tries[<<d, KeyOf[m]>>]

BudgetInv == \A d \in Deliveries, m \in Offsets : Budget(d, m)

\* A step of a group leaves the budgets of the other groups alone.
LEMMA BudgetOfOthers ==
  ASSUME NEW d \in Deliveries, NEW m \in Offsets, Budget(d, m),
         UNCHANGED <<delivery, left[<<d, KeyOf[m]>>], stage[<<d, KeyOf[m]>>],
                     tries[<<d, KeyOf[m]>>], appends[<<d, m>>]>>
  PROVE  Budget(d, m)'
BY DEF Budget, Current

LEMMA BudgetGroupStep ==
  ASSUME ConsumerInv, BudgetInv, NEW g \in Groups,
         GroupProgress(g) \/ GroupFails(g)
  PROVE  BudgetInv'
<1>t. TypeOK /\ StageFits /\ GroupsOrdered BY DEF ConsumerInv
<1>r. MaxRetries \in Nat BY SizeAssumption
<1> SUFFICES ASSUME NEW d \in Deliveries, NEW m \in Offsets PROVE Budget(d, m)'
  BY DEF BudgetInv
<1>b. Budget(d, m) /\ appends[<<d, m>>] \in Nat BY <1>t DEF BudgetInv, TypeOK
<1> DEFINE h == <<d, KeyOf[m]>>
<1>h. h \in Groups BY LogAssumption DEF Groups
<1>g. delivery' = delivery
  BY DEF GroupProgress, GroupFails, SkipEmpty, Parse, AppendEvent, Project, Process,
         SendToDlq, Heartbeat, AppendFails, ProjectFails, ProcessFails,
         SendToDlqFails, HeartbeatFails, runner
\* what the steps do to the message the group is at
<1>1. CASE Parse(g)
  <2>1. /\ left' = left /\ tries' = [tries EXCEPT ![g] = 0] /\ appends' = appends
        /\ stage[g] = "parse"
        /\ \E s \in {"append", "dlq"} : stage' = [stage EXCEPT ![g] = s]
    BY <1>1 DEF Parse, GoTo, effects
  <2>2. CASE h = g
    <3>1. tries'[h] = 0 /\ stage[h] = "parse" /\ stage'[h] # "parse" /\ left'[h] = left[h]
      BY <1>t, <1>h, <2>1, <2>2 DEF TypeOK
    <3> QED BY <1>b, <1>g, <2>1, <3>1 DEF Budget, Current
  <2>3. CASE h # g
    BY <1>t, <1>h, <1>b, <1>g, <2>1, <2>3, BudgetOfOthers DEF TypeOK
  <2> QED BY <2>2, <2>3
<1>2. CASE AppendEvent(g) \/ AppendFails(g)
  <2>0. stage[g] = "append" /\ stage[g] \in AtMessage
    BY <1>2 DEF AppendEvent, AppendFails, AtMessage
  <2>1. PICK c \in Offsets : c = Current(g) BY <1>t, <2>0, CurrentIsFirst
  <2>2. c \in left[g] /\ KeyOf[c] = g[2] /\ g = <<g[1], g[2]>>
    BY <1>t, <2>0, <2>1, CurrentIsFirst DEF GroupsOrdered, Groups
  <2>3. appends' = appends \/ appends' = [appends EXCEPT ![<<g[1], c>>] = @ + 1]
    BY <1>2, <2>1 DEF AppendEvent, AppendFails, StoreEvent
  <2>4. /\ left' = left
        /\ \A k \in Groups : k # g => stage'[k] = stage[k] /\ tries'[k] = tries[k]
        /\ \/ stage'[g] \in {"project", "dlq"}
           \/ stage'[g] = "append" /\ tries'[g] = tries[g] + 1
    BY <1>t, <1>2, <2>0 DEF AppendEvent, AppendFails, Retry, GoTo, TypeOK
  <2>5. CASE h # g
    <3>1. <<d, m>> # <<g[1], c>> BY <2>2, <2>5
    <3>2. appends'[<<d, m>>] = appends[<<d, m>>] BY <1>t, <2>3, <3>1 DEF TypeOK
    <3>3. stage'[h] = stage[h] /\ tries'[h] = tries[h] BY <1>h, <2>4, <2>5
    <3> QED BY <1>b, <1>g, <2>4, <3>2, <3>3, BudgetOfOthers
  <2>6. CASE h = g /\ m = c
    <3>1. tries[h] \in 0..MaxRetries BY <1>t, <1>h DEF TypeOK
    <3>2. appends[<<d, m>>] <= tries[h] BY <1>b, <2>0, <2>1, <2>2, <2>6 DEF Budget
    <3>3. appends'[<<d, m>>] \in {appends[<<d, m>>], appends[<<d, m>>] + 1}
      BY <1>t, <2>3, <2>6 DEF TypeOK
    <3>4. d <= delivery BY <1>h, <2>2, <2>6 DEF ConsumerInv, DeliveriesKnown
    <3>5. delivery \in Nat /\ d \in Nat BY <1>t DEF TypeOK, Deliveries
    <3>6. m = Current(h)' /\ left'[h] = left[h] BY <2>1, <2>4, <2>6 DEF Current
    <3>7. appends'[<<d, m>>] <= tries[h] + 1 BY <1>b, <3>1, <3>2, <3>3
    <3> QED BY <1>b, <1>g, <1>r, <2>4, <2>6, <3>1, <3>3, <3>4, <3>5, <3>6, <3>7
            DEF Budget
  <2>7. CASE h = g /\ m # c
    <3>1. appends'[<<d, m>>] = appends[<<d, m>>] BY <1>t, <2>3, <2>7 DEF TypeOK
    <3>2. m # Current(h) /\ m # Current(h)' BY <2>1, <2>4, <2>7 DEF Current
    <3> QED BY <1>b, <1>g, <2>4, <3>1, <3>2 DEF Budget
  <2> QED BY <2>5, <2>6, <2>7
<1>3. CASE Project(g) \/ ProjectFails(g) \/ ProcessFails(g)
  <2>1. /\ left' = left /\ appends' = appends /\ stage[g] \in {"project", "process"}
        /\ \A k \in Groups : k # g => stage'[k] = stage[k] /\ tries'[k] = tries[k]
        /\ stage'[g] \in {"project", "process", "dlq"}
    BY <1>t, <1>3 DEF Project, ProjectFails, ProcessFails, Retry, GoTo, TypeOK, effects
  <2>2. CASE h = g BY <1>b, <1>g, <2>1, <2>2 DEF Budget, Current
  <2>3. CASE h # g BY <1>h, <1>b, <1>g, <2>1, <2>3, BudgetOfOthers
  <2> QED BY <2>2, <2>3
<1>4. CASE SkipEmpty(g) \/ Process(g) \/ SendToDlq(g)
  <2>0. stage[g] \in AtMessage /\ Advance(g) /\ tries' = tries /\ appends' = appends
    BY <1>4 DEF SkipEmpty, Process, SendToDlq, AtMessage, effects
  <2>1. /\ left' = [left EXCEPT ![g] = @ \ {Current(g)}]
        /\ \E s \in {"parse", "heartbeat"} : stage' = [stage EXCEPT ![g] = s]
    BY <2>0 DEF Advance
  <2>2. CASE h = g
    <3>1. left'[h] = left[h] \ {Current(h)} /\ stage'[h] # "append"
      BY <1>t, <1>h, <2>1, <2>2 DEF TypeOK
    <3> QED BY <1>b, <1>g, <2>0, <3>1 DEF Budget
  <2>3. CASE h # g
    BY <1>t, <1>h, <1>b, <1>g, <2>0, <2>1, <2>3, BudgetOfOthers DEF TypeOK
  <2> QED BY <2>2, <2>3
<1>5. CASE SendToDlqFails(g) \/ HeartbeatFails(g) \/ Heartbeat(g)
  <2>1. appends' = appends /\ tries' = tries /\ left'[g] = {}
        /\ \A k \in Groups : k # g => stage'[k] = stage[k] /\ left'[k] = left[k]
    BY <1>t, <1>5 DEF SendToDlqFails, HeartbeatFails, Heartbeat, RejectGroup, GoTo,
           TypeOK, StageFits, AtMessage, effects, runner
  <2>2. CASE h = g BY <1>b, <1>g, <2>1, <2>2 DEF Budget
  <2>3. CASE h # g BY <1>h, <1>b, <1>g, <2>1, <2>3, BudgetOfOthers
  <2> QED BY <2>2, <2>3
<1> QED BY <1>1, <1>2, <1>3, <1>4, <1>5 DEF GroupProgress, GroupFails

LEMMA BudgetRunnerStep ==
  ASSUME ConsumerInv, BudgetInv,
         RunnerProgress \/ CommitFails \/ Restart \/ SessionLost \/ Crash
  PROVE  BudgetInv'
<1>t. TypeOK BY DEF ConsumerInv
<1> SUFFICES ASSUME NEW d \in Deliveries, NEW m \in Offsets PROVE Budget(d, m)'
  BY DEF BudgetInv
<1>b. Budget(d, m) /\ appends[<<d, m>>] \in Nat BY <1>t DEF BudgetInv, TypeOK
<1> DEFINE h == <<d, KeyOf[m]>>
<1>h. h \in Groups /\ h[1] = d BY LogAssumption DEF Groups
<1>1. CASE Fetch \/ RetryBatch
  <2>1. PICK from, to : StartGroups(delivery + 1, from, to)
    BY <1>1 DEF Fetch, RetryBatch
  <2>2. delivery' = delivery + 1 /\ tries' = tries /\ appends' = appends
    BY <1>1 DEF Fetch, RetryBatch, effects
  <2>3. delivery \in Nat /\ d \in Nat BY <1>t DEF TypeOK, Deliveries
  <2>4. CASE d = delivery + 1
    <3>1. appends[<<d, m>>] = 0 BY <1>b, <2>3, <2>4 DEF Budget
    <3>2. tries'[h] >= 0 BY <1>t, <1>h, <2>2 DEF TypeOK
    <3> QED BY <2>2, <2>3, <3>1, <3>2, SizeAssumption DEF Budget
  <2>5. CASE d # delivery + 1
    <3>1. left'[h] = left[h] /\ stage'[h] = stage[h]
      BY <1>h, <2>1, <2>5 DEF StartGroups
    <3> QED BY <1>b, <2>2, <2>3, <3>1 DEF Budget, Current
  <2> QED BY <2>4, <2>5
<1>2. CASE ResolveBatch \/ CommitBatch \/ CommitRejected \/ CommitFails \/ Restart
            \/ SessionLost
  <2>1. UNCHANGED <<delivery, left, stage, tries, appends>>
    BY <1>2 DEF ResolveBatch, ResolveUpTo, CommitBatch, CommitRejected, CommitFails, Restart,
           SessionLost, groups, effects
  <2> QED BY <1>b, <2>1, BudgetOfOthers
<1>3. CASE Crash
  <2>1. left'[h] = {} /\ delivery' = delivery /\ appends' = appends
    BY <1>3, <1>h DEF Crash, effects
  <2> QED BY <1>b, <2>1 DEF Budget
<1> QED BY <1>1, <1>2, <1>3 DEF RunnerProgress

LEMMA BudgetInvariant == Spec => []BudgetInv
<1>1. Init => BudgetInv
  <2> SUFFICES ASSUME Init, NEW d \in Deliveries, NEW m \in Offsets
               PROVE  Budget(d, m)
    BY DEF BudgetInv
  <2>1. <<d, KeyOf[m]>> \in Groups BY LogAssumption DEF Groups
  <2>2. left[<<d, KeyOf[m]>>] = {} /\ appends[<<d, m>>] = 0 BY <2>1 DEF Init
  <2> QED BY <2>2, SizeAssumption DEF Budget
<1>2. ConsumerInv /\ BudgetInv /\ [Next]_vars => BudgetInv'
  <2>1. BudgetInv /\ UNCHANGED vars => BudgetInv'
    BY DEF BudgetInv, Budget, Current, vars, runner, groups, effects
  <2> QED BY <2>1, BudgetGroupStep, BudgetRunnerStep DEF Next
<1> QED BY <1>1, <1>2, ConsumerInvariant, PTL DEF Spec

-----------------------------------------------------------------------------
(* The consumer implements KeyedLog.                                         *)

\* A step finishes one message, of a group that is at it, or none.
LEMMA FinishesOneMessage ==
  ASSUME ConsumerInv, Next
  PROVE  \/ Settled' = Settled
         \/ /\ committed' = committed
            /\ \E g \in Groups : /\ stage[g] \in AtMessage
                                 /\ Settled' = Settled \cup {Current(g)}
<1>1. ASSUME NEW g \in Groups, GroupProgress(g) \/ GroupFails(g)
      PROVE  \/ Settled' = Settled
             \/ /\ committed' = committed /\ stage[g] \in AtMessage
                /\ Settled' = Settled \cup {Current(g)}
  <2>1. CASE Process(g) \/ SendToDlq(g) \/ SendToDlqFails(g)
    BY <2>1 DEF Process, SendToDlq, SendToDlqFails, AtMessage, Settled, runner
  <2>2. CASE SkipEmpty(g) \/ Parse(g) \/ AppendEvent(g) \/ Project(g) \/ Heartbeat(g)
              \/ AppendFails(g) \/ ProjectFails(g) \/ ProcessFails(g)
              \/ HeartbeatFails(g)
    BY <2>2 DEF SkipEmpty, Parse, AppendEvent, Project, Heartbeat, AppendFails,
           ProjectFails, ProcessFails, HeartbeatFails, Settled, effects
  <2> QED BY <1>1, <2>1, <2>2 DEF GroupProgress, GroupFails
<1>2. CASE RunnerProgress \/ CommitFails \/ Restart \/ SessionLost \/ Crash
  BY <1>2 DEF RunnerProgress, Fetch, ResolveBatch, ResolveUpTo, CommitBatch, CommitRejected,
         RetryBatch, CommitFails, Restart, SessionLost, Crash, Settled, effects
<1> QED BY <1>1, <1>2 DEF Next

Done == {m \in Offsets : Handled(m)}

\* A step finishes a message after those of its key that are not overtaken before
\* it, or commits an offset below which every message is safe, or does neither.
LEMMA StepOfPartition ==
  ASSUME ConsumerInv, ConsumerInv', Next
  PROVE  \/ UNCHANGED <<Done, committed>>
         \/ /\ UNCHANGED Done /\ committed' \in 0..N
            /\ \A m \in Offsets : m < committed' => Safe(m, committed')
         \/ \E c \in Offsets :
              /\ Done' = Done \cup {c} /\ UNCHANGED committed
              /\ \A m \in Offsets : m < c /\ KeyOf[m] = KeyOf[c] => Safe(m, c)
<1>t. TypeOK /\ TypeOK' /\ StageFits /\ GroupsOrdered /\ CursorsSafe'
  BY DEF ConsumerInv
<1>1. CASE Settled' = Settled
  <2>1. \A m : Handled(m)' <=> Handled(m) BY <1>1 DEF Handled
  <2>2. UNCHANGED Done BY <2>1 DEF Done, Offsets
  <2>3. committed' \in 0..N BY <1>t DEF TypeOK
  <2>4. \A m \in Offsets : m < committed' => Handled(m) \/ Overtaken(m, committed')
    BY <1>t, <2>1 DEF CursorsSafe, Below, Safe
  <2> QED BY <2>2, <2>3, <2>4 DEF Safe
<1>2. ASSUME NEW g \in Groups, stage[g] \in AtMessage, committed' = committed,
             Settled' = Settled \cup {Current(g)}
      PROVE  \E c \in Offsets :
               /\ Done' = Done \cup {c} /\ UNCHANGED committed
               /\ \A m \in Offsets : m < c /\ KeyOf[m] = KeyOf[c] => Safe(m, c)
  <2>1. PICK c \in Offsets : c = Current(g) BY <1>t, <1>2, CurrentIsFirst
  <2>2. \A m \in Offsets : m < c /\ KeyOf[m] = KeyOf[c] => Safe(m, c)
    BY <1>t, <1>2, <2>1, EarlierSafe
  <2>3. \A m : Handled(m)' <=> Handled(m) \/ m = c BY <1>2, <2>1 DEF Handled
  <2>4. Done' = Done \cup {c} BY <2>3 DEF Done, Offsets
  <2> QED BY <1>2, <2>2, <2>4
<1> QED BY <1>1, <1>2, FinishesOneMessage

LEMMA StepOfLossyLog ==
  ASSUME ConsumerInv, ConsumerInv', Next
  PROVE  LossyPromise!Next \/ UNCHANGED <<Done, committed>>
<1>o. Offsets = 0..(N - 1) /\ Offsets \subseteq 0..N
  BY SizeAssumption DEF Offsets
<1>1. ASSUME NEW x \in 0..N, \A m \in Offsets : m < x => Safe(m, x)
      PROVE  LossyPromise!Before(x) \subseteq Done
  BY <1>o, <1>1 DEF LossyPromise!Before, Safe, Done
<1>2. CASE /\ UNCHANGED Done /\ committed' \in 0..N
           /\ \A m \in Offsets : m < committed' => Safe(m, committed')
  <2>1. PICK x \in 0..N : x = committed' BY <1>2
  <2>2. LossyPromise!Before(x) \subseteq Done BY <1>1, <1>2, <2>1
  <2>3. LossyPromise!Commit(x)
    BY <1>2, <2>1, <2>2 DEF LossyPromise!Commit, Done
  <2> QED BY <2>3 DEF LossyPromise!Next
<1>3. CASE \E c \in Offsets :
             /\ Done' = Done \cup {c} /\ UNCHANGED committed
             /\ \A m \in Offsets : m < c /\ KeyOf[m] = KeyOf[c] => Safe(m, c)
  <2>1. PICK c \in Offsets :
          /\ Done' = Done \cup {c} /\ UNCHANGED committed
          /\ \A m \in Offsets : m < c /\ KeyOf[m] = KeyOf[c] => Safe(m, c)
    BY <1>3
  <2>2. \A n \in LossyPromise!Before(c) : KeyOf[n] = KeyOf[c] => n \in Done
    BY <1>o, <2>1 DEF LossyPromise!Before, Safe, Done
  <2>3. LossyPromise!Finish(c) BY <2>1, <2>2 DEF LossyPromise!Finish, Done
  <2> QED BY <1>o, <2>3 DEF LossyPromise!Next
<1> QED BY <1>2, <1>3, StepOfPartition

\* When tombstones come in key order, only what has no value is overtaken.
LEMMA NothingOvertaken ==
  ASSUME TombstonesInKeyOrder, NEW m \in Offsets, NEW x, Safe(m, x)
  PROVE  Handled(m)
BY DEF TombstonesInKeyOrder, Safe, Overtaken, Handled

LEMMA StepOfKeyedLog ==
  ASSUME TombstonesInKeyOrder, ConsumerInv, ConsumerInv', Next
  PROVE  Promise!Next \/ UNCHANGED <<Done, committed>>
<1>o. Offsets = 0..(N - 1) BY DEF Offsets
<1>2. CASE /\ UNCHANGED Done /\ committed' \in 0..N
           /\ \A m \in Offsets : m < committed' => Safe(m, committed')
  <2>1. \A m \in Offsets : m < committed' => m \in Done
    BY <1>2, NothingOvertaken DEF Done
  <2>2. Promise!Commit(committed')
    BY <1>o, <1>2, <2>1 DEF Promise!Commit, Promise!Before, Done
  <2> QED BY <1>2, <2>2 DEF Promise!Next
<1>3. CASE \E c \in Offsets :
             /\ Done' = Done \cup {c} /\ UNCHANGED committed
             /\ \A m \in Offsets : m < c /\ KeyOf[m] = KeyOf[c] => Safe(m, c)
  <2>1. PICK c \in Offsets :
          /\ Done' = Done \cup {c} /\ UNCHANGED committed
          /\ \A m \in Offsets : m < c /\ KeyOf[m] = KeyOf[c] => Safe(m, c)
    BY <1>3
  <2>2. \A m \in Offsets : m < c /\ KeyOf[m] = KeyOf[c] => m \in Done
    BY <2>1, NothingOvertaken DEF Done
  <2>3. Promise!Finish(c)
    BY <1>o, <2>1, <2>2 DEF Promise!Finish, Promise!Before, Done
  <2> QED BY <1>o, <2>3 DEF Promise!Next
<1> QED BY <1>2, <1>3, StepOfPartition

-----------------------------------------------------------------------------
\* consumer.ts keeps the types of its offsets, groups and counters.
THEOREM ConsumerTypeCorrect == Spec => []TypeOK
BY ConsumerInvariant, PTL DEF ConsumerInv

\* consumer.ts:93-160: whatever the log, and whatever fails, is redelivered or
\* runs on, an offset is committed, and a message stored, only when every
\* earlier message (of its key) is processed, on the dead-letter topic, without
\* a value, or overtaken by one without a value of another key (:98).
THEOREM ConsumerMissesOnlyOvertaken == Spec => []OnlyOvertakenMissed
<1>1. ConsumerInv => OnlyOvertakenMissed
  BY DEF ConsumerInv, CursorsSafe, Below, KeyOrder, Safe, OnlyOvertakenMissed
<1> QED BY <1>1, ConsumerInvariant, PTL

\* consumer.ts:93-160: when tombstones follow only messages of their own key, no
\* offset is committed before every message below it is processed or on the
\* dead-letter topic.
THEOREM ConsumerAtLeastOnce ==
  ASSUME TombstonesInKeyOrder PROVE Spec => []AtLeastOnce
<1>1. ConsumerInv => AtLeastOnce
  BY NothingOvertaken DEF ConsumerInv, CursorsSafe, Below, AtLeastOnce
<1> QED BY <1>1, ConsumerInvariant, PTL

\* consumer.ts:86-150: nothing of a message is stored before all earlier messages
\* of its key are settled, also with groups of several deliveries at work.
THEOREM ConsumerKeyOrder ==
  ASSUME TombstonesInKeyOrder PROVE Spec => []PerKeyOrder
<1>1. ConsumerInv => PerKeyOrder
  BY NothingOvertaken DEF ConsumerInv, KeyOrder, PerKeyOrder
<1> QED BY <1>1, ConsumerInvariant, PTL

\* consumer.ts:124-127, 172-199: for any log, however many deliveries of a message
\* run side by side and whatever answers are lost, none stores it more often
\* than its retry limit allows.
THEOREM ConsumerDuplicationBounded == Spec => []BoundedDuplication
<1>1. BudgetInv => BoundedDuplication
  BY DEF BudgetInv, Budget, BoundedDuplication
<1> QED BY <1>1, BudgetInvariant, PTL

\* consumer.ts:81-160: for every log, number of deliveries and faults the consumer
\* implements the log that excuses what is overtaken.
THEOREM ConsumerImplementsLossyLog == Spec => ImplementsLossyLog
<1>1. Init => LossyPromise!Init
  BY SizeAssumption DEF Init, LossyPromise!Init, Handled, Settled
<1>2. ConsumerInv /\ ConsumerInv' /\ [Next]_vars
        => [LossyPromise!Next]_<<Done, committed>>
  <2>1. UNCHANGED vars => UNCHANGED <<Done, committed>>
    BY DEF vars, runner, effects, Done, Handled, Settled, Offsets
  <2> QED BY <2>1, StepOfLossyLog
<1> QED BY <1>1, <1>2, ConsumerInvariant, PTL
    DEF Spec, ImplementsLossyLog, LossyPromise!Spec, LossyPromise!vars, Done

\* The same with nothing excused, when tombstones follow only messages of their
\* own key.
THEOREM ConsumerImplementsKeyedLog ==
  ASSUME TombstonesInKeyOrder PROVE Spec => ImplementsKeyedLog
<1>1. Init => Promise!Init
  BY SizeAssumption DEF Init, Promise!Init, Handled, Settled
<1>2. ConsumerInv /\ ConsumerInv' /\ [Next]_vars
        => [Promise!Next]_<<Done, committed>>
  <2>1. UNCHANGED vars => UNCHANGED <<Done, committed>>
    BY DEF vars, runner, effects, Done, Handled, Settled, Offsets
  <2> QED BY <2>1, StepOfKeyedLog
<1> QED BY <1>1, <1>2, ConsumerInvariant, PTL
    DEF Spec, ImplementsKeyedLog, Promise!Spec, Promise!vars, Done
=============================================================================
