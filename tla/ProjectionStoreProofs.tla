------------------------ MODULE ProjectionStoreProofs ------------------------
(***************************************************************************)
(* What the sorted set protects, for every number of transactions, calls   *)
(* in flight, amounts and window sizes: an amount is added once while the  *)
(* first call of its transaction is recent, a recent transaction is never  *)
(* pruned nor missed by a count, and a return means the amount was added   *)
(* or refused.                                                             *)
(***************************************************************************)
EXTENDS ProjectionStore, TLAPS

\* A "now" in flight is no earlier than the first of its transaction and no
\* later than the clock.
CallsDated ==
  /\ \A c \in Callers : pc[c] # "idle" =>
       since[tx[c]] # 0 /\ since[tx[c]] <= at[c] /\ at[c] <= clock
  /\ \A t \in Txs : since[t] <= clock
  /\ asked <= clock

\* So is every score; an entry is there only for a transaction the script ran
\* for, and it has left only when the first call had left the window.
EntriesDated ==
  /\ \A t \in Txs : history[t] # 0 =>
       Touched(t) /\ since[t] <= history[t] /\ history[t] <= clock
  /\ \A t \in Txs : Touched(t) => since[t] # 0
  /\ \A t \in Txs : Touched(t) /\ history[t] = 0 => since[t] <= clock - Window

AnswersFounded == \A c \in Callers : pc[c] = "answered" => Touched(tx[c])

ProjectionInv == TypeOK /\ CallsDated /\ EntriesDated /\ AnswersFounded
                   /\ OncePerWindow /\ ReturnedIsApplied

-----------------------------------------------------------------------------
LEMMA InitEstablishes == Init => ProjectionInv
BY TxsAssumption, ClockAssumption, AmountAssumption
   DEF Init, ProjectionInv, TypeOK, PCs, CallsDated, EntriesDated, Touched,
       AnswersFounded, OncePerWindow, ReturnedIsApplied

\* What the script leaves of the sorted set: the entry it wrote, and every
\* entry of a transaction whose first call is recent.
LEMMA ScriptKeeps ==
  ASSUME ProjectionInv, NEW c \in Callers, pc[c] = "sent"
  PROVE  LET h == Pruned(Scored(c), at[c])
         IN /\ h \in [Txs -> 0..MaxClock]
            /\ h[tx[c]] = at[c]
            /\ \A t \in Txs \ {tx[c]} :
                 \/ h[t] = history[t]
                 \/ h[t] = 0 /\ history[t] # 0 /\ history[t] <= clock - Window
<1> USE ClockAssumption
<1>1. /\ history \in [Txs -> 0..MaxClock] /\ tx[c] \in Txs
      /\ at[c] \in 1..MaxClock /\ at[c] <= clock /\ clock \in 1..MaxClock
  BY DEF ProjectionInv, TypeOK, CallsDated
<1>2. /\ Scored(c) \in [Txs -> 0..MaxClock] /\ Scored(c)[tx[c]] = at[c]
      /\ \A t \in Txs \ {tx[c]} : Scored(c)[t] = history[t]
  BY <1>1 DEF Scored
<1>3. Pruned(Scored(c), at[c]) \in [Txs -> 0..MaxClock]
  BY <1>1, <1>2 DEF Pruned
<1>4. Pruned(Scored(c), at[c])[tx[c]] = at[c]
  BY <1>1, <1>2 DEF Pruned
<1>5. ASSUME NEW t \in Txs \ {tx[c]}
      PROVE  \/ Pruned(Scored(c), at[c])[t] = history[t]
             \/ /\ Pruned(Scored(c), at[c])[t] = 0
                /\ history[t] # 0 /\ history[t] <= clock - Window
  BY <1>1, <1>2 DEF Pruned
<1> QED BY <1>3, <1>4, <1>5

LEMMA ApplyPreserves ==
  ASSUME ProjectionInv, NEW c \in Callers, Apply(c)
  PROVE  ProjectionInv'
<1> USE ClockAssumption DEF ProjectionInv
<1>0. TypeOK OBVIOUS
<1> PICK u \in Txs : u = tx[c] BY <1>0 DEF TypeOK
<1>1. /\ pc[c] = "sent" /\ u = tx[c] /\ IsNew(u) /\ Fits(u)
      /\ clock' = clock /\ tx' = tx /\ at' = at /\ since' = since
      /\ refused' = refused /\ returned' = returned /\ asked' = asked /\ counted' = counted
      /\ pc' = [pc EXCEPT ![c] = "answered"]
      /\ applied' = [applied EXCEPT ![u] = @ + 1]
      /\ balance' = balance + AmountOf[u]
  BY <1>0 DEF Apply, TypeOK, query
<1>2. /\ history' \in [Txs -> 0..MaxClock] /\ history'[u] = at[c]
      /\ \A t \in Txs \ {u} :
           \/ history'[t] = history[t]
           \/ history'[t] = 0 /\ history[t] # 0 /\ history[t] <= clock - Window
  BY <1>1, ScriptKeeps DEF Apply
<1>3. since[u] # 0 /\ since[u] <= at[c] /\ at[c] <= clock /\ at[c] \in 1..MaxClock
      /\ clock \in 1..MaxClock /\ since \in [Txs -> 0..MaxClock]
      /\ history \in [Txs -> 0..MaxClock] /\ applied \in [Txs -> Nat]
  BY <1>0, <1>1 DEF CallsDated, TypeOK
<1>4. TypeOK'
  <2>1. balance' \in (-MaxBalance)..MaxBalance BY <1>1 DEF Fits
  <2>2. pc' \in [Callers -> PCs] BY <1>0, <1>1 DEF TypeOK, PCs
  <2>3. applied' \in [Txs -> Nat] BY <1>1, <1>3
  <2> QED BY <2>1, <2>2, <2>3, <1>0, <1>1, <1>2 DEF TypeOK
<1>5. CallsDated'
  BY <1>0, <1>1 DEF CallsDated, TypeOK
<1>6. /\ applied'[u] = applied[u] + 1 /\ applied'[u] > 0
      /\ \A t \in Txs \ {u} : applied'[t] = applied[t]
  BY <1>1, <1>3
<1>7. \A t \in Txs : t # u => (Touched(t)' <=> Touched(t))
  BY <1>1, <1>6 DEF Touched
<1>8. Touched(u)' BY <1>6 DEF Touched
<1>9. EntriesDated'
  <2>1. ASSUME NEW t \in Txs
        PROVE  /\ history'[t] # 0 => Touched(t)' /\ since[t] <= history'[t] /\ history'[t] <= clock
               /\ Touched(t)' => since[t] # 0
               /\ Touched(t)' /\ history'[t] = 0 => since[t] <= clock - Window
    <3>1. CASE t = u BY <3>1, <1>2, <1>3, <1>8
    <3>2. CASE t # u
      BY <3>2, <2>1, <1>2, <1>3, <1>7 DEF EntriesDated
    <3> QED BY <3>1, <3>2
  <2> QED BY <2>1, <1>1 DEF EntriesDated
<1>10. AnswersFounded'
  BY <1>0, <1>1, <1>7, <1>8 DEF AnswersFounded, TypeOK
<1>11. OncePerWindow'
  <2>1. ASSUME NEW t \in Txs, applied'[t] > 1 PROVE ~Recent(t)'
    <3>1. CASE t # u
      BY <3>1, <2>1, <1>1, <1>6 DEF OncePerWindow, Recent
    <3>2. CASE t = u
      <4>1. applied[u] > 0 BY <3>2, <2>1, <1>3, <1>6
      <4>2. history[u] = 0 /\ Touched(u) BY <4>1, <1>1 DEF IsNew, Touched
      <4>3. since[u] <= clock - Window BY <4>2, <1>1 DEF EntriesDated
      <4> QED BY <4>3, <3>2, <1>1, <1>3 DEF Recent
    <3> QED BY <3>1, <3>2
  <2> QED BY <2>1 DEF OncePerWindow
<1>12. ReturnedIsApplied'
  BY <1>0, <1>1, <1>3, <1>6 DEF ReturnedIsApplied, TypeOK
<1> QED BY <1>4, <1>5, <1>9, <1>10, <1>11, <1>12

LEMMA RefreshPreserves ==
  ASSUME ProjectionInv, NEW c \in Callers, Refresh(c)
  PROVE  ProjectionInv'
<1> USE ClockAssumption DEF ProjectionInv
<1>0. TypeOK OBVIOUS
<1> PICK u \in Txs : u = tx[c] BY <1>0 DEF TypeOK
<1>1. /\ pc[c] = "sent" /\ u = tx[c] /\ ~IsNew(u)
      /\ clock' = clock /\ tx' = tx /\ at' = at /\ since' = since
      /\ refused' = refused /\ returned' = returned /\ asked' = asked /\ counted' = counted
      /\ pc' = [pc EXCEPT ![c] = "answered"]
      /\ applied' = applied /\ balance' = balance
  BY <1>0 DEF Refresh, TypeOK, query, ghosts
<1>2. /\ history' \in [Txs -> 0..MaxClock] /\ history'[u] = at[c]
      /\ \A t \in Txs \ {u} :
           \/ history'[t] = history[t]
           \/ history'[t] = 0 /\ history[t] # 0 /\ history[t] <= clock - Window
  BY <1>1, ScriptKeeps DEF Refresh
<1>3. since[u] # 0 /\ since[u] <= at[c] /\ at[c] <= clock /\ at[c] \in 1..MaxClock
      /\ clock \in 1..MaxClock /\ since \in [Txs -> 0..MaxClock]
      /\ history \in [Txs -> 0..MaxClock]
  BY <1>0, <1>1 DEF CallsDated, TypeOK
<1>4. TypeOK'
  BY <1>0, <1>1, <1>2 DEF TypeOK, PCs
<1>5. CallsDated'
  BY <1>0, <1>1 DEF CallsDated, TypeOK
<1>6. \A t \in Txs : Touched(t)' <=> Touched(t)
  BY <1>1 DEF Touched
<1>7. Touched(u) BY <1>1 DEF EntriesDated, IsNew
<1>8. EntriesDated'
  <2>1. ASSUME NEW t \in Txs
        PROVE  /\ history'[t] # 0 => Touched(t) /\ since[t] <= history'[t] /\ history'[t] <= clock
               /\ Touched(t) => since[t] # 0
               /\ Touched(t) /\ history'[t] = 0 => since[t] <= clock - Window
    <3>1. CASE t = u BY <3>1, <1>2, <1>3, <1>7
    <3>2. CASE t # u
      BY <3>2, <2>1, <1>2, <1>3 DEF EntriesDated
    <3> QED BY <3>1, <3>2
  <2> QED BY <2>1, <1>1, <1>6 DEF EntriesDated
<1>9. AnswersFounded'
  BY <1>0, <1>1, <1>6, <1>7 DEF AnswersFounded, TypeOK
<1>10. OncePerWindow' BY <1>1 DEF OncePerWindow, Recent
<1>11. ReturnedIsApplied' BY <1>1 DEF ReturnedIsApplied
<1> QED BY <1>4, <1>5, <1>8, <1>9, <1>10, <1>11

LEMMA IncrbyFailsPreserves ==
  ASSUME ProjectionInv, NEW c \in Callers, IncrbyFails(c)
  PROVE  ProjectionInv'
<1> USE ClockAssumption DEF ProjectionInv
<1>0. TypeOK OBVIOUS
<1> PICK u \in Txs : u = tx[c] BY <1>0 DEF TypeOK
<1>1. /\ pc[c] = "sent" /\ u = tx[c]
      /\ clock' = clock /\ tx' = tx /\ at' = at /\ since' = since
      /\ returned' = returned /\ asked' = asked /\ counted' = counted
      /\ applied' = applied /\ balance' = balance
      /\ pc' = [pc EXCEPT ![c] = "error"]
      /\ refused' = refused \cup {u}
      /\ history' = [history EXCEPT ![u] = at[c]]
  BY <1>0 DEF IncrbyFails, TypeOK, query, Scored
<1>2. since[u] # 0 /\ since[u] <= at[c] /\ at[c] <= clock /\ at[c] \in 1..MaxClock
  BY <1>0, <1>1 DEF CallsDated, TypeOK
<1>3. TypeOK' BY <1>0, <1>1, <1>2 DEF TypeOK, PCs
<1>4. CallsDated' BY <1>0, <1>1 DEF CallsDated, TypeOK
<1>5. \A t \in Txs : t # u => (Touched(t)' <=> Touched(t))
  BY <1>1 DEF Touched
<1>6. Touched(u)' BY <1>1 DEF Touched
<1>7. EntriesDated'
  BY <1>0, <1>1, <1>2, <1>5, <1>6 DEF EntriesDated, TypeOK
<1>8. AnswersFounded'
  BY <1>0, <1>1, <1>5, <1>6 DEF AnswersFounded, TypeOK
<1>9. OncePerWindow' BY <1>1 DEF OncePerWindow, Recent
<1>10. ReturnedIsApplied' BY <1>1 DEF ReturnedIsApplied
<1> QED BY <1>3, <1>4, <1>7, <1>8, <1>9, <1>10

\* The steps that leave Redis alone, the clock apart.
LEMMA TickPreserves == ProjectionInv /\ Tick => ProjectionInv'
<1> SUFFICES ASSUME ProjectionInv, Tick PROVE ProjectionInv' OBVIOUS
<1>1. /\ clock' = clock + 1 /\ clock \in 1..MaxClock /\ clock < MaxClock
      /\ UNCHANGED <<history, balance, pc, tx, at, asked, counted, since,
                     applied, refused, returned>>
  BY DEF ProjectionInv, TypeOK, Tick, redis, calls, query, ghosts
<1>2. TypeOK' BY <1>1, ClockAssumption DEF ProjectionInv, TypeOK
<1>3. CallsDated'
  BY <1>1, ClockAssumption DEF ProjectionInv, TypeOK, CallsDated
<1>4. EntriesDated'
  BY <1>1, ClockAssumption DEF ProjectionInv, TypeOK, EntriesDated, Touched
<1>5. AnswersFounded' /\ ReturnedIsApplied'
  BY <1>1 DEF ProjectionInv, AnswersFounded, Touched, ReturnedIsApplied
<1>6. OncePerWindow'
  BY <1>1, ClockAssumption DEF ProjectionInv, TypeOK, OncePerWindow, Recent
<1> QED BY <1>2, <1>3, <1>4, <1>5, <1>6 DEF ProjectionInv

LEMMA CallPreserves ==
  ASSUME ProjectionInv, NEW c \in Callers, NEW t \in Txs, Call(c, t)
  PROVE  ProjectionInv'
<1> USE ClockAssumption DEF ProjectionInv
<1>0. TypeOK OBVIOUS
<1>1. /\ pc[c] = "idle"
      /\ pc' = [pc EXCEPT ![c] = "sent"] /\ tx' = [tx EXCEPT ![c] = t]
      /\ at' = [at EXCEPT ![c] = clock]
      /\ since' = [since EXCEPT ![t] = IF @ = 0 THEN clock ELSE @]
      /\ UNCHANGED <<clock, history, balance, asked, counted, applied, refused, returned>>
  BY DEF Call, redis, query
<1>2. clock \in 1..MaxClock /\ since \in [Txs -> 0..MaxClock]
  BY <1>0 DEF TypeOK
<1>3. /\ since'[t] # 0 /\ since'[t] <= clock
      /\ \A s \in Txs : since[s] # 0 => since'[s] = since[s]
      /\ \A s \in Txs : s # t => since'[s] = since[s]
  BY <1>1, <1>2 DEF CallsDated
<1>4. TypeOK' BY <1>0, <1>1, <1>2 DEF TypeOK, PCs
<1>5. CallsDated'
  <2>1. ASSUME NEW d \in Callers, pc'[d] # "idle"
        PROVE  since'[tx'[d]] # 0 /\ since'[tx'[d]] <= at'[d] /\ at'[d] <= clock
    <3>1. CASE d = c BY <3>1, <1>0, <1>1, <1>2, <1>3 DEF TypeOK
    <3>2. CASE d # c
      <4>1. pc'[d] = pc[d] /\ tx'[d] = tx[d] /\ at'[d] = at[d] /\ tx[d] \in Txs
        BY <3>2, <1>0, <1>1 DEF TypeOK
      <4> QED BY <4>1, <2>1, <1>3 DEF CallsDated
    <3> QED BY <3>1, <3>2
  <2>2. ASSUME NEW s \in Txs PROVE since'[s] <= clock
    <3>1. since[s] <= clock BY DEF CallsDated
    <3>2. CASE s = t BY <3>2, <1>3
    <3>3. CASE s # t BY <3>1, <3>3, <1>3
    <3> QED BY <3>2, <3>3
  <2> QED BY <2>1, <2>2, <1>1 DEF CallsDated
<1>6. \A s \in Txs : Touched(s)' <=> Touched(s) BY <1>1 DEF Touched
<1>7. EntriesDated' BY <1>1, <1>3, <1>6 DEF EntriesDated
<1>8. AnswersFounded' BY <1>0, <1>1, <1>6 DEF AnswersFounded, TypeOK
<1>9. OncePerWindow'
  <2>1. ASSUME NEW s \in Txs, applied[s] > 1 PROVE ~Recent(s)'
    <3>1. Touched(s) BY <2>1, <1>0 DEF Touched, TypeOK
    <3>2. since'[s] = since[s] BY <3>1, <1>3 DEF EntriesDated
    <3> QED BY <3>2, <2>1, <1>1 DEF OncePerWindow, Recent
  <2> QED BY <2>1, <1>1 DEF OncePerWindow
<1>10. ReturnedIsApplied' BY <1>1 DEF ReturnedIsApplied
<1> QED BY <1>4, <1>5, <1>7, <1>8, <1>9, <1>10

LEMMA AnswerPreserves ==
  ASSUME ProjectionInv, NEW c \in Callers, Resend(c) \/ Return(c) \/ Throw(c)
  PROVE  ProjectionInv'
<1> USE DEF ProjectionInv
<1>0. TypeOK OBVIOUS
<1>1. /\ pc[c] # "idle" /\ tx[c] \in Txs
      /\ \E s \in {"sent", "idle"} : pc' = [pc EXCEPT ![c] = s]
      /\ UNCHANGED <<clock, history, balance, tx, at, asked, counted, since,
                     applied, refused>>
      /\ \/ returned' = returned
         \/ pc[c] = "answered" /\ returned' = returned \cup {tx[c]}
  BY <1>0 DEF TypeOK, Resend, Return, Throw, redis, query, ghosts
<1>2. \A d \in Callers : pc'[d] # "idle" => pc[d] # "idle"
  BY <1>0, <1>1 DEF TypeOK
<1>3. \A d \in Callers : pc'[d] = "answered" => pc[d] = "answered"
  BY <1>0, <1>1 DEF TypeOK
<1>4. TypeOK' BY <1>0, <1>1 DEF TypeOK, PCs
<1>5. CallsDated' BY <1>1, <1>2 DEF CallsDated
<1>6. \A t \in Txs : Touched(t)' <=> Touched(t) BY <1>1 DEF Touched
<1>7. EntriesDated' BY <1>1, <1>6 DEF EntriesDated
<1>8. AnswersFounded'
  BY <1>0, <1>1, <1>3, <1>6 DEF AnswersFounded, TypeOK
<1>9. OncePerWindow' BY <1>1 DEF OncePerWindow, Recent
<1>10. ReturnedIsApplied'
  BY <1>1 DEF ReturnedIsApplied, AnswersFounded, Touched
<1> QED BY <1>4, <1>5, <1>7, <1>8, <1>9, <1>10

LEMMA QueryPreserves == ProjectionInv /\ (Ask \/ Count) => ProjectionInv'
<1> SUFFICES ASSUME ProjectionInv, Ask \/ Count PROVE ProjectionInv' OBVIOUS
<1>1. /\ asked' \in {0, clock} /\ counted' \in {counted} \cup SUBSET Txs
      /\ UNCHANGED <<clock, history, balance, pc, tx, at, since, applied,
                     refused, returned>>
  BY DEF Ask, Count, redis, calls, ghosts
<1>2. TypeOK' BY <1>1, ClockAssumption DEF ProjectionInv, TypeOK
<1>3. CallsDated' BY <1>1 DEF ProjectionInv, TypeOK, CallsDated
<1>4. EntriesDated' /\ AnswersFounded'
  BY <1>1 DEF ProjectionInv, EntriesDated, AnswersFounded, Touched
<1>5. OncePerWindow' /\ ReturnedIsApplied'
  BY <1>1 DEF ProjectionInv, OncePerWindow, Recent, ReturnedIsApplied
<1> QED BY <1>2, <1>3, <1>4, <1>5 DEF ProjectionInv

LEMMA StepPreserves == ProjectionInv /\ [Next]_vars => ProjectionInv'
<1> SUFFICES ASSUME ProjectionInv, [Next]_vars PROVE ProjectionInv' OBVIOUS
<1>1. CASE Tick BY <1>1, TickPreserves
<1>2. ASSUME NEW c \in Callers, NEW t \in Txs, Call(c, t) PROVE ProjectionInv'
  BY <1>2, CallPreserves
<1>3. ASSUME NEW c \in Callers, Apply(c) PROVE ProjectionInv'
  BY <1>3, ApplyPreserves
<1>4. ASSUME NEW c \in Callers, Refresh(c) PROVE ProjectionInv'
  BY <1>4, RefreshPreserves
<1>5. ASSUME NEW c \in Callers, IncrbyFails(c) PROVE ProjectionInv'
  BY <1>5, IncrbyFailsPreserves
<1>6. ASSUME NEW c \in Callers, Resend(c) \/ Return(c) \/ Throw(c)
      PROVE ProjectionInv'
  BY <1>6, AnswerPreserves
<1>7. CASE Ask \/ Count BY <1>7, QueryPreserves
<1>8. CASE UNCHANGED vars
  BY <1>8 DEF vars, redis, calls, query, ghosts, ProjectionInv, TypeOK,
     CallsDated, EntriesDated, Touched, AnswersFounded, OncePerWindow, Recent,
     ReturnedIsApplied
<1> QED BY <1>1, <1>2, <1>3, <1>4, <1>5, <1>6, <1>7, <1>8 DEF Next

\* projection-store.ts: the times captured by calls, and left in tx_history by their
\* scripts, lie where ProjectionInv says.
THEOREM ProjectionInvariant == Spec => []ProjectionInv
BY InitEstablishes, StepPreserves, PTL DEF Spec

-----------------------------------------------------------------------------
\* TypeOK of the projection store: scores stay within the clock and the
\* balance within what INCRBY accepts (processTransaction).
THEOREM ProjectionTypeCorrect == Spec => []TypeOK
<1>1. ProjectionInv => TypeOK BY DEF ProjectionInv
<1> QED BY <1>1, ProjectionInvariant, PTL

\* The ZADD guard of the Lua script makes processTransaction apply an amount
\* once while the first call of its transaction is inside the window.
THEOREM AppliedOncePerWindow == Spec => []OncePerWindow
<1>1. ProjectionInv => OncePerWindow BY DEF ProjectionInv
<1> QED BY <1>1, ProjectionInvariant, PTL

\* A call of processTransaction returns only when the amount was added, or was
\* refused by INCRBY after the ZADD of the same script.
THEOREM ReturnsFounded == Spec => []ReturnedIsApplied
<1>1. ProjectionInv => ReturnedIsApplied BY DEF ProjectionInv
<1> QED BY <1>1, ProjectionInvariant, PTL

LEMMA RecentEntries == ProjectionInv => RecentAreKept
BY ClockAssumption
   DEF ProjectionInv, TypeOK, CallsDated, EntriesDated, RecentAreKept, Recent

\* No cleanup of the Lua script, whatever "now" it carries, drops a recent
\* transaction.
THEOREM RecentTransactionsKept == Spec => []RecentAreKept
BY RecentEntries, ProjectionInvariant, PTL

\* getTransactionCount misses no recent transaction.
THEOREM CountsComplete == Spec => NeverUndercounts
<1>1. ProjectionInv /\ [Next]_vars =>
        [asked # 0 /\ asked' = 0 =>
           {t \in Txs : Touched(t) /\ Recent(t)} \subseteq counted']_vars
  <2> SUFFICES ASSUME ProjectionInv, [Next]_vars, asked # 0, asked' = 0
               PROVE  {t \in Txs : Touched(t) /\ Recent(t)} \subseteq counted'
    OBVIOUS
  <2>1. Count
    BY DEF Next, vars, query, Tick, Call, Apply, Refresh, IncrbyFails, Resend,
           Return, Throw, Ask
  <2>2. counted' = {t \in Txs : history[t] # 0 /\ history[t] >= asked - Window}
    BY <2>1 DEF Count
  <2>3. ASSUME NEW t \in Txs, Touched(t), Recent(t)
        PROVE  history[t] # 0 /\ history[t] >= asked - Window
    BY <2>3, RecentEntries, ClockAssumption
       DEF RecentAreKept, Recent, ProjectionInv, TypeOK, CallsDated
  <2> QED BY <2>2, <2>3
<1> QED BY <1>1, ProjectionInvariant, PTL DEF Spec, NeverUndercounts
=============================================================================
