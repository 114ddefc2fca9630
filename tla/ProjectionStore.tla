--------------------------- MODULE ProjectionStore ---------------------------
(***************************************************************************)
(* ProjectionStore (store/projection_store/projection-store.ts): one       *)
(* user's balance and sorted set of recent transactions in Redis, the      *)
(* consumers that call processTransaction and the velocity rule that calls *)
(* getTransactionCount.                                                    *)
(*                                                                         *)
(* The Lua script is atomic, but its "now" is the time of the call: a call *)
(* that was delayed, resent by ioredis or repeated by the consumer runs    *)
(* the script late, beside calls made after it.  The sorted set is both    *)
(* the velocity window and the memory of what was already applied.         *)
(***************************************************************************)
EXTENDS Integers, FiniteSets

CONSTANTS Txs,         \* transactions of the user
          AmountOf,    \* transaction -> amount in minor units
          MaxBalance,  \* INCRBY refuses a result beyond it (2^63 - 1)
          MaxPrinted,  \* beyond it Lua prints the amount as 1e+17 (10^17 - 1)
          Window,      \* VELOCITY_WINDOW_SECONDS, in ticks
          Callers,     \* calls of processTransaction in flight at once
          MaxClock     \* bound: ticks of the clock

ASSUME TxsAssumption    == Txs # {}
ASSUME AmountAssumption == /\ AmountOf \in [Txs -> Int]
                           /\ MaxBalance \in Nat /\ MaxPrinted \in Nat
ASSUME ClockAssumption  == Window \in Nat \ {0} /\ MaxClock \in Nat \ {0}

VARIABLES clock,     \* Date.now()
          history,   \* user:<id>:tx_history: transaction -> score, 0 if absent
          balance,   \* user:<id>:balance
          pc,        \* where each call of processTransaction is
          tx, at,    \* its transaction, and the "now" it captured
          asked,     \* "now" of the running getTransactionCount, 0 if none
          counted,   \* transactions its ZCOUNT found
          since,     \* transaction -> "now" of its first call, 0 if none
          applied,   \* transaction -> times INCRBY added its amount
          refused,   \* transactions whose INCRBY was refused
          returned   \* transactions for which some call returned

redis  == <<history, balance>>
calls  == <<pc, tx, at>>
query  == <<asked, counted>>
ghosts == <<since, applied, refused, returned>>
vars   == <<clock, redis, calls, query, ghosts>>

PCs == {"idle", "sent", "answered", "error"}

Init ==
  /\ clock = 1
  /\ history = [t \in Txs |-> 0]
  /\ balance = 0
  /\ pc = [c \in Callers |-> "idle"]
  /\ tx = [c \in Callers |-> CHOOSE t \in Txs : TRUE]
  /\ at = [c \in Callers |-> 1]
  /\ asked = 0 /\ counted = {}
  /\ since = [t \in Txs |-> 0]
  /\ applied = [t \in Txs |-> 0]
  /\ refused = {} /\ returned = {}

Tick ==
  /\ clock < MaxClock
  /\ clock' = clock + 1
  /\ UNCHANGED <<redis, calls, query, ghosts>>

\* processTransaction(userId, amount, t, window) is called: for a delivery, a
\* retry of the consumer, or a redelivery.
Call(c, t) ==
  /\ pc[c] = "idle"
  /\ pc' = [pc EXCEPT ![c] = "sent"]
  /\ tx' = [tx EXCEPT ![c] = t]
  /\ at' = [at EXCEPT ![c] = clock]
  /\ since' = [since EXCEPT ![t] = IF @ = 0 THEN clock ELSE @]
  /\ UNCHANGED <<clock, redis, query, applied, refused, returned>>

-----------------------------------------------------------------------------
(* The Lua script, for the call c.                                         *)

\* Mutants of IsNew: the test dropped; the test inverted.
IsNewAlways(t) == TRUE
IsNewInverted(t) == history[t] # 0

\* ZADD returns 1.
IsNew(t) == history[t] = 0

\* Mutants of Pruned: everything but "now" goes; a boundary one tick late.
PrunedToNow(h, now) == [t \in Txs |-> IF h[t] < now THEN 0 ELSE h[t]]
PrunedOneMore(h, now) ==
  [t \in Txs |-> IF h[t] <= now - Window + 1 THEN 0 ELSE h[t]]

\* ZREMRANGEBYSCORE -inf windowStart.
Pruned(h, now) == [t \in Txs |-> IF h[t] <= now - Window THEN 0 ELSE h[t]]

\* ZADD stores the score of the call, also over one that is there.
Scored(c) == [history EXCEPT ![tx[c]] = at[c]]

\* Mutant of Fits: an INCRBY without overflow check.
FitsAlways(t) == TRUE

\* INCRBY takes the text of a Lua number, if it is one of an integer, and
\* refuses to leave the range of 64 bits.
Fits(t) == /\ AmountOf[t] \in (-MaxPrinted)..MaxPrinted
           /\ balance + AmountOf[t] \in (-MaxBalance)..MaxBalance

Apply(c) ==
  /\ pc[c] = "sent"
  /\ IsNew(tx[c]) /\ Fits(tx[c])
  /\ balance' = balance + AmountOf[tx[c]]
  /\ history' = Pruned(Scored(c), at[c])
  /\ applied' = [applied EXCEPT ![tx[c]] = @ + 1]
  /\ pc' = [pc EXCEPT ![c] = "answered"]
  /\ UNCHANGED <<clock, tx, at, query, since, refused, returned>>

Refresh(c) ==
  /\ pc[c] = "sent"
  /\ ~IsNew(tx[c])
  /\ history' = Pruned(Scored(c), at[c])
  /\ pc' = [pc EXCEPT ![c] = "answered"]
  /\ UNCHANGED <<clock, balance, tx, at, query, ghosts>>

\* INCRBY fails and ends the script with an error.  Redis does not undo the
\* ZADD, and the cleanup is skipped.
IncrbyFails(c) ==
  /\ pc[c] = "sent"
  /\ IsNew(tx[c]) /\ ~Fits(tx[c])
  /\ history' = Scored(c)
  /\ refused' = refused \cup {tx[c]}
  /\ pc' = [pc EXCEPT ![c] = "error"]
  /\ UNCHANGED <<clock, balance, tx, at, query, since, applied, returned>>

-----------------------------------------------------------------------------
\* The connection drops before the answer: ioredis reconnects and sends the
\* same script with the same arguments again.
Resend(c) ==
  /\ pc[c] \in {"answered", "error"}
  /\ pc' = [pc EXCEPT ![c] = "sent"]
  /\ UNCHANGED <<clock, redis, tx, at, query, ghosts>>

Return(c) ==
  /\ pc[c] = "answered"
  /\ returned' = returned \cup {tx[c]}
  /\ pc' = [pc EXCEPT ![c] = "idle"]
  /\ UNCHANGED <<clock, redis, tx, at, query, since, applied, refused>>

\* ProjectionStoreError: the script failed, or ioredis gave the command up
\* before or after it was executed.
Throw(c) ==
  /\ pc[c] # "idle"
  /\ pc' = [pc EXCEPT ![c] = "idle"]
  /\ UNCHANGED <<clock, redis, tx, at, query, ghosts>>

\* getTransactionCount captures its window ...
Ask ==
  /\ asked = 0
  /\ asked' = clock
  /\ UNCHANGED <<clock, redis, calls, counted, ghosts>>

\* ... and ZCOUNT windowStart +inf answers later.
Count ==
  /\ asked # 0
  /\ counted' = {t \in Txs : history[t] # 0 /\ history[t] >= asked - Window}
  /\ asked' = 0
  /\ UNCHANGED <<clock, redis, calls, ghosts>>

Next ==
  \/ Tick
  \/ \E c \in Callers : \/ \E t \in Txs : Call(c, t)
                        \/ Apply(c) \/ Refresh(c) \/ IncrbyFails(c)
                        \/ Resend(c) \/ Return(c) \/ Throw(c)
  \/ Ask \/ Count

Spec == Init /\ [][Next]_vars

-----------------------------------------------------------------------------
\* Every variable has its type.
TypeOK ==
  /\ clock \in 1..MaxClock
  /\ history \in [Txs -> 0..MaxClock]
  /\ balance \in (-MaxBalance)..MaxBalance
  /\ pc \in [Callers -> PCs]
  /\ tx \in [Callers -> Txs]
  /\ at \in [Callers -> 1..MaxClock]
  /\ asked \in 0..MaxClock /\ counted \subseteq Txs
  /\ since \in [Txs -> 0..MaxClock]
  /\ applied \in [Txs -> Nat]
  /\ refused \subseteq Txs /\ returned \subseteq Txs

\* The first call of t is younger than the window.
Recent(t) == since[t] # 0 /\ since[t] > clock - Window

\* The script ran for t.
Touched(t) == applied[t] > 0 \/ t \in refused

\* Retries, resent scripts and redeliveries add an amount to the balance once
\* for as long as the first call of the transaction is younger than the window.
OncePerWindow == \A t \in Txs : applied[t] > 1 => ~Recent(t)

\* No script, whatever "now" it carries, drops a transaction from the sorted
\* set, or moves its score out of the window, while its first call is recent.
RecentAreKept ==
  \A t \in Txs : Touched(t) /\ Recent(t) => history[t] \in since[t]..clock

\* processTransaction returns only when the amount has been added; the one
\* exception is a transaction whose INCRBY was refused: the entry its script
\* left in the sorted set lets the retry return without adding anything.
ReturnedIsApplied ==
  \A t \in returned : applied[t] > 0 \/ t \in refused

\* The count the velocity rule gets misses no recent transaction, although its
\* window was captured before other scripts ran.
NeverUndercounts ==
  [][asked # 0 /\ asked' = 0 =>
       {t \in Txs : Touched(t) /\ Recent(t)} \subseteq counted']_vars
=============================================================================
