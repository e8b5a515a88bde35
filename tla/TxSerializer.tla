---------------------------- MODULE TxSerializer -----------------------------
(***************************************************************************)
(* The hot row protection of vttablet: transactions whose first statement  *)
(* addresses the same row range (the same key) are let through to the      *)
(* transaction pool a few at a time.                                       *)
(*                                                                         *)
(* A key with transactions has a queue: the number of its transactions and *)
(* a channel availableSlots, created for the second one, that holds one    *)
(* element for each transaction let through.  A transaction that finds the *)
(* channel full is one of the channel's blocked senders, which Go serves   *)
(* in order.  TxSerializer.mu is released while a transaction tries to     *)
(* send.                                                                   *)
(***************************************************************************)
EXTENDS Integers, FiniteSets, Sequences, Functions, Queues

CONSTANTS Transactions,           \* the concurrent BeginExecute calls
          Keys,                   \* table and WHERE clause of a statement
          MaxQueueSize, MaxGlobalQueueSize, ConcurrentTransactions

(* What VerifyConfig accepts (tabletenv/config.go:323-335). *)
ASSUME SerializerAssumption ==
  /\ IsFiniteSet(Transactions)
  /\ MaxQueueSize \in Nat \ {0} /\ MaxGlobalQueueSize \in Nat \ {0}
  /\ MaxQueueSize <= MaxGlobalQueueSize
  /\ ConcurrentTransactions \in Nat \ {0}

VARIABLES
  dryRun,      \* TxSerializer.dryRun, which New sets for good
  key,         \* the key of each call
  tx,          \* where each call is
  size,        \* queue.size; 0 if queues has no entry for the key
  hot,         \* the queue's channel exists
  slots,       \* the elements in the channel
  sendq,       \* the calls blocked in a send
  globalSize,  \* TxSerializer.globalSize
  ahead        \* history: the calls of the key that were queued before this
               \* one and still wait

vars == <<dryRun, key, tx, size, hot, slots, sendq, globalSize, ahead>>

TxStates == {"idle", "trying", "blocking", "waiting", "cancelled", "running"}

(* Every variable has the type its Go counterpart allows; the channel is   *)
(* never fuller than its capacity.                                         *)
TypeOK ==
  /\ dryRun \in BOOLEAN
  /\ key \in [Transactions -> Keys] /\ tx \in [Transactions -> TxStates]
  /\ size \in [Keys -> Nat] /\ hot \in [Keys -> BOOLEAN]
  /\ slots \in [Keys -> 0..ConcurrentTransactions]
  /\ sendq \in [Keys -> Seq(Transactions)]
  /\ globalSize \in Nat
  /\ ahead \in [Transactions -> SUBSET Transactions]

Init ==
  /\ dryRun \in BOOLEAN
  /\ key \in [Transactions -> Keys] /\ tx = [t \in Transactions |-> "idle"]
  /\ size = [k \in Keys |-> 0] /\ hot = [k \in Keys |-> FALSE]
  /\ slots = [k \in Keys |-> 0] /\ sendq = [k \in Keys |-> << >>]
  /\ globalSize = 0
  /\ ahead = [t \in Transactions |-> {}]
-----------------------------------------------------------------------------
Queued(k) == {t \in Transactions : key[t] = k /\ tx[t] \in {"trying", "blocking", "waiting"}}

(* History: t does not wait any more. *)
Served(t) == ahead' = [u \in Transactions |-> IF u = t THEN {} ELSE ahead[u] \ {t}]

(* lockLocked: the first transaction of a key does not wait, whatever the  *)
(* limits are.                                                             *)
LockFirst(t) ==
  /\ tx[t] = "idle" /\ size[key[t]] = 0
  /\ tx' = [tx EXCEPT ![t] = "running"]
  /\ size' = [size EXCEPT ![key[t]] = 1]
  /\ globalSize' = globalSize + 1
  /\ UNCHANGED <<dryRun, key, hot, slots, sendq, ahead>>

Exceeded(k) == globalSize >= MaxGlobalQueueSize \/ size[k] >= MaxQueueSize

(* The channel is created with the slot of the first transaction in it. *)
Heat(k) ==
  /\ hot' = [hot EXCEPT ![k] = TRUE]
  /\ slots' = [slots EXCEPT ![k] = IF hot[k] THEN @ ELSE 1]

Count(k) ==
  /\ size' = [size EXCEPT ![k] = @ + 1]
  /\ globalSize' = globalSize + 1

(* In dry-run mode the limits only log and nobody waits. *)
LockDryRun(t) ==
  /\ dryRun /\ tx[t] = "idle" /\ size[key[t]] > 0
  /\ Heat(key[t]) /\ Count(key[t])
  /\ tx' = [tx EXCEPT ![t] = "running"]
  /\ UNCHANGED <<dryRun, key, sendq, ahead>>

(* The transaction is counted and the lock released.  A transaction beyond *)
(* a limit is rejected and leaves no trace.                                *)
LockLocked(t) ==
  /\ ~dryRun /\ tx[t] = "idle" /\ size[key[t]] > 0 /\ ~Exceeded(key[t])
  /\ Heat(key[t]) /\ Count(key[t])
  /\ tx' = [tx EXCEPT ![t] = "trying"]
  /\ ahead' = [ahead EXCEPT ![t] = Queued(key[t])]
  /\ UNCHANGED <<dryRun, key, sendq>>

(* Faulty variant: the channel has room for one more. *)
GetSlotBeyond(t) ==
  /\ tx[t] \in {"trying", "blocking"} /\ slots[key[t]] <= ConcurrentTransactions
  /\ slots' = [slots EXCEPT ![key[t]] = @ + 1]
  /\ tx' = [tx EXCEPT ![t] = "running"]
  /\ Served(t)
  /\ UNCHANGED <<dryRun, key, size, hot, sendq, globalSize>>

(* A send, in the first, non-blocking attempt or in the select. *)
GetSlot(t) ==
  /\ tx[t] \in {"trying", "blocking"} /\ slots[key[t]] < ConcurrentTransactions
  /\ slots' = [slots EXCEPT ![key[t]] = @ + 1]
  /\ tx' = [tx EXCEPT ![t] = "running"]
  /\ Served(t)
  /\ UNCHANGED <<dryRun, key, size, hot, sendq, globalSize>>

NoSlot(t) ==
  /\ tx[t] = "trying" /\ slots[key[t]] = ConcurrentTransactions
  /\ tx' = [tx EXCEPT ![t] = "blocking"]
  /\ UNCHANGED <<dryRun, key, size, hot, slots, sendq, globalSize, ahead>>

Block(t) ==
  /\ tx[t] = "blocking" /\ slots[key[t]] = ConcurrentTransactions
  /\ sendq' = [sendq EXCEPT ![key[t]] = Append(@, t)]
  /\ tx' = [tx EXCEPT ![t] = "waiting"]
  /\ UNCHANGED <<dryRun, key, size, hot, slots, globalSize, ahead>>

(* ctx.Done() in the select. *)
CancelEarly(t) ==
  /\ tx[t] = "blocking"
  /\ tx' = [tx EXCEPT ![t] = "cancelled"]
  /\ Served(t)
  /\ UNCHANGED <<dryRun, key, size, hot, slots, sendq, globalSize>>

Cancel(t) ==
  /\ tx[t] = "waiting"
  /\ \E i \in 1..Len(sendq[key[t]]) :
       /\ sendq[key[t]][i] = t
       /\ sendq' = [sendq EXCEPT ![key[t]] = Without(@, i)]
  /\ tx' = [tx EXCEPT ![t] = "cancelled"]
  /\ Served(t)
  /\ UNCHANGED <<dryRun, key, size, hot, slots, globalSize>>
-----------------------------------------------------------------------------
(* unlockLocked.  The last transaction of a key deletes its queue. *)
Uncount(k) ==
  /\ size' = [size EXCEPT ![k] = @ - 1]
  /\ globalSize' = globalSize - 1

UnlockLast(t) ==
  /\ tx[t] \in {"running", "cancelled"} /\ size[key[t]] = 1
  /\ Uncount(key[t])
  /\ hot' = [hot EXCEPT ![key[t]] = FALSE]
  /\ slots' = [slots EXCEPT ![key[t]] = 0]
  /\ tx' = [tx EXCEPT ![t] = "idle"]
  /\ UNCHANGED <<dryRun, key, sendq, ahead>>

(* Faulty variant: Wait passes returnSlot = true for a cancelled call. *)
UnlockNoSlotReturning(t) ==
  /\ tx[t] = "cancelled" \/ (tx[t] = "running" /\ dryRun)
  /\ size[key[t]] # 1
  /\ Uncount(key[t])
  /\ slots' = [slots EXCEPT ![key[t]] = IF dryRun THEN @ ELSE @ - 1]
  /\ tx' = [tx EXCEPT ![t] = "idle"]
  /\ UNCHANGED <<dryRun, key, hot, sendq, ahead>>

(* A transaction that was cancelled, or a dry run, has no slot to return. *)
UnlockNoSlot(t) ==
  /\ tx[t] = "cancelled" \/ (tx[t] = "running" /\ dryRun)
  /\ size[key[t]] # 1
  /\ Uncount(key[t])
  /\ tx' = [tx EXCEPT ![t] = "idle"]
  /\ UNCHANGED <<dryRun, key, hot, slots, sendq, ahead>>

(* Faulty variant: the slot is returned and nobody is woken up. *)
UnlockHandOverUnsignalled(t) ==
  LET k == key[t] IN
  /\ tx[t] = "running" /\ ~dryRun /\ size[k] # 1
  /\ sendq[k] # << >>
  /\ Uncount(k)
  /\ slots' = [slots EXCEPT ![k] = @ - 1]
  /\ tx' = [tx EXCEPT ![t] = "idle"]
  /\ UNCHANGED <<dryRun, key, hot, sendq, ahead>>

(* The receive.  A blocked sender takes the place of the element at once.  *)
(* With the channel empty the call would block for ever, holding the lock. *)
UnlockHandOver(t) ==
  LET k == key[t] IN
  /\ tx[t] = "running" /\ ~dryRun /\ size[k] # 1
  /\ sendq[k] # << >>
  /\ Uncount(k)
  /\ sendq' = [sendq EXCEPT ![k] = Tail(@)]
  /\ tx' = [tx EXCEPT ![t] = "idle", ![Head(sendq[k])] = "running"]
  /\ Served(Head(sendq[k]))
  /\ UNCHANGED <<dryRun, key, hot, slots>>

UnlockReturn(t) ==
  LET k == key[t] IN
  /\ tx[t] = "running" /\ ~dryRun /\ size[k] # 1
  /\ sendq[k] = << >> /\ slots[k] > 0
  /\ Uncount(k)
  /\ slots' = [slots EXCEPT ![k] = @ - 1]
  /\ tx' = [tx EXCEPT ![t] = "idle"]
  /\ UNCHANGED <<dryRun, key, hot, sendq, ahead>>

Lock(t)   == LockFirst(t) \/ LockDryRun(t) \/ LockLocked(t)
Send(t)   == GetSlot(t) \/ NoSlot(t) \/ Block(t)
Unlock(t) == UnlockLast(t) \/ UnlockNoSlot(t) \/ UnlockHandOver(t) \/ UnlockReturn(t)

Next == \E t \in Transactions : Lock(t) \/ Send(t) \/ CancelEarly(t) \/ Cancel(t) \/ Unlock(t)

Spec == Init /\ [][Next]_vars

(* A call goes on, and a transaction that was let through calls done: its  *)
(* BeginExecute returns.  Nobody need start a transaction or cancel one.   *)
FairSpec == Spec /\ \A t \in Transactions : WF_vars(Send(t)) /\ WF_vars(Unlock(t))
-----------------------------------------------------------------------------
Active(k)  == {t \in Transactions : key[t] = k /\ tx[t] # "idle"}
Running(k) == {t \in Transactions : key[t] = k /\ tx[t] = "running"}

(* The counters agree with the calls: q.size counts those of the key that  *)
(* run, wait or have still to give up, and globalSize those of all keys.   *)
SizesAgree ==
  /\ \A k \in Keys : size[k] = Cardinality(Active(k))
  /\ globalSize = Cardinality({t \in Transactions : tx[t] # "idle"})

(* Outside dry-run mode the channel holds one element for each transaction *)
(* let through, so that the receive in unlockLocked, under the lock,       *)
(* "should never block" (tx_serializer.go:283); a key without a channel    *)
(* has one transaction.                                                    *)
SlotsAgree ==
  ~dryRun => \A k \in Keys : IF hot[k] THEN slots[k] = Cardinality(Running(k))
                                       ELSE Cardinality(Active(k)) <= 1

(* Outside dry-run mode no more than concurrentTransactions transactions   *)
(* of a row range are let through to the transaction pool at a time, the   *)
(* first one, which never sent to the channel itself, included.            *)
RowsProtected ==
  ~dryRun => \A k \in Keys : Cardinality(Running(k)) <= ConcurrentTransactions

(* The transactions that wait are within both limits. *)
LimitsHold ==
  ~dryRun => /\ \A k \in Keys : Cardinality(Active(k)) <= MaxQueueSize
             /\ Cardinality(UNION {Queued(k) : k \in Keys}) <= MaxGlobalQueueSize

(* The queues as a whole: counters, channel and limits are right at every  *)
(* moment, although the lock is released between counting and sending.     *)
QueuesAgree == SizesAgree /\ SlotsAgree /\ LimitsHold

(* Every transaction that is queued has its turn or gives up. *)
EveryoneServed ==
  \A t \in Transactions : tx[t] \in {"trying", "blocking", "waiting"} ~> tx[t] \in {"running", "idle"}

(* tx_serializer.go:79, 86: "Additional transactions are queued and woken  *)
(* up in arrival order", "Waiting transactions are woken up in FIFO order":*)
(* a transaction blocked on the channel is not woken up while one that was *)
(* queued before it is blocked there too.                                  *)
ArrivalOrder ==
  [][\A t \in Transactions : tx[t] = "waiting" /\ tx'[t] = "running"
       => \A u \in ahead[t] : tx[u] # "waiting"]_vars
=============================================================================
