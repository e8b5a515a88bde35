------------------------------- MODULE TxPool --------------------------------
(***************************************************************************)
(* The transaction pool of vttablet: Begin, the numbered pool of open      *)
(* transactions, the per user limiter, the connection pool underneath and  *)
(* the transaction killer.                                                 *)
(*                                                                         *)
(* A transaction goes through stages.  During Begin: "limit" (before the   *)
(* limiter), "queue" (before the count of waiters), "conn" (waiting for a  *)
(* connection), "exec" (executing the begin statement).  In the numbered   *)
(* pool: "idle", "busy" (a request uses it), "prepared" (in the prepared   *)
(* pool), "stray" (in use by nobody, for ever), "doomed" (locked by a      *)
(* thread that will roll it back).  Then "ending" (unregistered, its       *)
(* connection not yet returned) and "over".                                *)
(*                                                                         *)
(* The second connection pool, for clients that ask for found rows, is     *)
(* another instance of the same kind and is left out, and so is the dry    *)
(* run of the limiter.                                                     *)
(***************************************************************************)
EXTENDS Naturals, FiniteSets

CONSTANTS
  Clients,      \* the transactions of clients
  Redo,         \* the prepared transactions of the redo log
  Exempt,       \* clients whose workload is DBA: no timeout is enforced
  Controllers,  \* the threads that change the state of the engine
  Killer, None,
  Capacity,     \* TransactionCap: the connections of the pool
  WaiterCap,    \* TxPoolWaiterCap
  MaxPerUser    \* TransactionLimitPerUser times TransactionCap

Txs == Clients \cup Redo

ASSUME TxPoolAssumption ==
  /\ IsFiniteSet(Txs) /\ Clients \cap Redo = {} /\ Exempt \subseteq Clients
  /\ {Killer, None} \cap Controllers = {} /\ Killer # None
  /\ Capacity \in Nat /\ WaiterCap \in Nat /\ MaxPerUser \in Nat

VARIABLES
  stage,    \* the stage of each transaction
  by,       \* the thread that rolls a transaction back
  usage,    \* Impl.usageMap of the clients' user, 0 if absent
  leaked,   \* what nobody will release of it
  pool,     \* the connection pool: "closed", "open" or "closing"
  drained,  \* the connections that a closing pool has taken back
  ticking   \* the timer of the transaction killer runs

limiter == <<usage, leaked>>
poolVars == <<stage, by, limiter, pool, drained, ticking>>

BeginStages == {"limit", "queue", "conn", "exec"}
Stages == {"new", "request"} \cup BeginStages
            \cup {"idle", "busy", "prepared", "stray", "doomed", "ending", "over"}

In(S) == {t \in Txs : stage[t] \in S}

Begins     == In(BeginStages)
Registered == In({"idle", "busy", "prepared", "stray", "doomed"})
Held       == In({"exec", "idle", "busy", "prepared", "stray", "doomed", "ending"})
Doomed(c)  == {t \in Txs : by[t] = c}

TxPoolTypeOK ==
  /\ stage \in [Txs -> Stages]
  /\ by \in [Txs -> Controllers \cup {Killer, None}]
  /\ usage \in 0..MaxPerUser /\ leaked \in 0..MaxPerUser
  /\ pool \in {"closed", "open", "closing"} /\ drained \in 0..Capacity
  /\ ticking \in BOOLEAN

TxPoolInit ==
  /\ stage = [t \in Txs |-> "new"]
  /\ by = [t \in Txs |-> None]
  /\ usage = 0 /\ leaked = 0
  /\ pool = "closed" /\ drained = 0
  /\ ticking = FALSE
-----------------------------------------------------------------------------
(* Impl.Release: an absent entry stays absent. *)
Release == usage' = (IF usage = 0 THEN 0 ELSE usage - 1) /\ UNCHANGED leaked

(* Begin, limiter.Get. *)
LimiterGet(t) ==
  /\ stage[t] = "limit"
  /\ \/ /\ usage < MaxPerUser
        /\ usage' = usage + 1 /\ UNCHANGED leaked
        /\ stage' = [stage EXCEPT ![t] = "queue"]
     \/ /\ usage >= MaxPerUser
        /\ stage' = [stage EXCEPT ![t] = "over"]
        /\ UNCHANGED limiter
  /\ UNCHANGED <<by, pool, drained, ticking>>

(* waiters counts the calls until they return.  A call above waiterCap     *)
(* returns before the deferred function that would release its slot of the *)
(* limiter.                                                                *)
CountWaiter(t) ==
  /\ stage[t] = "queue"
  /\ \/ /\ Cardinality(In({"conn", "exec"})) < WaiterCap
        /\ stage' = [stage EXCEPT ![t] = "conn"]
        /\ UNCHANGED leaked
     \/ /\ Cardinality(In({"conn", "exec"})) >= WaiterCap
        /\ stage' = [stage EXCEPT ![t] = "over"]
        /\ leaked' = leaked + 1
  /\ UNCHANGED <<by, usage, pool, drained, ticking>>

(* conns.Get.  A pool that is closing still hands out the connections it   *)
(* has not taken back.                                                     *)
PoolGet(t) ==
  /\ stage[t] = "conn" /\ pool # "closed"
  /\ Cardinality(Held) + drained < Capacity
  /\ stage' = [stage EXCEPT ![t] = "exec"]
  /\ UNCHANGED <<by, limiter, pool, drained, ticking>>

(* Faulty variant: a failed begin does not release. *)
BeginFailsKeeping(t) ==
  /\ stage[t] \in {"conn", "exec"}
  /\ stage' = [stage EXCEPT ![t] = "over"]
  /\ UNCHANGED <<by, limiter, pool, drained, ticking>>

(* The pool is closed, the call timed out, MySQL refused the connection or *)
(* the begin statement failed: the deferred function recycles and releases.*)
BeginFails(t) ==
  /\ stage[t] \in {"conn", "exec"}
  /\ Release
  /\ stage' = [stage EXCEPT ![t] = "over"]
  /\ UNCHANGED <<by, pool, drained, ticking>>

(* activePool.Register; Begin returns. *)
Register(t) ==
  /\ stage[t] = "exec"
  /\ stage' = [stage EXCEPT ![t] = "idle"]
  /\ UNCHANGED <<by, limiter, pool, drained, ticking>>

BeginStep(t) == LimiterGet(t) \/ CountWaiter(t) \/ PoolGet(t) \/ BeginFails(t) \/ Register(t)
-----------------------------------------------------------------------------
(* TxPool.Get locks the transaction for a statement, a commit or a         *)
(* rollback.                                                               *)
Use(t) ==
  /\ stage[t] = "idle"
  /\ stage' = [stage EXCEPT ![t] = "busy"]
  /\ UNCHANGED <<by, limiter, pool, drained, ticking>>

(* TxConnection.Recycle: the transaction goes on. *)
Recycle(t) ==
  /\ stage[t] = "busy"
  /\ stage' = [stage EXCEPT ![t] = "idle"]
  /\ UNCHANGED <<by, limiter, pool, drained, ticking>>

(* LocalCommit and localRollback conclude it, whatever MySQL answers, and  *)
(* so does the Recycle of a closed connection.                             *)
Finish(t) ==
  /\ stage[t] = "busy"
  /\ stage' = [stage EXCEPT ![t] = "ending"]
  /\ UNCHANGED <<by, limiter, pool, drained, ticking>>

(* CommitPrepared or RollbackPrepared conclude a prepared transaction. *)
Resolve(t) ==
  /\ stage[t] = "prepared"
  /\ stage' = [stage EXCEPT ![t] = "ending"]
  /\ UNCHANGED <<by, limiter, pool, drained, ticking>>

(* GetOutdated locks transactions, LocalConclude or conclude ends them. *)
Doom(S, c) ==
  /\ stage' = [t \in Txs |-> IF t \in S THEN "doomed" ELSE stage[t]]
  /\ by' = [t \in Txs |-> IF t \in S THEN c ELSE by[t]]

Outdated == In({"idle"}) \ Exempt

Kill ==
  /\ ticking /\ Doomed(Killer) = {}
  /\ \E S \in (SUBSET Outdated) \ {{}} : Doom(S, Killer)
  /\ UNCHANGED <<limiter, pool, drained, ticking>>

Unregister(t) ==
  /\ stage[t] = "doomed"
  /\ stage' = [stage EXCEPT ![t] = "ending"]
  /\ UNCHANGED <<by, limiter, pool, drained, ticking>>

(* The rest of conclude: DBConn.Recycle and limiter.Release.  A prepared   *)
(* transaction that is rolled back stays in the redo log.                  *)
Conclude(t) ==
  /\ stage[t] = "ending"
  /\ stage' = [stage EXCEPT ![t] = IF t \in Redo /\ by[t] # None THEN "new" ELSE "over"]
  /\ by' = [by EXCEPT ![t] = None]
  /\ IF t \in Clients THEN Release ELSE UNCHANGED limiter
  /\ UNCHANGED <<pool, drained, ticking>>

(* The client starts over. *)
Again(t) ==
  /\ t \in Clients /\ stage[t] = "over"
  /\ stage' = [stage EXCEPT ![t] = "new"]
  /\ UNCHANGED <<by, limiter, pool, drained, ticking>>
=============================================================================
