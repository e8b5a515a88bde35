------------------------------ MODULE TxEngine -------------------------------
(***************************************************************************)
(* The transaction engine of vttablet: the calls that move it between      *)
(* NotServing, ReadWrite and ReadOnly, the close of the transaction pool   *)
(* with its rollback goroutine, the restore of prepared transactions, and  *)
(* Begin.                                                                  *)
(*                                                                         *)
(* A controller c that calls the engine is at pc[c]: "idle", "begins"      *)
(* (beginRequests.Wait), "lock" (stateLock.Lock), "spawn" (close starts),  *)
(* "empty" (WaitForEmpty), "join" (<-rollbackDone), "ticks", "stray",      *)
(* "drain" (the three parts of TxPool.Close), "shut" (close has returned), *)
(* "signal" (about to close transitionSignal), "block" (about to read      *)
(* transitionSignal), "blocked" (waits for the channel it read) or "lost"  *)
(* (that channel was replaced while it was open).                          *)
(***************************************************************************)
EXTENDS TxPool

CONSTANTS
  Readers,           \* clients whose transactions are read-only snapshots
  PreparedCapacity,  \* TransactionCap - 2
  Grace              \* a shutdown grace period is configured

ASSUME TxEngineAssumption ==
  /\ Readers \subseteq Clients
  /\ PreparedCapacity \in Nat /\ Grace \in BOOLEAN

VARIABLES
  teState,      \* TxEngine.state
  nextState,
  stateLock,    \* the controller that holds it across steps
  signalOpen,   \* the channel transitionSignal is open
  call,         \* the call of each controller
  pc,
  rollback,     \* where the rollback goroutine of a controller's close is
  panicked,     \* transitionSignal was closed twice
  wanted,       \* the state that the last caller to take the lock asked for
  overtook      \* clients whose last Begin came between a caller's wait for
                \* beginRequests and its lock

history == <<wanted, overtook>>
engineVars == <<teState, nextState, stateLock, signalOpen, call, pc, rollback,
                panicked, history>>

Accepting == {"ReadWrite", "ReadOnly"}
EngineStates == Accepting \cup {"NotServing", "Transitioning"}

Target == [Stop |-> "NotServing", StopGently |-> "NotServing",
           AcceptReadWrite |-> "ReadWrite", AcceptReadOnly |-> "ReadOnly"]

TxEngineTypeOK ==
  /\ TxPoolTypeOK
  /\ teState \in EngineStates /\ nextState \in EngineStates \cup {None}
  /\ stateLock \in Controllers \cup {None}
  /\ signalOpen \in BOOLEAN /\ panicked \in BOOLEAN
  /\ call \in [Controllers -> DOMAIN Target]
  /\ pc \in [Controllers -> {"idle", "begins", "lock", "spawn", "empty", "join",
                             "ticks", "stray", "drain", "shut", "signal",
                             "block", "blocked", "lost"}]
  /\ rollback \in [Controllers -> {"none", "start", "prepared", "only", "nonbusy", "done"}]
  /\ wanted \in EngineStates /\ overtook \subseteq Clients

TxEngineInit ==
  /\ TxPoolInit
  /\ teState = "NotServing" /\ nextState = None /\ stateLock = None
  /\ signalOpen = FALSE /\ panicked = FALSE
  /\ call = [c \in Controllers |-> "Stop"]
  /\ pc = [c \in Controllers |-> "idle"]
  /\ rollback = [c \in Controllers |-> "none"]
  /\ wanted = "NotServing" /\ overtook = {}
-----------------------------------------------------------------------------
Goto(c, l) == pc' = [pc EXCEPT ![c] = l]

(* open with the engine's new state s: the pool and its killer start, and  *)
(* a master prepares the transactions of the redo log again: P go into the *)
(* prepared pool and L, for which it has no room, stay in use for ever;    *)
(* the others fail.                                                        *)
Open(s) ==
  LET logged == In({"new"}) \cap Redo
  IN \E P \in SUBSET logged : \E L \in SUBSET (logged \ P) :
    /\ s # "ReadWrite" => P \cup L = {}
    /\ Cardinality(P) <= PreparedCapacity
    /\ L # {} => Cardinality(P) = PreparedCapacity
    /\ Cardinality(Held) + Cardinality(P \cup L) <= Capacity
    /\ stage' = [t \in Txs |-> IF t \in P THEN "prepared"
                               ELSE IF t \in L THEN "stray" ELSE stage[t]]
    /\ pool' = "open" /\ drained' = 0 /\ ticking' = TRUE
    /\ UNCHANGED <<by, limiter>>

(* Stop, AcceptReadWrite and AcceptReadOnly start with beginRequests.Wait, *)
(* StopGently with the lock.                                               *)
Call(c, m) ==
  /\ pc[c] = "idle"
  /\ call' = [call EXCEPT ![c] = m]
  /\ Goto(c, IF m = "StopGently" THEN "lock" ELSE "begins")
  /\ UNCHANGED <<poolVars, teState, nextState, stateLock, signalOpen, rollback,
                 panicked, history>>

(* Faulty variant: the begins that run are not waited for. *)
WaitBeginsNot(c) ==
  /\ pc[c] = "begins"
  /\ Goto(c, "lock")
  /\ UNCHANGED <<poolVars, teState, nextState, stateLock, signalOpen, call, rollback,
                 panicked, history>>

WaitBegins(c) ==
  /\ pc[c] = "begins" /\ Begins = {}
  /\ Goto(c, "lock")
  /\ UNCHANGED <<poolVars, teState, nextState, stateLock, signalOpen, call, rollback,
                 panicked, history>>

(* The lock is taken: the switch on the state. *)
Locked(c) ==
  /\ pc[c] = "lock" /\ stateLock = None
  /\ wanted' = Target[call[c]] /\ UNCHANGED overtook

NothingToDo(c) ==
  /\ Locked(c)
  /\ call[c] # "StopGently" /\ teState = Target[call[c]]
  /\ Goto(c, "idle")
  /\ UNCHANGED <<poolVars, teState, nextState, stateLock, signalOpen, call, rollback, panicked>>

OpenFromNotServing(c) ==
  /\ Locked(c)
  /\ teState = "NotServing" /\ Target[call[c]] \in Accepting
  /\ teState' = Target[call[c]]
  /\ Open(teState')
  /\ Goto(c, "idle")
  /\ UNCHANGED <<nextState, stateLock, signalOpen, call, rollback, panicked>>

(* Faulty variant: the caller waits for the transition that runs. *)
RedirectNot(c) ==
  /\ Locked(c)
  /\ call[c] # "StopGently" /\ teState = "Transitioning"
  /\ Goto(c, "block")
  /\ UNCHANGED <<poolVars, teState, nextState, stateLock, signalOpen, call, rollback, panicked>>

(* The running transition will end in the state asked for here. *)
Redirect(c) ==
  /\ Locked(c)
  /\ call[c] # "StopGently" /\ teState = "Transitioning"
  /\ nextState' = Target[call[c]]
  /\ Goto(c, "block")
  /\ UNCHANGED <<poolVars, teState, stateLock, signalOpen, call, rollback, panicked>>

(* transitionTo, up to the unlock.  Whoever waits on a channel that is     *)
(* still open waits for one that nobody will close.                        *)
StartTransition(c) ==
  /\ Locked(c)
  /\ call[c] # "StopGently" /\ teState = "ReadWrite" /\ Target[call[c]] # "ReadWrite"
  /\ teState' = "Transitioning" /\ nextState' = Target[call[c]]
  /\ signalOpen' = TRUE
  /\ pc' = [d \in Controllers |-> IF d = c THEN "spawn"
                                  ELSE IF pc[d] = "blocked" THEN "lost" ELSE pc[d]]
  /\ UNCHANGED <<poolVars, stateLock, call, rollback, panicked>>

(* The engine is ReadOnly, or the call is StopGently: it closes under the  *)
(* lock.                                                                   *)
CloseLocked(c) ==
  /\ Locked(c)
  /\ \/ call[c] = "StopGently"
     \/ /\ call[c] # "StopGently"
        /\ teState = "ReadOnly" /\ Target[call[c]] # "ReadOnly"
  /\ stateLock' = c
  /\ Goto(c, "spawn")
  /\ UNCHANGED <<poolVars, teState, nextState, signalOpen, call, rollback, panicked>>

BlockUntilEnd(c) ==
  /\ pc[c] = "block"
  /\ Goto(c, IF signalOpen THEN "blocked" ELSE "idle")
  /\ UNCHANGED <<poolVars, teState, nextState, stateLock, signalOpen, call, rollback,
                 panicked, history>>
-----------------------------------------------------------------------------
(* close.  StopGently is the only caller with immediate = false. *)
Immediate(c) == call[c] # "StopGently"

Spawn(c) ==
  /\ pc[c] = "spawn"
  /\ rollback' = [rollback EXCEPT ![c] = "start"]
  /\ Goto(c, "empty")
  /\ UNCHANGED <<poolVars, teState, nextState, stateLock, signalOpen, call, panicked, history>>

(* Faulty variant: the prepared pool is not emptied. *)
FetchNone(c) ==
  /\ rollback[c] = "start"
  /\ rollback' = [rollback EXCEPT ![c] = IF Immediate(c) \/ Grace THEN "prepared" ELSE "only"]
  /\ UNCHANGED <<poolVars, teState, nextState, stateLock, signalOpen, call, pc,
                 panicked, history>>

(* The goroutine: preparedPool.FetchAll, at once, when the grace period    *)
(* ends, or, without a grace period, as the only thing it does.            *)
FetchAll(c) ==
  /\ rollback[c] = "start"
  /\ Doom(In({"prepared"}), c)
  /\ rollback' = [rollback EXCEPT ![c] = IF Immediate(c) \/ Grace THEN "prepared" ELSE "only"]
  /\ UNCHANGED <<limiter, pool, drained, ticking, teState, nextState, stateLock,
                 signalOpen, call, pc, panicked, history>>

(* poolEmpty is closed before the grace period ends. *)
EmptyInTime(c) ==
  /\ rollback[c] = "start" /\ pc[c] = "join" /\ ~Immediate(c) /\ Grace
  /\ rollback' = [rollback EXCEPT ![c] = "done"]
  /\ UNCHANGED <<poolVars, teState, nextState, stateLock, signalOpen, call, pc,
                 panicked, history>>

RollbackNonBusy(c) ==
  /\ rollback[c] = "prepared" /\ Doomed(c) = {}
  /\ Doom(Outdated, c)
  /\ rollback' = [rollback EXCEPT ![c] = "nonbusy"]
  /\ UNCHANGED <<limiter, pool, drained, ticking, teState, nextState, stateLock,
                 signalOpen, call, pc, panicked, history>>

RollbackDone(c) ==
  /\ rollback[c] \in {"only", "nonbusy"} /\ Doomed(c) = {}
  /\ rollback' = [rollback EXCEPT ![c] = "done"]
  /\ UNCHANGED <<poolVars, teState, nextState, stateLock, signalOpen, call, pc,
                 panicked, history>>

WaitForEmpty(c) ==
  /\ pc[c] = "empty" /\ Registered = {}
  /\ Goto(c, "join")
  /\ UNCHANGED <<poolVars, teState, nextState, stateLock, signalOpen, call, rollback,
                 panicked, history>>

Join(c) ==
  /\ pc[c] = "join" /\ rollback[c] = "done"
  /\ rollback' = [rollback EXCEPT ![c] = "none"]
  /\ Goto(c, "ticks")
  /\ UNCHANGED <<poolVars, teState, nextState, stateLock, signalOpen, call, panicked, history>>

(* TxPool.Close: ticks.Stop waits for the killer's pass; what is registered*)
(* by now is concluded.                                                    *)
StopTicks(c) ==
  /\ pc[c] = "ticks" /\ Doomed(Killer) = {}
  /\ ticking' = FALSE
  /\ Doom(Outdated, c)
  /\ Goto(c, "stray")
  /\ UNCHANGED <<limiter, pool, drained, teState, nextState, stateLock, signalOpen, call,
                 rollback, panicked, history>>

(* conns.Close, which a closed pool leaves at once. *)
StartDrain(c) ==
  /\ pc[c] = "stray" /\ Doomed(c) = {}
  /\ pool' = IF pool = "open" THEN "closing" ELSE pool
  /\ Goto(c, "drain")
  /\ UNCHANGED <<stage, by, limiter, drained, ticking, teState, nextState, stateLock,
                 signalOpen, call, rollback, panicked, history>>

Drain(c) ==
  /\ pc[c] = "drain" /\ pool = "closing"
  /\ Cardinality(Held) + drained < Capacity
  /\ drained' = drained + 1
  /\ UNCHANGED <<stage, by, limiter, pool, ticking, engineVars>>

Drained(c) ==
  /\ pc[c] = "drain"
  /\ pool = "closing" => drained = Capacity
  /\ pool' = "closed" /\ drained' = 0
  /\ Goto(c, "shut")
  /\ UNCHANGED <<stage, by, limiter, ticking, teState, nextState, stateLock,
                 signalOpen, call, rollback, panicked, history>>

(* After a close under the lock: the state, open for AcceptReadWrite, and  *)
(* the unlock.                                                             *)
EndLocked(c) ==
  /\ pc[c] = "shut" /\ stateLock = c
  /\ teState' = Target[call[c]]
  /\ IF teState' = "NotServing" THEN UNCHANGED poolVars ELSE Open(teState')
  /\ stateLock' = None
  /\ Goto(c, "idle")
  /\ UNCHANGED <<nextState, signalOpen, call, rollback, panicked, history>>

(* The rest of transitionTo under the lock.  If the state is not its own   *)
(* any more it returns an error; the signal is closed all the same.        *)
EndTransition(c) ==
  /\ pc[c] = "shut" /\ stateLock = None
  /\ IF teState = "Transitioning"
     THEN /\ teState' = nextState /\ nextState' = None
          /\ IF teState' = "NotServing" THEN UNCHANGED poolVars ELSE Open(teState')
     ELSE UNCHANGED <<teState, nextState, poolVars>>
  /\ Goto(c, "signal")
  /\ UNCHANGED <<stateLock, signalOpen, call, rollback, panicked, history>>

(* close(te.transitionSignal), after the unlock: of the channel that is in *)
(* the field by now.                                                       *)
CloseSignal(c) ==
  /\ pc[c] = "signal"
  /\ signalOpen' = FALSE
  /\ panicked' = ~signalOpen
  /\ pc' = [d \in Controllers |-> IF d = c \/ pc[d] = "blocked" THEN "idle" ELSE pc[d]]
  /\ UNCHANGED <<poolVars, teState, nextState, stateLock, call, rollback, history>>

CloseStep(c) ==
  \/ Spawn(c) \/ FetchAll(c) \/ EmptyInTime(c) \/ RollbackNonBusy(c) \/ RollbackDone(c)
  \/ WaitForEmpty(c) \/ Join(c) \/ StopTicks(c) \/ StartDrain(c) \/ Drain(c) \/ Drained(c)
EngineStep(c) ==
  \/ WaitBegins(c) \/ NothingToDo(c) \/ OpenFromNotServing(c) \/ Redirect(c)
  \/ StartTransition(c) \/ CloseLocked(c) \/ BlockUntilEnd(c) \/ CloseStep(c)
  \/ EndLocked(c) \/ EndTransition(c) \/ CloseSignal(c)
-----------------------------------------------------------------------------
(* Begin, up to the unlock: refused, or counted in beginRequests. *)
Accepts(t) == teState = "ReadWrite" \/ (teState = "ReadOnly" /\ t \in Readers)

Gate(t, from) ==
  /\ stage[t] = from /\ stateLock = None
  /\ stage' = [stage EXCEPT ![t] = IF Accepts(t) THEN "limit" ELSE "over"]
  /\ overtook' = IF Accepts(t) /\ \E c \in Controllers : pc[c] = "lock"
                   THEN overtook \cup {t} ELSE overtook \ {t}
  /\ UNCHANGED <<by, limiter, pool, drained, ticking, teState, nextState,
                 stateLock, signalOpen, call, pc, rollback, panicked, wanted>>

(* The steps of the pool. *)
PoolStep ==
  /\ \/ \E t \in Clients : BeginStep(t) \/ Recycle(t) \/ Finish(t) \/ Again(t)
     \/ \E t \in Txs : Unregister(t) \/ Conclude(t)
     \/ Kill
  /\ UNCHANGED engineVars

(* The engine alone: any controller may call it at any time, and clients   *)
(* begin and use transactions.                                             *)
EngineAlone ==
  /\ ~panicked
  /\ \/ \E c \in Controllers :
          EngineStep(c) \/ \E m \in DOMAIN Target \ {"StopGently"} : Call(c, m)
     \/ \E t \in Clients : Gate(t, "new")
     \/ \E t \in Txs : (Use(t) \/ Resolve(t)) /\ UNCHANGED engineVars
     \/ PoolStep

EngineSpec == TxEngineInit /\ [][EngineAlone]_<<poolVars, engineVars>>
-----------------------------------------------------------------------------
(* The engine ends in the state of the last call: once no call runs, the   *)
(* state is the one that the last caller to take stateLock asked for, even *)
(* if it only redirected a transition that another call was running.       *)
LastRequestWins ==
  (\A c \in Controllers : pc[c] = "idle") /\ ~panicked => teState = wanted

(* AcceptReadOnly accepts "read-only transactions, but not full read and   *)
(* write transactions": while the engine is ReadOnly none is open, except  *)
(* one whose Begin came after the wait for the begins that run and before  *)
(* the lock that refuses new ones, which the close of the pool may miss.   *)
NoWritesInReadOnly ==
  teState = "ReadOnly" /\ stateLock = None => Registered \subseteq Readers \cup overtook

(* The limiter counts every client transaction that has got past it (one   *)
(* that is beginning, registered or ending), and otherwise only what the   *)
(* calls refused for waiterCap have left behind.                           *)
Granted == Clients \cap (In(BeginStages \ {"limit"}) \cup Held)
LimiterAccounts == usage = Cardinality(Granted) + leaked

(* A closed pool lends nothing: while the connection pool is closed no     *)
(* transaction holds a connection or is registered, and when the engine    *)
(* serves, the pool and the killer run.                                    *)
PoolFollows ==
  /\ pool = "closed" => Held = {}
  /\ teState \in Accepting /\ stateLock = None => pool = "open" /\ ticking

(* Transactions that a close waits for and that only their clients end, as *)
(* a late Begin left them idle in a pool that is being closed, or nobody,  *)
(* as they were restored from the redo log and left in use.                *)
Abandoned == In({"stray"}) \cup (IF pool = "closing" THEN In({"idle"}) ELSE {})
=============================================================================
