-------------------------------- MODULE TwoPC --------------------------------
(***************************************************************************)
(* One distributed transaction of Vitess' two phase commit.                *)
(*                                                                         *)
(* vtgate's TxConn (commit2PC and Resolve) drives the metadata manager MM, *)
(* whose dt_state row holds the decision, and the participants, whose      *)
(* TxExecutor keeps a redo log row in MySQL and the prepared connection in *)
(* the in-memory TxPreparedPool.  The watchdog of the metadata manager     *)
(* calls Resolve again and again while the dt_state row exists.            *)
(*                                                                         *)
(* A call in flight is a record: who waits for it, the operation, the      *)
(* shard and the step its handler has reached.  A caller may give up (a    *)
(* timeout, a broken connection) while the handler goes on: the call then  *)
(* belongs to nobody (Late) and its reply is dropped.  A MySQL commit may  *)
(* succeed, fail, or be applied although an error is reported.             *)
(***************************************************************************)
EXTENDS Naturals, FiniteSets

CONSTANTS Participants,  \* the shards after the first of the session
          ReadOnly,      \* the participants whose transaction has no queries
          MM,            \* the first shard of the session: the metadata manager
          Gate,          \* the vtgate that runs commit2PC
          Resolvers,     \* concurrent Resolve calls made by the watchdog
          Late,          \* stands for the caller of a call nobody waits for
          MayStop,       \* TRUE: participants may be shut down gracefully
          RedoMayFail,   \* TRUE: prepareFromRedo may fail to restore a redo log
          MaxFaults      \* bound on errors, timeouts, crashes and shutdowns

Shards  == Participants \cup {MM}
Callers == Resolvers \cup {Gate}
Writers == Participants \ ReadOnly

ASSUME ConstantsAssumption ==
  /\ Participants # {} /\ MM \notin Participants /\ ReadOnly \subseteq Participants
  /\ Gate \notin Resolvers /\ Late \notin Callers
  /\ MayStop \in BOOLEAN /\ RedoMayFail \in BOOLEAN
  /\ MaxFaults \in Nat

VARIABLES
  dt,         \* state of the dt_state row at MM, "none" if there is no row
  decision,   \* history: the last state Transition gave the row
  mmTx,       \* the session's transaction at MM
  tx,         \* the participant's connection of this transaction
  redo,       \* state of the participant's redo_state row
  reserved,   \* TxPreparedPool.reserved[dtid] of the participant
  committed,  \* TRUE once the participant's MySQL committed the transaction
  live,       \* state of the participant's tablet server
  calls,      \* the calls in flight
  pc,         \* the operation each caller is in
  got,        \* the replies of the caller's current operation
  faults      \* how many faults have happened

mmVars   == <<dt, decision, mmTx>>
partVars == <<tx, redo, reserved, committed, live>>
vars     == <<mmVars, partVars, calls, pc, got, faults>>

MMOps   == {"CreateTransaction", "StartCommit", "SetRollback",
            "ConcludeTransaction", "ReadTransaction"}
PartOps == {"Prepare", "CommitPrepared", "RollbackPrepared"}
Ops     == MMOps \cup PartOps \cup {"Rollback"}
DTStates == {"none", "PREPARE", "ROLLBACK", "COMMIT"}
Steps   == {"sent", "put", "redo", "commit", "fail", "mark", "forget",
            "fetchOK", "fetchErr", "transition"}
Replies == {"unset", "wait", "ok", "err"} \cup DTStates
Call    == [by : Callers \cup {Late}, op : Ops, at : Shards, step : Steps]

TypeOK ==
  /\ dt \in DTStates
  /\ decision \in {"none", "ROLLBACK", "COMMIT"}
  /\ mmTx \in {"open", "busy", "committed", "gone"}
  /\ tx \in [Participants -> {"open", "busy", "prepared", "committing", "gone"}]
  /\ redo \in [Participants -> {"none", "prepared", "failed"}]
  /\ reserved \in [Participants -> {"none", "committing", "failed"}]
  /\ committed \in [Participants -> BOOLEAN]
  /\ live \in [Participants -> {"serving", "stopping", "down"}]
  /\ calls \subseteq Call
  /\ pc \in [Callers -> Ops \cup {"idle", "done"}]
  /\ got \in [Callers -> [Shards -> Replies]]
  /\ faults \in Nat

Init ==
  /\ dt = "none" /\ decision = "none" /\ mmTx = "open"
  /\ tx = [p \in Participants |-> "open"]
  /\ redo = [p \in Participants |-> "none"]
  /\ reserved = [p \in Participants |-> "none"]
  /\ committed = [p \in Participants |-> FALSE]
  /\ live = [p \in Participants |-> "serving"]
  /\ calls = {}
  /\ pc = [c \in Callers |-> "idle"]
  /\ got = [c \in Callers |-> [s \in Shards |-> "unset"]]
  /\ faults = 0
-----------------------------------------------------------------------------
(* Faults are counted, so that only finitely many of them happen. *)
Fault   == faults < MaxFaults /\ faults' = faults + 1
NoFault == UNCHANGED faults

Targets(op) == IF op \in MMOps THEN {MM} ELSE IF op \in PartOps THEN Participants ELSE Shards

(* The caller sends op to all its targets in parallel (runSessions).       *)
Enter(c, op) ==
  /\ pc' = [pc EXCEPT ![c] = op]
  /\ calls' = calls \cup {[by |-> c, op |-> op, at |-> s, step |-> "sent"] : s \in Targets(op)}
  /\ got' = [got EXCEPT ![c] = [s \in Shards |-> IF s \in Targets(op) THEN "wait" ELSE "unset"]]
  /\ UNCHANGED <<mmVars, partVars, faults>>

Finish(c) ==
  /\ pc' = [pc EXCEPT ![c] = IF c = Gate THEN "done" ELSE "idle"]
  /\ got' = [got EXCEPT ![c] = [s \in Shards |-> "unset"]]
  /\ UNCHANGED <<mmVars, partVars, calls, faults>>

(* wg.Wait(): every call of the operation has come back.                   *)
Returned(c, op) == pc[c] = op /\ \A s \in Shards : got[c][s] # "wait"
OK(c)           == \A s \in Shards : got[c][s] # "err"

(* The reply v of call k, or the next step s of its handler.               *)
Reply(k, v) ==
  /\ calls' = calls \ {k}
  /\ got' = IF k.by = Late THEN got ELSE [got EXCEPT ![k.by][k.at] = v]
  /\ UNCHANGED pc

Advance(k, s) ==
  /\ calls' = (calls \ {k}) \cup {[by |-> k.by, op |-> k.op, at |-> k.at, step |-> s]}
  /\ UNCHANGED <<pc, got>>

Handles(k, op, s) == k.op = op /\ k.step = s
-----------------------------------------------------------------------------
(* vtgate: commit2PC.  Its callers have already executed the statements of *)
(* the session, with one open transaction on each shard.                   *)
Commit2PC == pc[Gate] = "idle" /\ Enter(Gate, "CreateTransaction")

AfterCreate ==
  /\ Returned(Gate, "CreateTransaction")
  /\ IF OK(Gate) THEN Enter(Gate, "Prepare") ELSE Enter(Gate, "Rollback")

AfterRollback == Returned(Gate, "Rollback") /\ Finish(Gate)

(* Faulty variant: a participant that failed to prepare is overlooked.     *)
AfterPrepareUnchecked ==
  Returned(Gate, "Prepare") /\ Enter(Gate, "StartCommit")

AfterPrepare ==
  /\ Returned(Gate, "Prepare")
  /\ IF OK(Gate) THEN Enter(Gate, "StartCommit") ELSE Enter(Gate, "ReadTransaction")

AfterStartCommit ==
  /\ Returned(Gate, "StartCommit")
  /\ IF OK(Gate) THEN Enter(Gate, "CommitPrepared") ELSE Finish(Gate)

(* The watchdog's ReadAbandoned lists the row: it is older than abandonAge. *)
Watchdog(r) == pc[r] = "idle" /\ dt # "none" /\ Enter(r, "ReadTransaction")

(* vtgate: Resolve, resumeRollback and resumeCommit.  The last two         *)
(* operations of commit2PC are those of resumeCommit.                      *)
AfterRead(c) ==
  /\ Returned(c, "ReadTransaction")
  /\ \/ got[c][MM] = "PREPARE"  /\ Enter(c, "SetRollback")
     \/ got[c][MM] = "ROLLBACK" /\ Enter(c, "RollbackPrepared")
     \/ got[c][MM] = "COMMIT"   /\ Enter(c, "CommitPrepared")
     \/ got[c][MM] \in {"none", "err"} /\ Finish(c)

AfterSetRollback(c) ==
  /\ Returned(c, "SetRollback")
  /\ IF OK(c) THEN Enter(c, "RollbackPrepared") ELSE Finish(c)

(* Faulty variant: the transaction is concluded in spite of errors.        *)
AfterParticipantsUnchecked(c) ==
  /\ Returned(c, "RollbackPrepared") \/ Returned(c, "CommitPrepared")
  /\ Enter(c, "ConcludeTransaction")

AfterParticipants(c) ==
  /\ Returned(c, "RollbackPrepared") \/ Returned(c, "CommitPrepared")
  /\ IF OK(c) THEN Enter(c, "ConcludeTransaction") ELSE Finish(c)

AfterConclude(c) == Returned(c, "ConcludeTransaction") /\ Finish(c)

Resolve(c) == AfterRead(c) \/ AfterSetRollback(c) \/ AfterParticipants(c) \/ AfterConclude(c)

(* The caller gives up on a call: its context expires or the connection to *)
(* the tablet breaks.  The handler, or the request, goes on.               *)
Timeout(k) ==
  /\ k.by # Late
  /\ Fault
  /\ calls' = (calls \ {k}) \cup {[by |-> Late, op |-> k.op, at |-> k.at, step |-> k.step]}
  /\ got' = [got EXCEPT ![k.by][k.at] = "err"]
  /\ UNCHANGED <<mmVars, partVars, pc>>
-----------------------------------------------------------------------------
(* A local MySQL transaction of a handler: it commits and says so, fails,  *)
(* or commits while the handler sees an error.                             *)
LocalTx(done, r) ==
  \/ done /\ r = "ok" /\ NoFault
  \/ r = "err" /\ Fault

(* Metadata manager: TxExecutor.CreateTransaction ... ConcludeTransaction. *)
CreateTransaction(k) ==
  /\ Handles(k, "CreateTransaction", "sent")
  /\ \E done \in BOOLEAN, r \in {"ok", "err"} :
       /\ LocalTx(done, r)
       /\ dt' = IF done THEN "PREPARE" ELSE dt
       /\ Reply(k, r)
  /\ UNCHANGED <<decision, mmTx, partVars>>

(* Transition: update dt_state ... where state = PREPARE, then commit.     *)
Transition(to, done) ==
  /\ dt' = IF done THEN to ELSE dt
  /\ decision' = IF done THEN to ELSE decision

(* Faulty variant: the decision is committed before MM's own transaction.  *)
StartCommitSplit(k) ==
  /\ Handles(k, "StartCommit", "transition")
  /\ dt = "PREPARE"
  /\ \E done \in BOOLEAN, r \in {"ok", "err"} :
       /\ LocalTx(done, r)
       /\ Transition("COMMIT", TRUE)
       /\ mmTx' = IF done THEN "committed" ELSE "gone"
       /\ Reply(k, r)
  /\ UNCHANGED partVars

StartCommitGet(k) ==
  /\ Handles(k, "StartCommit", "sent")
  /\ IF mmTx = "open" THEN mmTx' = "busy" /\ Advance(k, "transition")
                      ELSE mmTx' = mmTx /\ Reply(k, "err")
  /\ NoFault /\ UNCHANGED <<dt, decision, partVars>>

StartCommit(k) ==
  /\ Handles(k, "StartCommit", "transition")
  /\ \/ \E done \in BOOLEAN, r \in {"ok", "err"} :
          /\ dt = "PREPARE"
          /\ LocalTx(done, r)
          /\ Transition("COMMIT", done)
          /\ mmTx' = IF done THEN "committed" ELSE "gone"
          /\ Reply(k, r)
     \/ /\ dt # "PREPARE"
        /\ mmTx' = "gone"
        /\ Reply(k, "err")
        /\ NoFault /\ UNCHANGED <<dt, decision>>
  /\ UNCHANGED partVars

SetRollbackTx(k) ==
  /\ Handles(k, "SetRollback", "sent")
  /\ mmTx' = IF mmTx = "open" THEN "gone" ELSE mmTx
  /\ Advance(k, "transition")
  /\ NoFault /\ UNCHANGED <<dt, decision, partVars>>

(* Faulty variant: Transition without "where state = PREPARE".             *)
SetRollbackAlways(k) ==
  /\ Handles(k, "SetRollback", "transition")
  /\ \E done \in BOOLEAN, r \in {"ok", "err"} :
       /\ LocalTx(done, r)
       /\ Transition("ROLLBACK", done)
       /\ Reply(k, r)
  /\ UNCHANGED <<mmTx, partVars>>

SetRollback(k) ==
  /\ Handles(k, "SetRollback", "transition")
  /\ \/ \E done \in BOOLEAN, r \in {"ok", "err"} :
          /\ dt = "PREPARE"
          /\ LocalTx(done, r)
          /\ Transition("ROLLBACK", done)
          /\ Reply(k, r)
     \/ /\ dt # "PREPARE"
        /\ Reply(k, "err")
        /\ NoFault /\ UNCHANGED <<dt, decision>>
  /\ UNCHANGED <<mmTx, partVars>>

ConcludeTransaction(k) ==
  /\ Handles(k, "ConcludeTransaction", "sent")
  /\ \E done \in BOOLEAN, r \in {"ok", "err"} :
       /\ LocalTx(done, r)
       /\ dt' = IF done THEN "none" ELSE dt
       /\ Reply(k, r)
  /\ UNCHANGED <<decision, mmTx, partVars>>

ReadTransaction(k) ==
  /\ Handles(k, "ReadTransaction", "sent")
  /\ Reply(k, dt)
  /\ NoFault /\ UNCHANGED <<mmVars, partVars>>

RollbackMM(k) ==
  /\ Handles(k, "Rollback", "sent") /\ k.at = MM
  /\ mmTx' = IF mmTx = "open" THEN "gone" ELSE mmTx
  /\ Reply(k, IF mmTx = "open" THEN "ok" ELSE "err")
  /\ NoFault /\ UNCHANGED <<dt, decision, partVars>>

(* A restart of MM's tablet: open transactions and running handlers are    *)
(* lost, the dt_state row is in MySQL.                                     *)
DropCalls(s) ==
  /\ calls' = {k \in calls : k.at # s}
  /\ got' = [c \in Callers |-> [t \in Shards |->
               IF t = s /\ got[c][t] = "wait" THEN "err" ELSE got[c][t]]]
  /\ UNCHANGED pc

RestartMM ==
  /\ Fault
  /\ mmTx' = IF mmTx = "committed" THEN mmTx ELSE "gone"
  /\ DropCalls(MM)
  /\ UNCHANGED <<dt, decision, partVars>>

(* The transaction killer, or the session's end, rolls an idle one back.   *)
KillMMTx ==
  /\ mmTx = "open" /\ Fault
  /\ mmTx' = "gone"
  /\ UNCHANGED <<dt, decision, partVars, calls, pc, got>>

HandleMM(k) ==
  /\ k.at = MM
  /\ \/ CreateTransaction(k) \/ StartCommitGet(k) \/ StartCommit(k)
     \/ SetRollbackTx(k) \/ SetRollback(k) \/ ConcludeTransaction(k)
     \/ ReadTransaction(k) \/ RollbackMM(k)
-----------------------------------------------------------------------------
(* Participant: TxExecutor.Prepare.  txPool.Get makes the connection busy. *)
PrepareGet(k) ==
  /\ Handles(k, "Prepare", "sent")
  /\ \/ /\ tx[k.at] = "open" /\ k.at \in ReadOnly
        /\ tx' = [tx EXCEPT ![k.at] = "gone"]
        /\ Reply(k, "ok")
     \/ /\ tx[k.at] = "open" /\ k.at \notin ReadOnly
        /\ tx' = [tx EXCEPT ![k.at] = "busy"]
        /\ Advance(k, "put")
     \/ /\ tx[k.at] # "open"
        /\ Reply(k, "err")
        /\ UNCHANGED tx
  /\ NoFault /\ UNCHANGED <<mmVars, redo, reserved, committed, live>>

(* preparedPool.Put fails when the pool is full (other transactions hold   *)
(* its slots) or the dtid is reserved.                                     *)
PreparePut(k) ==
  /\ Handles(k, "Prepare", "put")
  /\ \/ /\ reserved[k.at] = "none" /\ NoFault
        /\ tx' = [tx EXCEPT ![k.at] = "prepared"]
        /\ Advance(k, "redo")
     \/ /\ IF reserved[k.at] = "none" THEN Fault ELSE NoFault
        /\ tx' = [tx EXCEPT ![k.at] = "gone"]
        /\ Reply(k, "err")
  /\ UNCHANGED <<mmVars, redo, reserved, committed, live>>

(* Faulty variant: the error of the redo log's commit is not returned.     *)
PrepareSaveRedoUnchecked(k) ==
  /\ Handles(k, "Prepare", "redo")
  /\ \E done \in BOOLEAN, r \in {"ok", "err"} :
       /\ LocalTx(done, r)
       /\ redo' = IF done THEN [redo EXCEPT ![k.at] = "prepared"] ELSE redo
       /\ Reply(k, "ok")
  /\ UNCHANGED <<mmVars, tx, reserved, committed, live>>

PrepareSaveRedo(k) ==
  /\ Handles(k, "Prepare", "redo")
  /\ \E done \in BOOLEAN, r \in {"ok", "err"} :
       /\ LocalTx(done, r)
       /\ redo' = IF done THEN [redo EXCEPT ![k.at] = "prepared"] ELSE redo
       /\ Reply(k, r)
  /\ UNCHANGED <<mmVars, tx, reserved, committed, live>>

(* Faulty variant: FetchForCommit does not look at the reserved list.      *)
CommitPreparedFetchUnreserved(k) ==
  /\ Handles(k, "CommitPrepared", "sent")
  /\ IF tx[k.at] = "prepared"
     THEN /\ tx' = [tx EXCEPT ![k.at] = "committing"]
          /\ reserved' = [reserved EXCEPT ![k.at] = "committing"]
          /\ Advance(k, "commit")
     ELSE Reply(k, "ok") /\ UNCHANGED <<tx, reserved>>
  /\ NoFault /\ UNCHANGED <<mmVars, redo, committed, live>>

(* TxExecutor.CommitPrepared.  A dtid that is neither reserved nor in the  *)
(* pool is taken to be committed already: the handler answers ok.          *)
CommitPreparedFetch(k) ==
  /\ Handles(k, "CommitPrepared", "sent")
  /\ \/ /\ reserved[k.at] # "none"
        /\ Reply(k, "err")
        /\ UNCHANGED <<tx, reserved>>
     \/ /\ reserved[k.at] = "none" /\ tx[k.at] = "prepared"
        /\ tx' = [tx EXCEPT ![k.at] = "committing"]
        /\ reserved' = [reserved EXCEPT ![k.at] = "committing"]
        /\ Advance(k, "commit")
     \/ /\ reserved[k.at] = "none" /\ tx[k.at] # "prepared"
        /\ Reply(k, "ok")
        /\ UNCHANGED <<tx, reserved>>
  /\ NoFault /\ UNCHANGED <<mmVars, redo, committed, live>>

(* The redo log is deleted by the transaction that is committed.           *)
CommitPreparedCommit(k) ==
  /\ Handles(k, "CommitPrepared", "commit")
  /\ \E done \in BOOLEAN, r \in {"ok", "err"} :
       /\ LocalTx(done, r)
       /\ committed' = [committed EXCEPT ![k.at] = @ \/ done]
       /\ redo' = IF done THEN [redo EXCEPT ![k.at] = "none"] ELSE redo
       /\ tx' = IF done THEN [tx EXCEPT ![k.at] = "gone"] ELSE tx
       /\ Advance(k, IF r = "ok" THEN "forget" ELSE "fail")
  /\ UNCHANGED <<mmVars, reserved, live>>

(* Faulty variant: the dtid stays reserved after the commit.               *)
CommitPreparedKeep(k) ==
  /\ Handles(k, "CommitPrepared", "forget")
  /\ Reply(k, "ok")
  /\ NoFault /\ UNCHANGED <<mmVars, partVars>>

CommitPreparedForget(k) ==
  /\ Handles(k, "CommitPrepared", "forget")
  /\ reserved' = [reserved EXCEPT ![k.at] = "none"]
  /\ Reply(k, "ok")
  /\ NoFault /\ UNCHANGED <<mmVars, tx, redo, committed, live>>

(* markFailed: the pool first, then the redo log in a transaction of its   *)
(* own; the connection is concluded when CommitPrepared returns.           *)
SetFailed(k) ==
  /\ Handles(k, "CommitPrepared", "fail")
  /\ reserved' = [reserved EXCEPT ![k.at] = "failed"]
  /\ Advance(k, "mark")
  /\ NoFault /\ UNCHANGED <<mmVars, tx, redo, committed, live>>

MarkFailed(k) ==
  /\ Handles(k, "CommitPrepared", "mark")
  /\ \E done \in BOOLEAN, r \in {"ok", "err"} :
       /\ LocalTx(done, r)
       /\ redo' = IF done /\ redo[k.at] = "prepared"
                   THEN [redo EXCEPT ![k.at] = "failed"] ELSE redo
  /\ tx' = [tx EXCEPT ![k.at] = "gone"]
  /\ Reply(k, "err")
  /\ UNCHANGED <<mmVars, reserved, committed, live>>

(* TxExecutor.RollbackPrepared with originalID = 0, as Resolve calls it.   *)
RollbackPreparedRedo(k) ==
  /\ Handles(k, "RollbackPrepared", "sent")
  /\ \E done \in BOOLEAN, r \in {"ok", "err"} :
       /\ LocalTx(done, r)
       /\ redo' = IF done THEN [redo EXCEPT ![k.at] = "none"] ELSE redo
       /\ Advance(k, IF r = "ok" THEN "fetchOK" ELSE "fetchErr")
  /\ UNCHANGED <<mmVars, tx, reserved, committed, live>>

RollbackPreparedFetch(k) ==
  /\ k.op = "RollbackPrepared" /\ k.step \in {"fetchOK", "fetchErr"}
  /\ reserved' = [reserved EXCEPT ![k.at] = "none"]
  /\ tx' = IF reserved[k.at] = "none" /\ tx[k.at] = "prepared"
             THEN [tx EXCEPT ![k.at] = "gone"] ELSE tx
  /\ Reply(k, IF k.step = "fetchOK" THEN "ok" ELSE "err")
  /\ NoFault /\ UNCHANGED <<mmVars, redo, committed, live>>

RollbackTx(k) ==
  /\ Handles(k, "Rollback", "sent")
  /\ tx' = IF tx[k.at] = "open" THEN [tx EXCEPT ![k.at] = "gone"] ELSE tx
  /\ Reply(k, IF tx[k.at] = "open" THEN "ok" ELSE "err")
  /\ NoFault /\ UNCHANGED <<mmVars, redo, reserved, committed, live>>

(* startRequest refuses a request unless the tablet serves or, for these   *)
(* operations, is shutting down.                                           *)
Reject(k) ==
  /\ live[k.at] = "down" /\ k.step = "sent"
  /\ Reply(k, "err")
  /\ NoFault /\ UNCHANGED <<mmVars, partVars>>

HandleParticipant(k) ==
  /\ k.at \in Participants
  /\ \/ Reject(k)
     \/ /\ live[k.at] # "down"
        /\ \/ PrepareGet(k) \/ PreparePut(k) \/ PrepareSaveRedo(k)
           \/ CommitPreparedFetch(k) \/ CommitPreparedCommit(k) \/ CommitPreparedForget(k)
           \/ SetFailed(k) \/ MarkFailed(k)
           \/ RollbackPreparedRedo(k) \/ RollbackPreparedFetch(k) \/ RollbackTx(k)
-----------------------------------------------------------------------------
(* The participant's tablet dies: connections, pool and handlers are lost, *)
(* MySQL rolls the open transactions back and keeps the redo log.          *)
Crash(p) ==
  /\ live[p] # "down" /\ Fault
  /\ live' = [live EXCEPT ![p] = "down"]
  /\ tx' = [tx EXCEPT ![p] = "gone"]
  /\ reserved' = [reserved EXCEPT ![p] = "none"]
  /\ DropCalls(p)
  /\ UNCHANGED <<mmVars, redo, committed>>

(* TxEngine.StopGently without a grace period: rollbackPrepared empties    *)
(* the prepared pool (FetchAll) while requests are still admitted.         *)
StopGently(p) ==
  /\ MayStop /\ live[p] = "serving" /\ Fault
  /\ live' = [live EXCEPT ![p] = "stopping"]
  /\ tx' = IF tx[p] = "prepared" THEN [tx EXCEPT ![p] = "gone"] ELSE tx
  /\ reserved' = [reserved EXCEPT ![p] = "none"]
  /\ UNCHANGED <<mmVars, redo, committed, calls, pc, got>>

(* WaitForEmpty and requests.Wait().                                       *)
StopDone(p) ==
  /\ live[p] = "stopping" /\ tx[p] = "gone"
  /\ \A k \in calls : k.at = p => k.step = "sent"
  /\ live' = [live EXCEPT ![p] = "down"]
  /\ UNCHANGED <<mmVars, tx, redo, reserved, committed, calls, pc, got, faults>>

(* TxEngine.open: prepareFromRedo restores the prepared pool from the redo *)
(* log before the tablet serves; a restore that fails is only reported.    *)
Open(p) ==
  /\ live[p] = "down"
  /\ live' = [live EXCEPT ![p] = "serving"]
  /\ \/ /\ NoFault
        /\ tx' = IF redo[p] = "prepared" /\ reserved[p] = "none"
                   THEN [tx EXCEPT ![p] = "prepared"] ELSE tx
     \/ RedoMayFail /\ redo[p] = "prepared" /\ Fault /\ UNCHANGED tx
  /\ reserved' = IF redo[p] = "failed" THEN [reserved EXCEPT ![p] = "failed"] ELSE reserved
  /\ UNCHANGED <<mmVars, redo, committed, calls, pc, got>>

KillTx(p) ==
  /\ tx[p] = "open" /\ Fault
  /\ tx' = [tx EXCEPT ![p] = "gone"]
  /\ UNCHANGED <<mmVars, redo, reserved, committed, live, calls, pc, got>>
-----------------------------------------------------------------------------
GateStep == \/ Commit2PC \/ AfterCreate \/ AfterRollback \/ AfterPrepare
            \/ AfterStartCommit \/ Resolve(Gate)

ResolverStep(r) == Watchdog(r) \/ Resolve(r)

Handle(k) == HandleMM(k) \/ HandleParticipant(k)

Next ==
  \/ GateStep
  \/ \E r \in Resolvers : ResolverStep(r)
  \/ \E k \in calls : Handle(k) \/ Timeout(k)
  \/ RestartMM \/ KillMMTx
  \/ \E p \in Participants : Crash(p) \/ StopGently(p) \/ StopDone(p) \/ Open(p) \/ KillTx(p)

Spec == Init /\ [][Next]_vars

(* Tablets run the handlers they started, a tablet that is down is brought *)
(* up again, the watchdog ticks and its Resolve calls are executed.  The   *)
(* vtgate that started the commit may die: it has no fairness.             *)
Fairness ==
  /\ \A c \in Callers \cup {Late} : WF_vars(\E k \in calls : k.by = c /\ Handle(k))
  /\ \A r \in Resolvers : WF_vars(ResolverStep(r))
  /\ \A p \in Participants : WF_vars(StopDone(p)) /\ WF_vars(Open(p))

FairSpec == Spec /\ Fairness
-----------------------------------------------------------------------------
(* No participant commits (CommitPrepared) before the decision to commit   *)
(* is in dt_state, and MM's own part commits exactly with that decision    *)
(* (StartCommit puts both into one MySQL transaction).                     *)
CommitIsDecided ==
  /\ \A p \in Participants : committed[p] => decision = "COMMIT"
  /\ mmTx = "committed" <=> decision = "COMMIT"

(* A decision to commit can be carried out: each participant with changes  *)
(* has committed them or still has them in its redo log, through timeouts, *)
(* crashes and shutdowns (Prepare, RollbackPrepared, markFailed).          *)
CommitIsRecoverable ==
  decision = "COMMIT" => \A p \in Writers : committed[p] \/ redo[p] # "none"

(* The watchdog's SetRollback and vtgate's StartCommit race for the same   *)
(* row; whoever comes first decides, and no later step changes the outcome *)
(* (Transition's "where state = PREPARE").                                 *)
DecisionIsFinal == [][decision # "none" => decision' = decision]_vars

(* ConcludeTransaction forgets a committed transaction only after every    *)
(* participant with changes has committed (commit2PC, resumeCommit).       *)
ConcludedIsCommitted ==
  decision = "COMMIT" /\ dt = "none" => \A p \in Writers : committed[p]

(* RollbackPrepared "will perform all the cleanup" of a Prepare: once a    *)
(* rolled back transaction is concluded and all calls have returned, no    *)
(* participant keeps a redo log or a prepared connection with its locks.   *)
ConcludedIsClean ==
  decision = "ROLLBACK" /\ dt = "none" /\ calls = {} =>
    \A p \in Participants : redo[p] = "none" /\ tx[p] # "prepared"

(* The watchdog resolves every distributed transaction, unless a failed    *)
(* commit of a participant (markFailed) leaves it to the operator.         *)
AllResolved ==
  dt # "none" ~> (dt = "none" \/ \E p \in Participants : reserved[p] = "failed")

(* An ok reply of CommitPrepared means what its comment says: the          *)
(* participant has committed the prepared transaction.                     *)
AckedIsCommitted ==
  \A c \in Callers, p \in Writers :
    pc[c] = "CommitPrepared" /\ got[c][p] = "ok" => committed[p]

(* The part of the transaction on a shard with changes, as AtomicCommit    *)
(* sees it.  A part is given up when nothing is left that could commit it: *)
(* no connection, no redo log and no Prepare about to write one.           *)
Part(s) ==
  IF s = MM THEN CASE mmTx = "committed"         -> "committed"
                   [] mmTx \in {"open", "busy"} -> "pending"
                   [] mmTx = "gone"              -> "aborted"
  ELSE IF committed[s] THEN "committed"
  ELSE IF \/ tx[s] # "gone" \/ redo[s] # "none"
          \/ \E k \in calls : k.at = s /\ Handles(k, "Prepare", "redo")
       THEN "pending" ELSE "aborted"

AC == INSTANCE AtomicCommit
        WITH Shards <- Writers \cup {MM}, part <- [s \in Writers \cup {MM} |-> Part(s)]

(* The protocol as a whole, with timeouts, crashes and shutdowns,          *)
(* implements atomic commitment over the shards with changes.              *)
ImplementsAtomicCommit == AC!Spec
=============================================================================
