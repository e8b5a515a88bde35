------------------------------- MODULE Reparent -------------------------------
(***************************************************************************)
(* PlannedReparentShard and EmergencyReparentShard of the wrangler, and    *)
(* the handlers of the tablets they call.                                  *)
(*                                                                         *)
(* A handler holds the lock of its tablet and works in steps.  The         *)
(* wrangler may give up on a call at any time, by a timeout or because the *)
(* answer was lost, and the handler goes on: its context ends later or not *)
(* at all, so that what needs it, waiting for a position or the journal    *)
(* and writes of the topology, may fail then or may still succeed.  A call *)
(* to a tablet that works on another one, which it may have died in, waits *)
(* for its end or is given up.  One wrangler holds the lock of the shard   *)
(* until it loses it; another one that starts before the first noticed is  *)
(* left out.                                                               *)
(*                                                                         *)
(* A transaction counts as acknowledged once the master has it, without    *)
(* semi-synchronous replication; a log is the binary log of a tablet, and  *)
(* what its replication applied.                                           *)
(***************************************************************************)
EXTENDS Naturals, Sequences, FiniteSets

CONSTANTS
  Tablets, Primary,  \* the shard, and its master at first
  Nobody,
  MaxWrites, MaxReparents, MaxDead   \* bounds

ASSUME ReparentAssumption ==
  /\ Primary \in Tablets /\ Nobody \notin Tablets
  /\ MaxWrites \in Nat /\ MaxReparents \in Nat

VARIABLES
  db,           \* MySQL of a tablet: [log, ro, source, running]
  agent,        \* [kind: type in the topology, mode: the type it runs as, serving]
  tablets,      \* GetTabletMapForShard
  shardMaster,  \* MasterAlias of the shard record
  rpcs,         \* the RPC that a tablet works on
  op,           \* the reparent that runs
  dead,         \* tablets that crashed
  written,      \* history: the number of acknowledged writes
  reparents,    \* history: the number of reparents
  doubt,        \* history: a promotion may have happened that was given up
  forgone,      \* history: transactions that no answering replica had
  settled       \* history: the last reparent returned no error

reparentHistory == <<written, reparents, doubt, forgone, settled>>
reparentVars == <<db, agent, tablets, shardMaster, rpcs, op, dead, reparentHistory>>

NoCall == [rpc |-> "none", step |-> "none", heard |-> FALSE, arg |-> {}]
Rpc(rpc, step, arg) == [rpc |-> rpc, step |-> step, heard |-> TRUE, arg |-> arg]
NoOp == [step |-> "idle"]

Row(n) == MaxWrites + n
GtidSet(t) == {db[t].log[i] : i \in DOMAIN db[t].log}
WritableMasters ==
  {t \in Tablets \ dead : ~db[t].ro /\ agent[t].serving /\ agent[t].mode = "MASTER"}

ReparentTypeOK ==
  /\ \A t \in Tablets :
       /\ GtidSet(t) \subseteq 1..MaxWrites + MaxReparents
       /\ Cardinality(GtidSet(t)) = Len(db[t].log) /\ db[t].ro \in BOOLEAN
       /\ db[t].source \in (Tablets \ {t}) \cup {Nobody}
       /\ db[t].running \in BOOLEAN /\ (db[t].running => db[t].source # Nobody)
       /\ agent[t].kind \in {"MASTER", "REPLICA"} /\ agent[t].mode \in {"MASTER", "REPLICA"}
       /\ agent[t].serving \in BOOLEAN
       /\ rpcs[t].rpc \in {"none", "demote", "undo", "promote", "stop", "setmaster"}
  /\ shardMaster \in Tablets /\ tablets \subseteq Tablets
  /\ op.step \in {"idle", "demote", "undo", "stop", "promote", "slaves", "record", "rest"}
  /\ written \in 0..MaxWrites /\ reparents \in 0..MaxReparents

ReparentInit ==
  /\ db = [t \in Tablets |-> [log |-> <<>>, ro |-> t # Primary, running |-> t # Primary,
                              source |-> IF t = Primary THEN Nobody ELSE Primary]]
  /\ agent = [t \in Tablets |->
       LET type == IF t = Primary THEN "MASTER" ELSE "REPLICA"
       IN  [kind |-> type, mode |-> type, serving |-> TRUE]]
  /\ tablets = Tablets /\ shardMaster = Primary
  /\ rpcs = [t \in Tablets |-> NoCall] /\ op = NoOp /\ dead = {}
  /\ written = 0 /\ reparents = 0 /\ doubt = FALSE /\ forgone = {} /\ settled = TRUE
-----------------------------------------------------------------------------
(* A client commits a write.  The tablet's query service and MySQL accept  *)
(* it on a master that is not read-only.                                   *)
CommitWrite(t) ==
  /\ t \in WritableMasters /\ written < MaxWrites
  /\ written' = written + 1
  /\ db' = [db EXCEPT ![t].log = Append(@, written + 1)]
  /\ UNCHANGED <<agent, tablets, shardMaster, rpcs, op, dead, reparents, doubt, forgone,
                 settled>>

(* MySQL replicates the next transaction, by its GTID. *)
Replicate(t) ==
  /\ t \notin dead /\ db[t].running /\ db[t].source \notin dead
  /\ LET log == db[db[t].source].log
         missing == {i \in DOMAIN log : log[i] \notin GtidSet(t)}
     IN  \E i \in missing : /\ \A j \in missing : i <= j
                            /\ db' = [db EXCEPT ![t].log = Append(@, log[i])]
  /\ UNCHANGED <<agent, tablets, shardMaster, rpcs, op, dead, reparentHistory>>

Crash(t) ==
  /\ t \notin dead /\ Cardinality(dead) < MaxDead
  /\ dead' = dead \cup {t}
  /\ UNCHANGED <<db, agent, tablets, shardMaster, rpcs, op, reparentHistory>>

(* refreshTablet by a later action: the tablet runs as its record says. *)
Refreshed(t) == [agent EXCEPT ![t].mode = agent[t].kind, ![t].serving = TRUE]

Refresh(t) ==
  /\ t \in tablets \ dead /\ rpcs[t] = NoCall /\ agent[t] # Refreshed(t)[t]
  /\ agent' = Refreshed(t)
  /\ UNCHANGED <<db, tablets, shardMaster, rpcs, op, dead, reparentHistory>>
-----------------------------------------------------------------------------
(* The handlers. *)
UnderLock(t, rpc, step) ==
  /\ rpcs[t].rpc = rpc /\ rpcs[t].step = step /\ t \notin dead
  /\ UNCHANGED <<tablets, shardMaster, op, dead, written, reparents, forgone, settled>>

Working(t, rpc, step) == UnderLock(t, rpc, step) /\ UNCHANGED doubt

RpcEnds(t, result, arg) ==
  rpcs' = [rpcs EXCEPT ![t] =
    IF @.heard THEN [@ EXCEPT !.step = result, !.arg = arg] ELSE NoCall]

Step(t, step) == rpcs' = [rpcs EXCEPT ![t].step = step]

(* DemoteMaster: SetServingType.  Writes end with it. *)
DemoteServing(t) ==
  /\ Working(t, "demote", "run") /\ UNCHANGED db
  /\ \/ agent' = [agent EXCEPT ![t].serving = FALSE] /\ Step(t, "readonly")
     \/ /\ agent' \in {agent, [agent EXCEPT ![t].serving = FALSE]}
        /\ RpcEnds(t, "err", {})

(* SetReadOnly; after an error the query service is started again, if it   *)
(* can be.                                                                 *)
DemoteReadOnly(t) ==
  /\ Working(t, "demote", "readonly")
  /\ \/ /\ db' = [db EXCEPT ![t].ro = TRUE]
        /\ Step(t, "position") /\ UNCHANGED agent
     \/ /\ db' \in {db, [db EXCEPT ![t].ro = TRUE]}
        /\ agent' \in {agent, [agent EXCEPT ![t].serving = TRUE]}
        /\ RpcEnds(t, "err", {})

(* MasterPosition; after an error both are taken back, as far as possible. *)
DemotePosition(t) ==
  /\ Working(t, "demote", "position")
  /\ \/ RpcEnds(t, "ok", GtidSet(t)) /\ UNCHANGED <<db, agent>>
     \/ /\ db' \in {db, [db EXCEPT ![t].ro = FALSE]}
        /\ agent' \in {agent, [agent EXCEPT ![t].serving = TRUE]}
        /\ RpcEnds(t, "err", {})

UndoDemoteMaster(t) ==
  /\ Working(t, "undo", "run")
  /\ \/ /\ db' = [db EXCEPT ![t].ro = FALSE]
        /\ \/ agent' = [agent EXCEPT ![t].serving = TRUE] /\ RpcEnds(t, "ok", {})
           \/ UNCHANGED agent /\ RpcEnds(t, "err", {})
     \/ UNCHANGED <<db, agent>> /\ RpcEnds(t, "err", {})

(* PromoteSlaveWhenCaughtUp: WaitMasterPos, whose query may succeed before *)
(* the end of its context kills it.                                        *)
CatchUp(t) ==
  /\ UnderLock(t, "promote", "wait") /\ UNCHANGED <<db, agent>>
  /\ \/ /\ rpcs[t].arg \subseteq GtidSet(t) /\ Step(t, "promote")
        /\ doubt' = (doubt \/ ~rpcs[t].heard)
     \/ RpcEnds(t, "err", {}) /\ UNCHANGED doubt

(* From here on PromoteSlave, too: MysqlDaemon.PromoteSlave, which stops   *)
(* replication and then forgets its source, and SetReadOnly.               *)
PromoteSlave(t) ==
  /\ Working(t, "promote", "promote") /\ UNCHANGED agent
  /\ \/ /\ db' = [db EXCEPT ![t].ro = FALSE, ![t].running = FALSE, ![t].source = Nobody]
        /\ Step(t, "type")
     \/ /\ db' \in {db, [db EXCEPT ![t].running = FALSE],
                   [db EXCEPT ![t].running = FALSE, ![t].source = Nobody]}
        /\ RpcEnds(t, "err", {})

(* ChangeType *)
PromoteType(t) ==
  /\ Working(t, "promote", "type") /\ UNCHANGED db
  /\ \/ agent' = [agent EXCEPT ![t].kind = "MASTER"] /\ Step(t, "refresh")
     \/ RpcEnds(t, "err", {}) /\ UNCHANGED agent

(* refreshTablet *)
PromoteRefresh(t) ==
  /\ Working(t, "promote", "refresh") /\ UNCHANGED db
  /\ \/ agent' = Refreshed(t) /\ RpcEnds(t, "ok", {})
     \/ RpcEnds(t, "err", {}) /\ UNCHANGED agent

(* StopReplicationAndGetStatus; a master has no status. *)
StopReplication(t) ==
  /\ Working(t, "stop", "run") /\ UNCHANGED agent
  /\ \/ /\ db[t].source # Nobody
        /\ db' = [db EXCEPT ![t].running = FALSE]
        /\ RpcEnds(t, "ok", [pos |-> GtidSet(t), ran |-> db[t].running, known |-> TRUE])
     \/ db' \in {db, [db EXCEPT ![t].running = FALSE]} /\ RpcEnds(t, "err", {})

(* setMasterLocked up to the type in the topology. *)
SetMaster(t) ==
  /\ Working(t, "setmaster", "run")
  /\ LET running == db[t].running \/ rpcs[t].arg.force
         pointed == [db EXCEPT ![t].source = rpcs[t].arg.master, ![t].running = running]
     IN  \/ /\ db' = pointed
            /\ agent' = [agent EXCEPT ![t].kind = "REPLICA"]
            /\ IF running
               THEN rpcs' = [rpcs EXCEPT ![t].step = "row",
                                         ![t].arg.changed = agent[t].kind = "MASTER"]
               ELSE RpcEnds(t, "ok", {})
         \/ db' \in {db, pointed} /\ RpcEnds(t, "err", {}) /\ UNCHANGED agent

(* WaitForReparentJournal, and refreshTablet if the type changed. *)
SetMasterRow(t) ==
  /\ Working(t, "setmaster", "row") /\ UNCHANGED db
  /\ \/ /\ rpcs[t].arg.row \in GtidSet(t)
        /\ agent' = IF rpcs[t].arg.changed THEN Refreshed(t) ELSE agent
        /\ RpcEnds(t, "ok", {})
     \/ RpcEnds(t, "err", {}) /\ UNCHANGED agent

Handler(t) ==
  \/ DemoteServing(t) \/ DemoteReadOnly(t) \/ DemotePosition(t)
  \/ UndoDemoteMaster(t) \/ StopReplication(t)
  \/ CatchUp(t) \/ PromoteSlave(t) \/ PromoteType(t) \/ PromoteRefresh(t)
  \/ SetMaster(t) \/ SetMasterRow(t)
-----------------------------------------------------------------------------
(* The wrangler. *)
WranglerStep(step) ==
  op.step = step /\ UNCHANGED <<db, agent, dead, written>>

\* The tablets whose lock a call gets at once.
Free(S) == {t \in S : rpcs[t] = NoCall}

\* It does not wait for the rpcs any more.
Dropped(c, t) ==
  [c EXCEPT ![t] = IF @.step \in {"ok", "err"} THEN NoCall ELSE [@ EXCEPT !.heard = FALSE]]

Return(ok) == op' = NoOp /\ settled' = ok

NoStatus == [pos |-> {}, ran |-> FALSE, known |-> FALSE]

Begin(kind, e, map, step, left) ==
  /\ reparents < MaxReparents /\ reparents' = reparents + 1
  /\ e \in tablets \ {shardMaster}
  /\ op' = [step |-> step, kind |-> kind, old |-> shardMaster, elect |-> e, map |-> map,
            left |-> left, status |-> [t \in Tablets |-> NoStatus], err |-> FALSE]
  /\ settled' = FALSE

(* plannedReparentShardLocked calls DemoteMaster.  The master elect is the *)
(* operator's or that of chooseNewMaster.  With a master that works on     *)
(* another call it fails and nothing happens.                              *)
StartPlanned(e) ==
  /\ WranglerStep("idle") /\ shardMaster \in tablets
  /\ Begin("planned", e, tablets, "demote", {})
  /\ rpcs[shardMaster] = NoCall
  /\ rpcs' = [rpcs EXCEPT ![shardMaster] = Rpc("demote", "run", {})]
  /\ UNCHANGED <<tablets, shardMaster, doubt, forgone>>

(* The master elect is to be promoted; the demotion is undone if it works  *)
(* on another call.                                                        *)
DemoteAnswered ==
  /\ WranglerStep("demote")
  /\ \/ /\ rpcs[op.old].step = "ok" /\ rpcs[op.elect] = NoCall
        /\ rpcs' = [rpcs EXCEPT ![op.old] = NoCall,
                                ![op.elect] = Rpc("promote", "wait", rpcs[op.old].arg)]
        /\ op' = [op EXCEPT !.step = "promote"] /\ UNCHANGED settled
     \/ /\ rpcs[op.old].step = "ok" /\ rpcs[op.elect] # NoCall
        /\ rpcs' = [rpcs EXCEPT ![op.old] = Rpc("undo", "run", {})]
        /\ op' = [op EXCEPT !.step = "undo"] /\ UNCHANGED settled
     \/ rpcs' = Dropped(rpcs, op.old) /\ Return(FALSE)
  /\ UNCHANGED <<tablets, shardMaster, reparents, doubt, forgone>>

(* emergencyReparentShardLocked deletes the old master and stops the       *)
(* replication of the others.  One that works on another call is ignored.  *)
StartEmergency(e) ==
  /\ WranglerStep("idle")
  /\ tablets' \in {tablets, tablets \ {shardMaster}}
  /\ LET map == tablets \ {shardMaster}
     IN  /\ Begin("emergency", e, map, "stop", Free(map))
         /\ rpcs' = [t \in Tablets |->
                       IF t \in Free(map) THEN Rpc("stop", "run", {}) ELSE rpcs[t]]
  /\ UNCHANGED <<shardMaster, doubt, forgone>>

StopAnswered(t) ==
  /\ WranglerStep("stop") /\ t \in op.left
  /\ rpcs' = Dropped(rpcs, t)
  /\ \/ /\ rpcs[t].step = "ok"
        /\ op' = [op EXCEPT !.left = @ \ {t}, !.status[t] = rpcs[t].arg]
     \/ op' = [op EXCEPT !.left = @ \ {t}]
  /\ UNCHANGED <<tablets, shardMaster, reparents, doubt, forgone, settled>>

Answered == {t \in op.map : op.status[t].known}

\* Faulty variant: a replica may be ahead.
AheadOne == op.elect \in Answered

\* The master elect answered and is at least as advanced as the others.
Ahead ==
  /\ op.elect \in Answered
  /\ \A t \in Answered : op.status[t].pos \subseteq op.status[op.elect].pos

Elect ==
  /\ WranglerStep("stop") /\ op.left = {}
  /\ \/ /\ Ahead /\ rpcs[op.elect] = NoCall
        /\ op' = [op EXCEPT !.step = "promote"]
        /\ rpcs' = [rpcs EXCEPT ![op.elect] = Rpc("promote", "promote", {})]
        /\ doubt' = (doubt \/ op.old \notin dead)
        /\ forgone' = forgone \cup ((UNION {GtidSet(t) : t \in Tablets})
                                    \ (UNION {op.status[t].pos : t \in Answered}))
        /\ UNCHANGED settled
     \/ Return(FALSE) /\ UNCHANGED <<rpcs, doubt, forgone>>
  /\ UNCHANGED <<tablets, shardMaster, reparents>>

\* The promotion that failed had not made MySQL writable, nor will it.
Harmless(c) == c.step = "wait" \/ (c.step = "err" /\ db[op.elect].ro)

(* The promotion failed or is given up: a planned one undoes the demotion. *)
PromoteFails ==
  /\ WranglerStep("promote")
  /\ doubt' = (doubt \/ ~Harmless(rpcs[op.elect]))
  /\ IF op.kind = "planned"
     THEN /\ rpcs[op.old] = NoCall
          /\ rpcs' = [Dropped(rpcs, op.elect) EXCEPT ![op.old] = Rpc("undo", "run", {})]
          /\ op' = [op EXCEPT !.step = "undo"] /\ UNCHANGED settled
     ELSE rpcs' = Dropped(rpcs, op.elect) /\ Return(FALSE)
  /\ UNCHANGED <<tablets, shardMaster, reparents, forgone>>

UndoAnswered ==
  /\ WranglerStep("undo")
  /\ rpcs' = Dropped(rpcs, op.old) /\ Return(FALSE)
  /\ UNCHANGED <<tablets, shardMaster, reparents, doubt, forgone>>

ForceStart(t) ==
  IF op.kind = "planned" THEN t = op.old ELSE t \in Answered /\ op.status[t].ran

(* Promoted: rpcs SetMaster on the others, unless the lock is lost.  The   *)
(* call fails of one that works on another.                                *)
PromoteAnswered ==
  /\ WranglerStep("promote") /\ rpcs[op.elect].step = "ok"
  /\ LET others == op.map \ {op.elect}
         Point(t) == Rpc("setmaster", "run", [master |-> op.elect, row |-> Row(reparents),
                                               force |-> ForceStart(t), changed |-> FALSE])
     IN  \/ /\ rpcs' = [t \in Tablets |-> IF t \in Free(others) THEN Point(t)
                                          ELSE IF t = op.elect THEN NoCall ELSE rpcs[t]]
            /\ op' = [op EXCEPT !.step = "slaves", !.left = Free(others),
                                !.err = Free(others) # others]
            /\ UNCHANGED <<doubt, settled>>
         \/ rpcs' = Dropped(rpcs, op.elect) /\ Return(FALSE) /\ doubt' = TRUE
  /\ UNCHANGED <<tablets, shardMaster, reparents, forgone>>

(* PopulateReparentJournal on the new master, at the same time. *)
Journal ==
  /\ op.step = "slaves" /\ op.elect \notin dead
  /\ db' = [db EXCEPT ![op.elect].log = Append(@, Row(reparents))]
  /\ op' = [op EXCEPT !.step = "record"]
  /\ UNCHANGED <<agent, tablets, shardMaster, rpcs, dead, reparentHistory>>

(* Or it failed: cancel the others. *)
JournalFails ==
  /\ op.step \in {"slaves", "record"} /\ Return(FALSE) /\ doubt' = TRUE
  /\ rpcs' = [t \in Tablets |-> IF t \in op.left THEN Dropped(rpcs, t)[t] ELSE rpcs[t]]
  /\ UNCHANGED <<db, agent, tablets, shardMaster, dead, written, reparents, forgone>>

(* UpdateShardFields *)
UpdateRecord ==
  /\ WranglerStep("record")
  /\ \/ /\ shardMaster' = op.elect
        /\ op' = [op EXCEPT !.step = "rest"] /\ UNCHANGED doubt
     \/ /\ op' = [op EXCEPT !.step = "rest", !.err = TRUE]
        /\ doubt' = TRUE /\ UNCHANGED shardMaster
  /\ UNCHANGED <<tablets, rpcs, reparents, forgone, settled>>

(* The answers to SetMaster. *)
SetMasterAnswered(t) ==
  /\ WranglerStep("rest") /\ t \in op.left
  /\ rpcs' = Dropped(rpcs, t)
  /\ \/ rpcs[t].step = "ok" /\ op' = [op EXCEPT !.left = @ \ {t}]
     \/ op' = [op EXCEPT !.left = @ \ {t}, !.err = TRUE]
  /\ UNCHANGED <<tablets, shardMaster, reparents, doubt, forgone, settled>>

Reparented ==
  /\ WranglerStep("rest") /\ op.left = {} /\ Return(~op.err)
  /\ UNCHANGED <<tablets, shardMaster, rpcs, reparents, doubt, forgone>>

ReparentNext ==
  \/ \E t \in Tablets : \/ CommitWrite(t) \/ Replicate(t) \/ Crash(t) \/ Refresh(t)
                        \/ Handler(t) \/ StartPlanned(t) \/ StartEmergency(t)
                        \/ StopAnswered(t) \/ SetMasterAnswered(t)
  \/ DemoteAnswered \/ Elect \/ PromoteFails \/ UndoAnswered \/ PromoteAnswered
  \/ Journal \/ JournalFails \/ UpdateRecord \/ Reparented

ReparentSpec == ReparentInit /\ [][ReparentNext]_reparentVars
-----------------------------------------------------------------------------
\* Two tablets accept writes only after a promotion that was given up, a
\* reparent that failed after its promotion, or the promotion in an emergency
\* while the old master was alive.
OneWriter == doubt \/ Cardinality(WritableMasters) <= 1

\* The tablet that accepts writes has every acknowledged one: a planned
\* reparent loses none, and one in an emergency only those that no replica
\* that answered had applied.
NothingLost ==
  doubt \/ \A t \in WritableMasters : 1..written \ forgone \subseteq GtidSet(t)

\* After a reparent without an error the shard record names the only tablet
\* that may accept writes, the others that live replicate from it, or would if
\* they were not stopped, and none has a transaction that it lacks.
FollowersAgree ==
  settled /\ ~doubt =>
    /\ WritableMasters \subseteq {shardMaster} /\ ~db[shardMaster].ro
    /\ \A t \in tablets \ (dead \cup {shardMaster}) :
         /\ db[t].source = shardMaster
         /\ GtidSet(t) \ forgone \subseteq GtidSet(shardMaster)

ReparentAgrees == OneWriter /\ NothingLost /\ FollowersAgree
=============================================================================
