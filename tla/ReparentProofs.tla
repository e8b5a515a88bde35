--------------------------- MODULE ReparentProofs ----------------------------
(***************************************************************************)
(* For any tablets of a shard, writes and failures: unless a reparent left *)
(* it in doubt, one tablet at most accepts writes, and it has every write  *)
(* that was acknowledged and not given up.                                 *)
(***************************************************************************)
EXTENDS Reparent, FiniteSetTheorems, TLAPS

(* The backends that are tried on a leaf, and the time they may take.      *)
USE ZenonT(20), SMTT(30)

-----------------------------------------------------------------------------
(* The reparents.                                                          *)

ReparentStatus == [pos : SUBSET Nat, ran : BOOLEAN, known : BOOLEAN]
MasterArg == [master : Tablets, row : Nat, force : BOOLEAN, changed : BOOLEAN]
RpcArgs == (SUBSET Nat) \cup ReparentStatus \cup MasterArg
RpcNames == {"none", "demote", "undo", "promote", "stop", "setmaster"}
RpcSteps == {"none", "run", "readonly", "position", "wait", "promote", "type", "refresh", "row",
             "ok", "err"}
TabletRpc == [rpc : RpcNames, step : RpcSteps, heard : BOOLEAN, arg : RpcArgs]
TabletDb == [log : Seq(Nat), ro : BOOLEAN, source : Tablets \cup {Nobody}, running : BOOLEAN]
OpSteps == {"demote", "undo", "stop", "promote", "slaves", "record", "rest"}
ReparentOp == [step : OpSteps, kind : {"planned", "emergency"}, old : Tablets, elect : Tablets,
               map : SUBSET Tablets, left : SUBSET Tablets, status : [Tablets -> ReparentStatus],
               err : BOOLEAN]

ReparentData ==
  /\ db \in [Tablets -> TabletDb] /\ rpcs \in [Tablets -> TabletRpc]
  /\ op = NoOp \/ op \in ReparentOp
  /\ tablets \subseteq Tablets /\ shardMaster \in Tablets
  /\ written \in Nat /\ reparents \in Nat /\ doubt \in BOOLEAN /\ settled \in BOOLEAN
  /\ \A t \in Tablets : db[t].running => db[t].source \in Tablets

(* The steps between the demotion and the shard record, and those in which *)
(* the wrangler waits for the other tablets to follow the new master.      *)
Leading == op.step \in {"promote", "slaves", "record"}
Following == op.step \in {"slaves", "record", "rest"}

(* What an RPC has come to.                                                *)
RpcShape(c) ==
  \/ c = NoCall
  \/ c.rpc \in {"demote", "undo", "stop"} /\ c.step \in {"run", "ok", "err"}
  \/ c.rpc = "demote" /\ c.step \in {"readonly", "position"}
  \/ c.rpc = "setmaster" /\ c.step \in {"run", "row", "ok", "err"}
  \/ c.rpc = "promote" /\ c.step \in {"wait", "promote", "type", "refresh", "ok", "err"}
RpcInv(t) ==
  /\ RpcShape(rpcs[t])
  /\ rpcs[t].step \in {"ok", "err"} => rpcs[t].heard
  /\ rpcs[t].step = "position" => db[t].ro
  /\ rpcs[t].rpc = "setmaster" /\ rpcs[t].step \in {"run", "row"} => rpcs[t].arg \in MasterArg
  /\ rpcs[t].rpc = "stop" /\ rpcs[t].step = "ok" =>
       rpcs[t].arg \in ReparentStatus /\ rpcs[t].arg.pos \subseteq GtidSet(t)

(* The tablets the wrangler waits for, and what it has called.             *)
WaitsFor ==
  IF op.step \in {"demote", "undo"} THEN {op.old}
  ELSE IF op.step = "promote" THEN {op.elect}
  ELSE IF op.step \in {"stop", "slaves", "record", "rest"} THEN op.left ELSE {}
WaitInv(t) ==
  /\ rpcs[t].heard <=> t \in WaitsFor
  /\ t \in WaitsFor => rpcs[t].rpc = IF Following THEN "setmaster" ELSE op.step
StatusInv(t) == op.step = "stop" => op.status[t].pos \subseteq GtidSet(t)
CallInv == \A t \in Tablets : RpcInv(t) /\ WaitInv(t) /\ StatusInv(t)

(* Every acknowledged write is somewhere.                                  *)
WriteInv == 1..written \subseteq UNION {GtidSet(t) : t \in Tablets}

(* The tablets of the reparent that runs.                                  *)
OpInv ==
  op.step # "idle" =>
    /\ op.old # op.elect /\ op.elect \in op.map /\ tablets \subseteq op.map \cup {op.old}
    /\ op.step = "rest" => op.elect = shardMaster
    /\ op.step # "rest" => op.old = shardMaster
    /\ op.step \in {"demote", "stop", "undo"} \/ op.old \in op.map \cup dead
    /\ op.step = "demote" => op.old \in op.map

(* Only the master of the record and the one that is being promoted may    *)
(* take writes, and not both.                                              *)
WriterInv(t) ==
  /\ t \notin dead =>
       /\ ~db[t].ro => t = shardMaster \/ (Leading /\ t = op.elect)
       /\ rpcs[t].rpc \in {"demote", "undo"} => t = shardMaster /\ ~Leading
  /\ rpcs[t].rpc = "promote" /\ rpcs[t].step \in {"promote", "type", "refresh"} => rpcs[t].heard
MasterInv ==
  /\ Leading => op.old \in dead \/ db[op.old].ro
  /\ Following => rpcs[op.elect] = NoCall
  /\ Following \/ (op.step = "promote" /\ rpcs[op.elect].step \in {"type", "refresh", "ok"}) =>
       ~db[op.elect].ro /\ ~db[op.elect].running
  /\ op.step = "promote" /\ rpcs[op.elect].step \in {"wait", "promote"} /\ op.elect \notin dead =>
       db[op.elect].ro
  /\ op.step \notin {"slaves", "record"} =>
       rpcs[shardMaster].rpc \in {"none", "demote", "undo"} /\ ~db[shardMaster].running

(* The position of the demoted master.                                     *)
PosInv ==
  /\ op.step = "demote" /\ rpcs[op.old].step = "ok" =>
       rpcs[op.old].arg = GtidSet(op.old) /\ db[op.old].ro
  /\ op.step = "promote" /\ rpcs[op.elect].step = "wait" => rpcs[op.elect].arg = GtidSet(op.old)

(* The master of the record has what any tablet has, until the promotion;  *)
(* from when it caught up or was elected, the new one has.                 *)
Promoted ==
  \/ op.step \in {"slaves", "record"}
  \/ op.step = "promote" /\ rpcs[op.elect].step \notin {"wait", "promote"} /\ ~db[op.elect].ro
Electable == Promoted \/ (op.step = "promote" /\ rpcs[op.elect].step = "promote")
HasMost(t) == \A u \in Tablets : GtidSet(u) \ forgone \subseteq GtidSet(t)
LogInv ==
  /\ ~Promoted => HasMost(shardMaster)
  /\ Electable => HasMost(op.elect)

(* Those that follow.                                                      *)
LeftInv ==
  Following => \A t \in op.left :
    /\ rpcs[t].step = "run" => rpcs[t].arg.master = op.elect
    /\ rpcs[t].step \in {"row", "ok"} => db[t].source = op.elect
DoneFollowing ==
  Following /\ ~op.err =>
    \A t \in op.map \ ({op.elect} \cup op.left) : rpcs[t] = NoCall /\ db[t].source = op.elect
SettledInv ==
  settled =>
    /\ op.step = "idle" /\ ~db[shardMaster].ro /\ rpcs[shardMaster] = NoCall
    /\ \A t \in tablets \ (dead \cup {shardMaster}) : rpcs[t] = NoCall /\ db[t].source = shardMaster

Undoubted ==
  /\ OpInv /\ (\A t \in Tablets : WriterInv(t)) /\ MasterInv /\ PosInv /\ LogInv
  /\ LeftInv /\ DoneFollowing /\ SettledInv
ReparentInv == ReparentData /\ CallInv /\ WriteInv /\ (~doubt => Undoubted)

-----------------------------------------------------------------------------
LEMMA ReparentStarts == ReparentInit => ReparentInv
<1> SUFFICES ASSUME ReparentInit PROVE ReparentInv
  OBVIOUS
<1>1. /\ tablets = Tablets /\ shardMaster = Primary /\ op = NoOp /\ op.step = "idle" /\ dead = {}
      /\ written = 0 /\ reparents = 0 /\ doubt = FALSE /\ forgone = {} /\ settled = TRUE
      /\ Primary \in Tablets
  BY ReparentAssumption DEF ReparentInit, NoOp
<1>2. \A t \in Tablets : rpcs[t] = NoCall /\ rpcs[t].rpc = "none" /\ rpcs[t].step = "none" /\ ~rpcs[t].heard
  BY DEF ReparentInit, NoCall
<1>3. /\ db = [t \in Tablets |-> [log |-> <<>>, ro |-> t # Primary, running |-> t # Primary,
                                  source |-> IF t = Primary THEN Nobody ELSE Primary]]
      /\ rpcs = [t \in Tablets |-> NoCall]
  BY DEF ReparentInit
<1>4. \A t \in Tablets : /\ db[t].log = <<>> /\ (db[t].ro <=> t # Primary) /\ (db[t].running <=> t # Primary)
                         /\ db[t].source = IF t = Primary THEN Nobody ELSE Primary
  BY <1>3
<1>5. \A t \in Tablets : GtidSet(t) = {}
  BY <1>4, SMT DEF GtidSet
<1>6. ReparentData
  <2>1. <<>> \in Seq(Nat) /\ 0 \in Nat
    BY SMT
  <2>2. NoCall \in TabletRpc
    BY DEF NoCall, TabletRpc, RpcNames, RpcSteps, RpcArgs
  <2>3. db \in [Tablets -> TabletDb]
    BY <1>1, <1>3, <2>1 DEF TabletDb
  <2> QED BY <1>1, <1>3, <1>4, <2>1, <2>2, <2>3 DEF ReparentData
<1>7. CallInv
  BY <1>1, <1>2 DEF CallInv, RpcInv, RpcShape, WaitInv, WaitsFor, StatusInv
<1>8. WriteInv
  <2>1. 1..0 = {}
    BY SMT
  <2> QED BY <1>1, <2>1 DEF WriteInv
<1>9. OpInv /\ (\A t \in Tablets : WriterInv(t)) /\ MasterInv /\ PosInv
  BY <1>1, <1>2, <1>4 DEF OpInv, WriterInv, MasterInv, PosInv, Leading, Following
<1>10. LogInv /\ LeftInv /\ DoneFollowing /\ SettledInv
  BY <1>1, <1>2, <1>4, <1>5 DEF LogInv, Promoted, Electable, HasMost, LeftInv, DoneFollowing, SettledInv, Following
<1> QED BY <1>6, <1>7, <1>8, <1>9, <1>10 DEF ReparentInv, Undoubted

(* The end of a handler, and its next step.                                *)
LEMMA EndsFacts ==
  ASSUME rpcs \in [Tablets -> TabletRpc], NEW t \in Tablets, NEW result \in RpcSteps, NEW arg \in RpcArgs,
         RpcEnds(t, result, arg)
  PROVE  /\ rpcs' \in [Tablets -> TabletRpc] /\ \A u \in Tablets : u # t => rpcs'[u] = rpcs[u]
         /\ rpcs[t].heard => /\ rpcs'[t].rpc = rpcs[t].rpc /\ rpcs'[t].step = result
                             /\ rpcs'[t].heard = rpcs[t].heard /\ rpcs'[t].arg = arg
         /\ ~rpcs[t].heard => rpcs'[t] = NoCall
<1>1. NoCall \in TabletRpc
  BY DEF NoCall, TabletRpc, RpcNames, RpcSteps, RpcArgs
<1>2. rpcs[t] \in TabletRpc
  OBVIOUS
<1>3. rpcs' = [rpcs EXCEPT ![t] = IF rpcs[t].heard THEN [rpcs[t] EXCEPT !.step = result, !.arg = arg] ELSE NoCall]
  BY DEF RpcEnds
<1>4. [rpcs[t] EXCEPT !.step = result, !.arg = arg] \in TabletRpc
  BY <1>2 DEF TabletRpc
<1>5. /\ rpcs' \in [Tablets -> TabletRpc] /\ \A u \in Tablets : u # t => rpcs'[u] = rpcs[u]
      /\ rpcs[t].heard => rpcs'[t] = [rpcs[t] EXCEPT !.step = result, !.arg = arg]
      /\ ~rpcs[t].heard => rpcs'[t] = NoCall
  BY <1>1, <1>3, <1>4
<1> QED BY <1>2, <1>5 DEF TabletRpc

LEMMA StepFacts ==
  ASSUME rpcs \in [Tablets -> TabletRpc], NEW t \in Tablets, NEW step \in RpcSteps, Step(t, step)
  PROVE  /\ rpcs' \in [Tablets -> TabletRpc] /\ \A u \in Tablets : u # t => rpcs'[u] = rpcs[u]
         /\ rpcs'[t].rpc = rpcs[t].rpc /\ rpcs'[t].step = step
         /\ rpcs'[t].heard = rpcs[t].heard /\ rpcs'[t].arg = rpcs[t].arg
<1>1. rpcs[t] \in TabletRpc /\ rpcs' = [rpcs EXCEPT ![t].step = step]
  BY DEF Step
<1>2. [rpcs[t] EXCEPT !.step = step] \in TabletRpc
  BY <1>1 DEF TabletRpc
<1>3. /\ rpcs' \in [Tablets -> TabletRpc] /\ \A u \in Tablets : u # t => rpcs'[u] = rpcs[u]
      /\ rpcs'[t] = [rpcs[t] EXCEPT !.step = step]
  BY <1>1, <1>2
<1> QED BY <1>1, <1>3 DEF TabletRpc

(* What MySQL of one tablet may become.                                    *)
LEMMA DbFacts ==
  ASSUME db \in [Tablets -> TabletDb], NEW t \in Tablets, NEW new \in TabletDb, db' = [db EXCEPT ![t] = new]
  PROVE  /\ db' \in [Tablets -> TabletDb] /\ \A u \in Tablets : u # t => db'[u] = db[u]
         /\ db'[t] = new
OBVIOUS

(* What a step of a handler comes to.                                      *)
RpcGoes(t) ==
  \/ rpcs'[t] = NoCall /\ ~rpcs[t].heard
  \/ /\ rpcs'[t].rpc = rpcs[t].rpc /\ rpcs'[t].heard = rpcs[t].heard /\ RpcShape(rpcs'[t])
     /\ rpcs'[t].step \in {"ok", "err"} => rpcs[t].heard
     /\ rpcs'[t].step \notin {"run", "wait"}
DbGoes(t) ==
  /\ db'[t].log = db[t].log
  /\ db'[t].ro = db[t].ro \/ rpcs[t].rpc \in {"demote", "undo"} \/ rpcs'[t].step = "type"
  /\ db'[t].running => (db[t].running \/ rpcs[t].rpc = "setmaster") /\ db'[t].source \in Tablets
DemoteGoes(t) ==
  /\ rpcs[t].rpc = "demote" /\ rpcs'[t].step = "ok" => db'[t].ro /\ rpcs'[t].arg = GtidSet(t)
  /\ rpcs'[t].step = "position" => db'[t].ro
PromoteGoes(t) ==
  rpcs[t].rpc = "promote" =>
    /\ rpcs'[t].step = "promote" => /\ rpcs[t].step = "wait" /\ rpcs[t].arg \subseteq GtidSet(t)
                                    /\ rpcs[t].heard \/ doubt'
    /\ rpcs'[t].step = "type" => rpcs[t].step = "promote" /\ ~db'[t].ro /\ ~db'[t].running
    /\ rpcs'[t].step \in {"refresh", "ok"} => rpcs[t].step \in {"type", "refresh"} /\ db'[t] = db[t]
    /\ rpcs[t].step \in {"type", "refresh"} => db'[t] = db[t]
StopGoes(t) ==
  rpcs[t].rpc = "stop" /\ rpcs'[t].step = "ok" =>
    rpcs'[t].arg \in ReparentStatus /\ rpcs'[t].arg.pos = GtidSet(t)
FollowGoes(t) ==
  rpcs[t].rpc = "setmaster" =>
    /\ rpcs'[t].step = "row" => rpcs[t].step = "run" /\ rpcs'[t].arg \in MasterArg
    /\ rpcs'[t].step \in {"row", "ok"} =>
         \/ rpcs[t].step = "run" /\ db'[t].source = rpcs[t].arg.master
         \/ rpcs[t].step = "row" /\ db'[t].source = db[t].source
Handled(t) ==
  /\ t \notin dead /\ rpcs[t].rpc # "none" /\ rpcs[t].step \notin {"ok", "err"}
  /\ rpcs[t].rpc = "promote" => rpcs[t].step \in {"wait", "promote", "type", "refresh"}
  /\ db' \in [Tablets -> TabletDb] /\ rpcs' \in [Tablets -> TabletRpc]
  /\ \A u \in Tablets : u # t => db'[u] = db[u] /\ rpcs'[u] = rpcs[u]
  /\ RpcGoes(t) /\ DbGoes(t) /\ DemoteGoes(t) /\ PromoteGoes(t) /\ StopGoes(t) /\ FollowGoes(t)

LEMMA GtidsAreNumbers ==
  ASSUME db \in [Tablets -> TabletDb], NEW t \in Tablets
  PROVE  GtidSet(t) \in SUBSET Nat /\ GtidSet(t) \in RpcArgs /\ {} \in RpcArgs
<1>1. db[t].log \in Seq(Nat)
  BY DEF TabletDb
<1>2. GtidSet(t) \in SUBSET Nat
  BY <1>1, SMT DEF GtidSet
<1> QED BY <1>2 DEF RpcArgs

(* A handler ends, and one goes on.                                        *)
LEMMA HandlerEnds ==
  ASSUME ReparentData, NEW t \in Tablets, t \notin dead, RpcShape(rpcs[t]), rpcs[t].rpc # "none",
         rpcs[t].step \notin {"ok", "err"}, NEW result \in {"ok", "err"}, NEW arg \in RpcArgs,
         RpcEnds(t, result, arg), NEW new \in TabletDb, new.log = db[t].log, db' = [db EXCEPT ![t] = new],
         new.ro = db[t].ro \/ rpcs[t].rpc \in {"demote", "undo"},
         new.running => (db[t].running \/ rpcs[t].rpc = "setmaster") /\ new.source \in Tablets,
         rpcs[t].rpc = "demote" /\ result = "ok" => new.ro /\ arg = GtidSet(t),
         rpcs[t].rpc = "promote" =>
           /\ rpcs[t].step \in {"type", "refresh"} => new = db[t]
           /\ result = "ok" => rpcs[t].step \in {"type", "refresh"},
         rpcs[t].rpc = "stop" /\ result = "ok" => arg \in ReparentStatus /\ arg.pos = GtidSet(t),
         rpcs[t].rpc = "setmaster" /\ result = "ok" =>
           \/ rpcs[t].step = "run" /\ new.source = rpcs[t].arg.master
           \/ rpcs[t].step = "row" /\ new.source = db[t].source
  PROVE  Handled(t)
<1>1. db \in [Tablets -> TabletDb] /\ rpcs \in [Tablets -> TabletRpc]
  BY DEF ReparentData
<1>2. /\ rpcs' \in [Tablets -> TabletRpc] /\ \A u \in Tablets : u # t => rpcs'[u] = rpcs[u]
      /\ rpcs[t].heard => /\ rpcs'[t].rpc = rpcs[t].rpc /\ rpcs'[t].step = result
                          /\ rpcs'[t].heard = rpcs[t].heard /\ rpcs'[t].arg = arg
      /\ ~rpcs[t].heard => rpcs'[t] = NoCall
  BY <1>1, EndsFacts, SMT DEF RpcSteps
<1>3. /\ db' \in [Tablets -> TabletDb] /\ \A u \in Tablets : u # t => db'[u] = db[u] /\ db'[t] = new
  BY <1>1, DbFacts
<1>4. NoCall.rpc = "none" /\ NoCall.step = "none"
  BY DEF NoCall
<1>5. /\ rpcs[t].rpc = "promote" => rpcs[t].step \in {"wait", "promote", "type", "refresh"}
      /\ rpcs[t].heard => RpcShape(rpcs'[t])
  BY <1>2, <1>4 DEF RpcShape
<1>6. db'[t] = new
  BY <1>1
<1>7. RpcGoes(t) /\ DbGoes(t) /\ DemoteGoes(t)
  BY <1>2, <1>4, <1>5, <1>6 DEF RpcGoes, DbGoes, DemoteGoes
<1>8. PromoteGoes(t) /\ StopGoes(t) /\ FollowGoes(t)
  BY <1>2, <1>4, <1>6 DEF PromoteGoes, StopGoes, FollowGoes
<1> QED BY <1>2, <1>3, <1>5, <1>7, <1>8 DEF Handled

LEMMA HandlerFacts ==
  ASSUME ReparentData, CallInv, NEW t \in Tablets, Handler(t)
  PROVE  Handled(t)
<1> USE DEF RpcSteps
<1>1. /\ db \in [Tablets -> TabletDb] /\ rpcs \in [Tablets -> TabletRpc]
      /\ db[t].running => db[t].source \in Tablets
      /\ db[t] \in TabletDb /\ rpcs[t] \in TabletRpc /\ TRUE \in BOOLEAN /\ FALSE \in BOOLEAN
      /\ Nobody \in Tablets \cup {Nobody}
  BY DEF ReparentData
<1>2. GtidSet(t) \in SUBSET Nat /\ GtidSet(t) \in RpcArgs /\ {} \in RpcArgs
  BY <1>1, GtidsAreNumbers
<1>3. ASSUME NEW c PROVE /\ c.rpc \in {"demote", "undo", "stop"} /\ c.step \in {"ok", "err"} => RpcShape(c)
                         /\ c.rpc = "setmaster" /\ c.step \in {"row", "ok", "err"} => RpcShape(c)
                         /\ c.rpc = "promote" /\ c.step \in {"promote", "type", "refresh", "ok", "err"} => RpcShape(c)
  BY DEF RpcShape
<1>4. NoCall.rpc = "none" /\ NoCall.step = "none"
  BY DEF NoCall
<1>5. RpcShape(rpcs[t]) /\ "ok" \in {"ok", "err"} /\ "err" \in {"ok", "err"}
      /\ (rpcs[t].rpc = "setmaster" /\ rpcs[t].step \in {"run", "row"} => rpcs[t].arg \in MasterArg)
  BY DEF CallInv, RpcInv
<1>6. ASSUME NEW ro \in BOOLEAN
      PROVE  LET new == [db[t] EXCEPT !.ro = ro]
             IN  /\ new \in TabletDb /\ new.log = db[t].log /\ new.ro = ro
                 /\ new.running = db[t].running /\ new.source = db[t].source
                 /\ db' = [db EXCEPT ![t].ro = ro] => db' = [db EXCEPT ![t] = new]
  BY <1>1 DEF TabletDb
<1>7. db' = db => db' = [db EXCEPT ![t] = db[t]]
  BY <1>1
<1>15. CASE DemoteServing(t)
  <2>1. rpcs[t].rpc = "demote" /\ rpcs[t].step = "run" /\ t \notin dead /\ db' = db
    BY <1>15 DEF DemoteServing, Working, UnderLock
  <2>2. CASE Step(t, "readonly")
    <3>1. /\ rpcs' \in [Tablets -> TabletRpc] /\ \A u \in Tablets : u # t => rpcs'[u] = rpcs[u]
          /\ rpcs'[t].rpc = rpcs[t].rpc /\ rpcs'[t].step = "readonly"
          /\ rpcs'[t].heard = rpcs[t].heard /\ rpcs'[t].arg = rpcs[t].arg
      BY <1>1, <2>2, StepFacts
    <3> QED BY <1>1, <2>1, <3>1
            DEF Handled, RpcGoes, RpcShape, DbGoes, DemoteGoes, PromoteGoes, StopGoes, FollowGoes
  <2>3. CASE RpcEnds(t, "err", {})
    BY <1>1, <1>2, <1>5, <1>7, <2>1, <2>3, HandlerEnds
  <2> QED BY <1>15, <2>2, <2>3 DEF DemoteServing
<1>16. CASE DemoteReadOnly(t)
  <2>1. rpcs[t].rpc = "demote" /\ rpcs[t].step = "readonly" /\ t \notin dead
    BY <1>16 DEF DemoteReadOnly, Working, UnderLock
  <2> DEFINE new == [db[t] EXCEPT !.ro = TRUE]
  <2>2. /\ new \in TabletDb /\ new.log = db[t].log /\ new.ro /\ new.running = db[t].running
        /\ new.source = db[t].source
        /\ db' = [db EXCEPT ![t].ro = TRUE] => db' = [db EXCEPT ![t] = new]
    BY <1>1, <1>6
  <2> HIDE DEF new
  <2>3. CASE db' = [db EXCEPT ![t].ro = TRUE] /\ Step(t, "position")
    <3>1. /\ rpcs' \in [Tablets -> TabletRpc] /\ \A u \in Tablets : u # t => rpcs'[u] = rpcs[u]
          /\ rpcs'[t].rpc = rpcs[t].rpc /\ rpcs'[t].step = "position"
          /\ rpcs'[t].heard = rpcs[t].heard /\ rpcs'[t].arg = rpcs[t].arg
      BY <1>1, <2>3, StepFacts
    <3>2. db' \in [Tablets -> TabletDb] /\ (\A u \in Tablets : u # t => db'[u] = db[u]) /\ db'[t] = new
      BY <1>1, <2>2, <2>3, DbFacts
    <3> QED BY <1>1, <2>1, <2>2, <3>1, <3>2
            DEF Handled, RpcGoes, RpcShape, DbGoes, DemoteGoes, PromoteGoes, StopGoes, FollowGoes
  <2>4. CASE db' = db /\ RpcEnds(t, "err", {})
    BY <1>1, <1>2, <1>5, <1>7, <2>1, <2>4, HandlerEnds
  <2>5. CASE db' = [db EXCEPT ![t].ro = TRUE] /\ RpcEnds(t, "err", {})
    BY <1>1, <1>2, <1>5, <2>1, <2>2, <2>5, HandlerEnds
  <2> QED BY <1>16, <2>3, <2>4, <2>5 DEF DemoteReadOnly
<1>17. CASE DemotePosition(t)
  <2>1. /\ rpcs[t].rpc = "demote" /\ rpcs[t].step = "position" /\ t \notin dead
        /\ rpcs[t].step = "position" => db[t].ro
    BY <1>17 DEF DemotePosition, Working, UnderLock, CallInv, RpcInv
  <2> DEFINE new == [db[t] EXCEPT !.ro = FALSE]
  <2>2. /\ new \in TabletDb /\ new.log = db[t].log /\ new.running = db[t].running
        /\ new.source = db[t].source
        /\ db' = [db EXCEPT ![t].ro = FALSE] => db' = [db EXCEPT ![t] = new]
    BY <1>1, <1>6
  <2> HIDE DEF new
  <2>3. CASE db' = db /\ RpcEnds(t, "ok", GtidSet(t))
    BY <1>1, <1>2, <1>5, <1>7, <2>1, <2>3, HandlerEnds
  <2>4. CASE db' = db /\ RpcEnds(t, "err", {})
    BY <1>1, <1>2, <1>5, <1>7, <2>1, <2>4, HandlerEnds
  <2>5. CASE db' = [db EXCEPT ![t].ro = FALSE] /\ RpcEnds(t, "err", {})
    BY <1>1, <1>2, <1>5, <2>1, <2>2, <2>5, HandlerEnds
  <2> QED BY <1>17, <2>3, <2>4, <2>5 DEF DemotePosition
<1>8. CASE UndoDemoteMaster(t)
  <2>1. rpcs[t].rpc = "undo" /\ rpcs[t].step = "run" /\ t \notin dead
    BY <1>8 DEF UndoDemoteMaster, Working, UnderLock
  <2>2. ASSUME NEW result \in {"ok", "err"}, db' = [db EXCEPT ![t].ro = FALSE], RpcEnds(t, result, {})
        PROVE  Handled(t)
    <3> DEFINE new == [db[t] EXCEPT !.ro = FALSE]
    <3>1. /\ new \in TabletDb /\ new.log = db[t].log /\ new.running = db[t].running
          /\ new.source = db[t].source
      BY <1>1 DEF TabletDb
    <3>2. db' = [db EXCEPT ![t] = new]
      BY <2>2
    <3> HIDE DEF new
    <3> QED BY <1>1, <1>2, <1>5, <2>1, <2>2, <3>1, <3>2, HandlerEnds, ZenonT(30)
  <2>3. CASE db' = db /\ RpcEnds(t, "err", {})
    BY <1>1, <1>2, <1>5, <1>7, <2>1, <2>3, HandlerEnds
  <2> QED BY <1>5, <1>8, <2>2, <2>3 DEF UndoDemoteMaster
<1>9. CASE StopReplication(t)
  <2>1. rpcs[t].rpc = "stop" /\ rpcs[t].step = "run" /\ t \notin dead
    BY <1>9 DEF StopReplication, Working, UnderLock
  <2> DEFINE new == [db[t] EXCEPT !.running = FALSE]
             arg == [pos |-> GtidSet(t), ran |-> db[t].running, known |-> TRUE]
  <2>2. /\ new \in TabletDb /\ new.log = db[t].log /\ new.ro = db[t].ro /\ ~new.running
        /\ new.source = db[t].source /\ arg \in ReparentStatus /\ arg.pos = GtidSet(t) /\ arg \in RpcArgs
    BY <1>1, <1>2 DEF TabletDb, ReparentStatus, RpcArgs
  <2>3. db' = [db EXCEPT ![t].running = FALSE] => db' = [db EXCEPT ![t] = new]
    OBVIOUS
  <2>4. \/ db' = [db EXCEPT ![t].running = FALSE] /\ RpcEnds(t, "ok", arg)
        \/ db' = [db EXCEPT ![t].running = FALSE] /\ RpcEnds(t, "err", {})
        \/ db' = db /\ RpcEnds(t, "err", {})
    BY <1>9 DEF StopReplication
  <2> HIDE DEF new, arg
  <2>5. CASE db' = [db EXCEPT ![t].running = FALSE] /\ RpcEnds(t, "ok", arg)
    BY <1>1, <1>2, <1>5, <2>1, <2>2, <2>3, <2>5, HandlerEnds
  <2>6. CASE db' = [db EXCEPT ![t].running = FALSE] /\ RpcEnds(t, "err", {})
    BY <1>1, <1>2, <1>5, <2>1, <2>2, <2>3, <2>6, HandlerEnds
  <2>7. CASE db' = db /\ RpcEnds(t, "err", {})
    BY <1>1, <1>2, <1>5, <1>7, <2>1, <2>7, HandlerEnds
  <2> QED BY <2>4, <2>5, <2>6, <2>7
<1>10. CASE CatchUp(t)
  <2>1. rpcs[t].rpc = "promote" /\ rpcs[t].step = "wait" /\ t \notin dead /\ db' = db
    BY <1>10 DEF CatchUp, Working, UnderLock
  <2>2. CASE /\ rpcs[t].arg \subseteq GtidSet(t) /\ Step(t, "promote")
             /\ doubt' = (doubt \/ ~rpcs[t].heard)
    <3>1. /\ rpcs' \in [Tablets -> TabletRpc] /\ \A u \in Tablets : u # t => rpcs'[u] = rpcs[u]
          /\ rpcs'[t].rpc = rpcs[t].rpc /\ rpcs'[t].step = "promote"
          /\ rpcs'[t].heard = rpcs[t].heard /\ rpcs'[t].arg = rpcs[t].arg
      BY <1>1, <2>2, StepFacts
    <3> QED BY <1>1, <1>3, <2>1, <2>2, <3>1
            DEF Handled, RpcGoes, DbGoes, DemoteGoes, PromoteGoes, StopGoes, FollowGoes
  <2>3. CASE RpcEnds(t, "err", {})
    BY <1>1, <1>2, <1>5, <1>7, <2>1, <2>3, HandlerEnds
  <2> QED BY <1>10, <2>2, <2>3 DEF CatchUp
<1>11. CASE PromoteSlave(t)
  <2>1. rpcs[t].rpc = "promote" /\ rpcs[t].step = "promote" /\ t \notin dead
    BY <1>11 DEF PromoteSlave, Working, UnderLock
  <2>2. CASE /\ db' = [db EXCEPT ![t].ro = FALSE, ![t].running = FALSE, ![t].source = Nobody]
             /\ Step(t, "type")
    <3> DEFINE new == [db[t] EXCEPT !.ro = FALSE, !.running = FALSE, !.source = Nobody]
    <3>1. new \in TabletDb /\ new.log = db[t].log /\ ~new.ro /\ ~new.running
      BY <1>1 DEF TabletDb
    <3>2. db' = [db EXCEPT ![t] = new]
      BY <1>1, <2>2
    <3> HIDE DEF new
    <3>3. /\ db' \in [Tablets -> TabletDb] /\ \A u \in Tablets : u # t => db'[u] = db[u]
          /\ db'[t] = new
      BY <1>1, <3>1, <3>2, DbFacts
    <3>4. /\ rpcs' \in [Tablets -> TabletRpc] /\ \A u \in Tablets : u # t => rpcs'[u] = rpcs[u]
          /\ rpcs'[t].rpc = rpcs[t].rpc /\ rpcs'[t].step = "type"
          /\ rpcs'[t].heard = rpcs[t].heard /\ rpcs'[t].arg = rpcs[t].arg
      BY <1>1, <2>2, StepFacts
    <3> QED BY <1>3, <2>1, <3>1, <3>3, <3>4
            DEF Handled, RpcGoes, DbGoes, DemoteGoes, PromoteGoes, StopGoes, FollowGoes
  <2>3. CASE db' = db /\ RpcEnds(t, "err", {})
    BY <1>1, <1>2, <1>5, <1>7, <2>1, <2>3, HandlerEnds
  <2>4. CASE /\ db' = [db EXCEPT ![t].running = FALSE, ![t].source = Nobody]
             /\ RpcEnds(t, "err", {})
    <3> DEFINE new == [db[t] EXCEPT !.running = FALSE, !.source = Nobody]
    <3>1. new \in TabletDb /\ new.log = db[t].log /\ new.ro = db[t].ro /\ ~new.running
      BY <1>1 DEF TabletDb
    <3>2. db' = [db EXCEPT ![t] = new]
      BY <1>1, <2>4
    <3> HIDE DEF new
    <3> QED BY <1>1, <1>2, <1>5, <2>1, <2>4, <3>1, <3>2, HandlerEnds
  <2>5. CASE db' = [db EXCEPT ![t].running = FALSE] /\ RpcEnds(t, "err", {})
    <3> DEFINE new == [db[t] EXCEPT !.running = FALSE]
    <3>1. new \in TabletDb /\ new.log = db[t].log /\ new.ro = db[t].ro /\ ~new.running
      BY <1>1 DEF TabletDb
    <3>2. db' = [db EXCEPT ![t] = new]
      BY <1>1, <2>5
    <3> HIDE DEF new
    <3> QED BY <1>1, <1>2, <1>5, <2>1, <2>5, <3>1, <3>2, HandlerEnds
  <2> QED BY <1>11, <2>2, <2>3, <2>4, <2>5 DEF PromoteSlave
<1>12. CASE PromoteType(t) \/ PromoteRefresh(t)
  <2>1. /\ rpcs[t].rpc = "promote" /\ rpcs[t].step \in {"type", "refresh"} /\ t \notin dead /\ db' = db
        /\ \/ rpcs[t].step = "type" /\ Step(t, "refresh")
           \/ \E result \in {"ok", "err"} : RpcEnds(t, result, {})
    BY <1>5, <1>12 DEF PromoteType, PromoteRefresh, Working, UnderLock
  <2>2. CASE rpcs[t].step = "type" /\ Step(t, "refresh")
    <3>1. /\ rpcs' \in [Tablets -> TabletRpc] /\ \A u \in Tablets : u # t => rpcs'[u] = rpcs[u]
          /\ rpcs'[t].rpc = rpcs[t].rpc /\ rpcs'[t].step = "refresh"
          /\ rpcs'[t].heard = rpcs[t].heard /\ rpcs'[t].arg = rpcs[t].arg
      BY <1>1, <2>2, StepFacts
    <3> QED BY <1>1, <1>3, <2>1, <2>2, <3>1
            DEF Handled, RpcGoes, DbGoes, DemoteGoes, PromoteGoes, StopGoes, FollowGoes
  <2>3. ASSUME NEW result \in {"ok", "err"}, RpcEnds(t, result, {}) PROVE Handled(t)
    BY <1>1, <1>2, <1>5, <1>7, <2>1, <2>3, HandlerEnds, SMT
  <2> QED BY <2>1, <2>2, <2>3
<1>13. CASE SetMasterRow(t)
  <2>1. rpcs[t].rpc = "setmaster" /\ rpcs[t].step = "row" /\ t \notin dead /\ db' = db
        /\ \E result \in {"ok", "err"} : RpcEnds(t, result, {})
    BY <1>5, <1>13 DEF SetMasterRow, Working, UnderLock
  <2> QED BY <1>1, <1>2, <1>5, <1>7, <2>1, HandlerEnds
<1>14. CASE SetMaster(t)
  <2> DEFINE running == db[t].running \/ rpcs[t].arg.force
             pointed == [db EXCEPT ![t].source = rpcs[t].arg.master, ![t].running = running]
             new == [db[t] EXCEPT !.source = rpcs[t].arg.master, !.running = running]
             arg == [rpcs[t].arg EXCEPT !.changed = agent[t].kind = "MASTER"]
  <2>1. rpcs[t].rpc = "setmaster" /\ rpcs[t].step = "run" /\ t \notin dead
    BY <1>14 DEF SetMaster, Working, UnderLock
  <2>2. rpcs[t].arg \in MasterArg /\ rpcs[t].arg.master \in Tablets /\ running \in BOOLEAN
    BY <1>5, <2>1 DEF MasterArg
  <2>3. /\ new \in TabletDb /\ new.log = db[t].log /\ new.ro = db[t].ro /\ new.running = running
        /\ new.source = rpcs[t].arg.master
    BY <1>1, <2>2 DEF TabletDb
  <2>4. db' = pointed => db' = [db EXCEPT ![t] = new]
    BY <1>1
  <2>5. arg \in MasterArg /\ arg \in RpcArgs
    BY <2>2 DEF MasterArg, RpcArgs
  <2>6. \/ db' = pointed /\ running /\ rpcs' = [rpcs EXCEPT ![t].step = "row",
                                              ![t].arg.changed = agent[t].kind = "MASTER"]
        \/ db' = pointed /\ RpcEnds(t, "ok", {})
        \/ db' = pointed /\ RpcEnds(t, "err", {})
        \/ db' = db /\ RpcEnds(t, "err", {})
    BY <1>14 DEF SetMaster
  <2>7. CASE db' = pointed /\ running /\ rpcs' = [rpcs EXCEPT ![t].step = "row",
                                              ![t].arg.changed = agent[t].kind = "MASTER"]
    <3>1. rpcs' = [rpcs EXCEPT ![t] = [rpcs[t] EXCEPT !.step = "row", !.arg = arg]]
      BY <1>1, <2>7
    <3> HIDE DEF new, arg, pointed, running
    <3>2. /\ db' \in [Tablets -> TabletDb] /\ \A u \in Tablets : u # t => db'[u] = db[u]
          /\ db'[t] = new
      BY <1>1, <2>3, <2>4, <2>7, DbFacts
    <3>3. [rpcs[t] EXCEPT !.step = "row", !.arg = arg] \in TabletRpc
      BY <1>1, <2>5 DEF TabletRpc
    <3>4. /\ rpcs' \in [Tablets -> TabletRpc] /\ \A u \in Tablets : u # t => rpcs'[u] = rpcs[u]
          /\ rpcs'[t] = [rpcs[t] EXCEPT !.step = "row", !.arg = arg]
      BY <1>1, <3>1, <3>3
    <3>5. /\ rpcs'[t].rpc = rpcs[t].rpc /\ rpcs'[t].step = "row"
          /\ rpcs'[t].heard = rpcs[t].heard /\ rpcs'[t].arg = arg
      BY <1>1, <3>4 DEF TabletRpc
    <3> QED BY <1>3, <2>1, <2>2, <2>3, <2>5, <3>2, <3>4, <3>5
            DEF Handled, RpcGoes, DbGoes, DemoteGoes, PromoteGoes, StopGoes, FollowGoes
  <2> HIDE DEF new, arg, pointed, running
  <2>8. ASSUME NEW result \in {"ok", "err"}, db' = pointed, RpcEnds(t, result, {}) PROVE Handled(t)
    BY <1>1, <1>2, <1>5, <2>1, <2>2, <2>3, <2>4, <2>8, HandlerEnds, SMT
  <2>9. CASE db' = db /\ RpcEnds(t, "err", {})
    BY <1>1, <1>2, <1>5, <1>7, <2>1, <2>9, HandlerEnds
  <2> QED BY <1>5, <2>6, <2>7, <2>8, <2>9
<1> QED BY <1>15, <1>16, <1>17, <1>8, <1>9, <1>10, <1>11, <1>12, <1>13, <1>14 DEF Handler

(* Whom the wrangler waits for, and for what.                              *)
LEMMA HeardFacts ==
  ASSUME CallInv, NEW t \in Tablets
  PROVE  /\ rpcs[t].heard /\ rpcs[t].rpc = "promote" => op.step = "promote" /\ t = op.elect
         /\ op.step = "promote" /\ t = op.elect => rpcs[t].heard /\ rpcs[t].rpc = "promote"
         /\ op.step = "demote" /\ t = op.old => rpcs[t].heard /\ rpcs[t].rpc = "demote"
         /\ op.step = "undo" /\ t = op.old => rpcs[t].heard /\ rpcs[t].rpc = "undo"
         /\ op.step = "stop" /\ t \in op.left => rpcs[t].heard /\ rpcs[t].rpc = "stop"
         /\ Following /\ t \in op.left => rpcs[t].heard /\ rpcs[t].rpc = "setmaster"
         /\ RpcShape(rpcs[t]) /\ (rpcs[t].step \in {"ok", "err"} => rpcs[t].heard)
BY SMT DEF CallInv, RpcInv, WaitInv, WaitsFor, Following

LEMMA CallIsNone == NoCall.rpc = "none" /\ NoCall.step = "none" /\ ~NoCall.heard
BY DEF NoCall

(* The logs that there are.                                                *)
LEMMA LogsStay ==
  ASSUME \A u \in Tablets : db'[u].log = db[u].log
  PROVE  \A u \in Tablets : GtidSet(u)' = GtidSet(u)
BY DEF GtidSet

(* A handler keeps the invariant.                                          *)
LEMMA HandledKeeps ==
  ASSUME ReparentInv, NEW t \in Tablets, Handled(t),
         UNCHANGED <<tablets, shardMaster, op, dead, written, reparents, forgone, settled>>,
         doubt' \in BOOLEAN, doubt => doubt'
  PROVE  ReparentInv'
<1>1. /\ t \notin dead /\ rpcs[t].rpc # "none" /\ rpcs[t].step \notin {"ok", "err"}
      /\ rpcs[t].rpc = "promote" => rpcs[t].step \in {"wait", "promote", "type", "refresh"}
      /\ db' \in [Tablets -> TabletDb] /\ rpcs' \in [Tablets -> TabletRpc]
      /\ \A u \in Tablets : u # t => db'[u] = db[u] /\ rpcs'[u] = rpcs[u]
  BY DEF Handled
<1>2. RpcGoes(t) /\ DbGoes(t) /\ DemoteGoes(t) /\ PromoteGoes(t) /\ StopGoes(t) /\ FollowGoes(t)
  BY DEF Handled
<1>3. ReparentData /\ CallInv /\ WriteInv
  BY DEF ReparentInv
<1>4. \A u \in Tablets : GtidSet(u)' = GtidSet(u)
  <2>1. \A u \in Tablets : db'[u].log = db[u].log
    BY <1>1, <1>2 DEF DbGoes
  <2> QED BY <2>1, LogsStay
<1>5. (Leading' <=> Leading) /\ (Following' <=> Following) /\ WaitsFor' = WaitsFor
  BY DEF Leading, Following, WaitsFor
<1>6. /\ rpcs'[t].heard = rpcs[t].heard \/ (rpcs'[t] = NoCall /\ ~rpcs'[t].heard /\ ~rpcs[t].heard)
      /\ rpcs'[t].rpc = rpcs[t].rpc \/ (rpcs'[t] = NoCall /\ rpcs'[t].rpc = "none")
      /\ RpcShape(rpcs'[t]) /\ rpcs'[t].step \notin {"run", "wait"}
      /\ rpcs'[t].step \in {"ok", "err"} => rpcs'[t].heard
      /\ rpcs'[t].step = "type" => rpcs[t].rpc = "promote"
  BY <1>2, CallIsNone DEF RpcGoes, RpcShape
<1>7. ReparentData'
  <2>1. \A u \in Tablets : db'[u].running => db'[u].source \in Tablets
    BY <1>1, <1>2, <1>3 DEF DbGoes, ReparentData
  <2> QED BY <1>1, <1>3, <2>1 DEF ReparentData
<1>8. CallInv'
  <2>1. ASSUME NEW u \in Tablets, u # t PROVE RpcInv(u)' /\ WaitInv(u)'
    BY <1>1, <1>3, <1>4, <1>5, <2>1 DEF CallInv, RpcInv, WaitInv
  <2>2. RpcInv(t)'
    BY <1>2, <1>4, <1>6, CallIsNone DEF RpcInv, DemoteGoes, StopGoes, FollowGoes
  <2>3. WaitInv(t)'
    <3>1. /\ rpcs'[t].heard <=> rpcs[t].heard
          /\ rpcs[t].heard => rpcs'[t].rpc = rpcs[t].rpc
      BY <1>6, CallIsNone
    <3>2. WaitInv(t) /\ (Following' <=> Following) /\ op' = op
      BY <1>3, <1>5 DEF CallInv
    <3> QED BY <1>5, <3>1, <3>2 DEF WaitInv
  <2>4. \A u \in Tablets : StatusInv(u)'
    BY <1>3, <1>4 DEF CallInv, StatusInv
  <2> QED BY <2>1, <2>2, <2>3, <2>4 DEF CallInv
<1>9. WriteInv'
  BY <1>3, <1>4, SMT DEF WriteInv
<1>10. ASSUME ~doubt' PROVE Undoubted'
  <2>1. /\ OpInv /\ (\A u \in Tablets : WriterInv(u)) /\ MasterInv /\ PosInv /\ LogInv
        /\ LeftInv /\ DoneFollowing /\ SettledInv
    BY <1>10 DEF ReparentInv, Undoubted
  <2>2. op.step # "idle" => op.old \in Tablets /\ op.elect \in Tablets /\ op.left \subseteq Tablets
                            /\ op.map \subseteq Tablets
    BY <1>3, SMT DEF ReparentData, ReparentOp, NoOp
  <2>3. shardMaster \in Tablets /\ tablets \subseteq Tablets
    BY <1>3 DEF ReparentData
  <2>4. /\ rpcs[t].rpc = "promote" /\ rpcs[t].heard => op.step = "promote" /\ t = op.elect
        /\ op.step = "promote" => rpcs[op.elect].heard /\ rpcs[op.elect].rpc = "promote"
        /\ op.step = "demote" => rpcs[op.old].rpc = "demote"
    BY <1>3, <2>2, HeardFacts
  <2>5. rpcs'[t].step = "type" => op.step = "promote" /\ t = op.elect
    BY <1>2, <1>6, <2>1, <2>4 DEF PromoteGoes, WriterInv
  <2>6. OpInv'
    BY <2>1 DEF OpInv
  <2>7. \A u \in Tablets : WriterInv(u)'
    <3>1. ASSUME NEW u \in Tablets, u # t PROVE WriterInv(u)'
      BY <1>1, <1>5, <2>1, <3>1 DEF WriterInv
    <3>2. ~db'[t].ro => t = shardMaster \/ (Leading /\ t = op.elect)
      BY <1>1, <1>2, <2>1, <2>5 DEF WriterInv, DbGoes, Leading
    <3>3. rpcs'[t].rpc \in {"demote", "undo"} => t = shardMaster /\ ~Leading
      BY <1>1, <1>6, <2>1 DEF WriterInv
    <3>4. rpcs'[t].rpc = "promote" /\ rpcs'[t].step \in {"promote", "type", "refresh"} => rpcs'[t].heard
      BY <1>2, <1>6, <1>10, <2>1 DEF WriterInv, PromoteGoes
    <3>5. WriterInv(t)'
      BY <1>5, <3>2, <3>3, <3>4 DEF WriterInv
    <3> QED BY <3>1, <3>5
  <2>8. MasterInv'
    <3>1. Leading => op.old \in dead \/ db'[op.old].ro
      <4>1. CASE t # op.old
        BY <1>1, <2>1, <2>2, <4>1 DEF MasterInv, Leading
      <4>2. CASE t = op.old /\ Leading
        <5>1. rpcs[t].rpc \notin {"demote", "undo"} /\ db[t].ro /\ rpcs'[t].step # "type"
          BY <1>1, <2>1, <2>5, <4>2 DEF MasterInv, WriterInv, OpInv, Leading
        <5> QED BY <1>2, <4>2, <5>1 DEF DbGoes
      <4> QED BY <4>1, <4>2
    <3>2. Following => rpcs'[op.elect] = NoCall /\ db'[op.elect] = db[op.elect]
      BY <1>1, <2>1, <2>2, CallIsNone DEF MasterInv, Following
    <3>3. op.step = "promote" /\ rpcs'[op.elect].step \in {"type", "refresh", "ok"} =>
            ~db'[op.elect].ro /\ ~db'[op.elect].running
      <4>1. CASE t # op.elect
        BY <1>1, <2>1, <2>2, <4>1 DEF MasterInv
      <4>2. CASE t = op.elect /\ op.step = "promote"
        BY <1>2, <2>1, <2>4, <4>2 DEF MasterInv, PromoteGoes
      <4> QED BY <4>1, <4>2
    <3>4. op.step = "promote" /\ rpcs'[op.elect].step \in {"wait", "promote"} /\ op.elect \notin dead =>
            db'[op.elect].ro
      <4>1. CASE t # op.elect
        BY <1>1, <2>1, <2>2, <4>1 DEF MasterInv
      <4>2. CASE t = op.elect /\ op.step = "promote" /\ rpcs'[t].step \in {"wait", "promote"}
        <5>1. rpcs[t].step = "wait" /\ rpcs'[t].step = "promote" /\ rpcs[t].rpc = "promote"
          BY <1>2, <1>6, <2>4, <4>2 DEF PromoteGoes
        <5> QED BY <1>1, <1>2, <2>1, <4>2, <5>1 DEF MasterInv, DbGoes
      <4> QED BY <4>1, <4>2
    <3>5. op.step \notin {"slaves", "record"} =>
            rpcs'[shardMaster].rpc \in {"none", "demote", "undo"} /\ ~db'[shardMaster].running
      <4>1. CASE t # shardMaster
        BY <1>1, <2>1, <2>3, <4>1 DEF MasterInv
      <4>2. CASE t = shardMaster
        BY <1>2, <1>6, <2>1, <4>2 DEF MasterInv, DbGoes
      <4> QED BY <4>1, <4>2
    <3>6. Following => ~db'[op.elect].ro /\ ~db'[op.elect].running
      BY <2>1, <3>2 DEF MasterInv
    <3> QED BY <1>5, <3>1, <3>2, <3>3, <3>4, <3>5, <3>6 DEF MasterInv
  <2>9. PosInv'
    <3>1. op.step = "demote" /\ rpcs'[op.old].step = "ok" =>
            rpcs'[op.old].arg = GtidSet(op.old) /\ db'[op.old].ro
      <4>1. CASE t # op.old
        BY <1>1, <2>1, <2>2, <4>1 DEF PosInv
      <4>2. CASE t = op.old
        BY <1>2, <2>4, <4>2 DEF DemoteGoes
      <4> QED BY <4>1, <4>2
    <3>2. op.step = "promote" /\ rpcs'[op.elect].step = "wait" => rpcs'[op.elect].arg = GtidSet(op.old)
      BY <1>1, <1>6, <2>1, <2>2 DEF PosInv
    <3> QED BY <1>4, <2>2, <3>1, <3>2 DEF PosInv
  <2>10. LogInv'
    <3>1. \A u \in Tablets : HasMost(u)' <=> HasMost(u)
      BY <1>4, SMT DEF HasMost
    <3>2. CASE t # op.elect \/ op.step # "promote"
      <4>1. (Promoted' <=> Promoted) /\ (Electable' <=> Electable)
        BY <1>1, <2>2, <3>2, SMT DEF Promoted, Electable
      <4> QED BY <2>1, <2>2, <2>3, <3>1, <4>1, SMT DEF LogInv, Promoted, Electable
    <3>3. CASE t = op.elect /\ op.step = "promote"
      <4>1. rpcs[t].heard /\ rpcs[t].rpc = "promote" /\ op.old = shardMaster
        BY <2>1, <2>4, <3>3 DEF OpInv
      <4>2. CASE rpcs[t].step = "wait"
        <5>1. db[t].ro /\ (rpcs'[t].step # "type" => db'[t].ro) /\ ~Promoted
          BY <1>1, <1>2, <2>1, <3>3, <4>1, <4>2 DEF MasterInv, DbGoes, Promoted
        <5>2. ~Promoted' /\ (Electable' => rpcs'[t].step = "promote")
          BY <1>2, <3>3, <4>1, <4>2, <5>1 DEF Promoted, Electable, PromoteGoes
        <5>3. rpcs'[t].step = "promote" => HasMost(t)
          <6>1. rpcs'[t].step = "promote" => GtidSet(shardMaster) \subseteq GtidSet(t)
            BY <1>2, <2>1, <3>3, <4>1, <4>2 DEF PosInv, PromoteGoes
          <6> QED BY <2>1, <5>1, <6>1 DEF LogInv, HasMost
        <5> QED BY <2>1, <2>3, <3>1, <3>3, <5>1, <5>2, <5>3 DEF LogInv
      <4>3. CASE rpcs[t].step = "promote"
        <5>1. Electable /\ ~Promoted
          BY <3>3, <4>3 DEF Promoted, Electable
        <5> QED BY <2>1, <2>3, <3>1, <3>3, <5>1 DEF LogInv
      <4>4. CASE rpcs[t].step \in {"type", "refresh"}
        <5>1. Promoted /\ db'[t] = db[t] /\ ~db[t].ro
          BY <1>2, <2>1, <3>3, <4>1, <4>4 DEF Promoted, MasterInv, PromoteGoes
        <5>2. rpcs'[t].step \notin {"wait", "promote"}
          BY <1>2, <1>6, <4>1, <4>4 DEF PromoteGoes
        <5>3. Promoted'
          BY <3>3, <5>1, <5>2 DEF Promoted
        <5> QED BY <2>1, <3>1, <3>3, <5>1, <5>3 DEF LogInv, Electable
      <4> QED BY <1>1, <4>1, <4>2, <4>3, <4>4
    <3> QED BY <3>2, <3>3
  <2>11. LeftInv'
    <3>1. ASSUME Following, NEW u \in op.left
          PROVE  /\ rpcs'[u].step = "run" => rpcs'[u].arg.master = op.elect
                 /\ rpcs'[u].step \in {"row", "ok"} => db'[u].source = op.elect
      <4>1. u \in Tablets /\ rpcs[u].rpc = "setmaster"
        BY <1>3, <2>2, <3>1, HeardFacts DEF Following
      <4>2. CASE u # t
        BY <1>1, <2>1, <3>1, <4>1, <4>2 DEF LeftInv
      <4>3. CASE u = t
        BY <1>2, <1>6, <2>1, <3>1, <4>1, <4>3 DEF LeftInv, FollowGoes
      <4> QED BY <4>2, <4>3
    <3> QED BY <1>5, <3>1 DEF LeftInv
  <2>12. DoneFollowing' /\ SettledInv'
    <3>1. \A u \in Tablets : rpcs[u] = NoCall => rpcs'[u] = NoCall /\ db'[u] = db[u]
      BY <1>1, CallIsNone
    <3> QED BY <1>5, <2>1, <2>2, <2>3, <3>1 DEF DoneFollowing, SettledInv, Following
  <2> QED BY <2>6, <2>7, <2>8, <2>9, <2>10, <2>11, <2>12 DEF Undoubted
<1> QED BY <1>7, <1>8, <1>9, <1>10 DEF ReparentInv

(* A reparent that runs has all its parts.                                 *)
LEMMA OpRuns ==
  ASSUME ReparentData, op.step # "idle"
  PROVE  /\ op \in ReparentOp /\ op.old \in Tablets /\ op.elect \in Tablets /\ op.left \subseteq Tablets
         /\ op.map \subseteq Tablets /\ op.step \in OpSteps /\ op.err \in BOOLEAN
         /\ op.status \in [Tablets -> ReparentStatus]
<1>1. op \in ReparentOp
  BY SMT DEF ReparentData, NoOp
<1> QED BY <1>1, SMT DEF ReparentOp

LEMMA WithLog ==
  ASSUME NEW r \in TabletDb, NEW log \in Seq(Nat), NEW new, new = [r EXCEPT !.log = log]
  PROVE  /\ new \in TabletDb /\ new.log = log /\ new.ro = r.ro
         /\ new.source = r.source /\ new.running = r.running
<1> DEFINE N == Seq(Nat)
<1>1. /\ r \in [log : N, ro : BOOLEAN, source : Tablets \cup {Nobody}, running : BOOLEAN]
      /\ log \in N
  BY DEF TabletDb
<1> HIDE DEF N
<1>2. /\ new \in [log : N, ro : BOOLEAN, source : Tablets \cup {Nobody}, running : BOOLEAN]
      /\ new.log = log /\ new.ro = r.ro /\ new.source = r.source /\ new.running = r.running
  BY <1>1, SMT
<1> QED BY <1>2 DEF TabletDb, N

(* A log grows by a transaction.                                           *)
LEMMA LogGrows ==
  ASSUME db \in [Tablets -> TabletDb], NEW t \in Tablets, NEW k \in Nat,
         db' = [db EXCEPT ![t].log = Append(@, k)]
  PROVE  /\ db' \in [Tablets -> TabletDb]
         /\ \A u \in Tablets : /\ db'[u].ro = db[u].ro /\ db'[u].source = db[u].source
                               /\ db'[u].running = db[u].running
                               /\ u # t => GtidSet(u)' = GtidSet(u)
         /\ GtidSet(t)' = GtidSet(t) \cup {k}
<1> DEFINE new == [db[t] EXCEPT !.log = Append(@, k)]
<1>1. db' = [db EXCEPT ![t] = new]
  OBVIOUS
<1>2. db[t] \in TabletDb /\ db[t].log \in Seq(Nat)
  BY DEF TabletDb
<1>3. /\ new \in TabletDb /\ new.log = Append(db[t].log, k) /\ new.ro = db[t].ro
      /\ new.source = db[t].source /\ new.running = db[t].running
  <2> DEFINE log == Append(db[t].log, k)
  <2>1. log \in Seq(Nat)
    BY <1>2, SMT
  <2>2. new = [db[t] EXCEPT !.log = log]
    OBVIOUS
  <2> HIDE DEF log, new
  <2>3. /\ new \in TabletDb /\ new.log = log /\ new.ro = db[t].ro
        /\ new.source = db[t].source /\ new.running = db[t].running
    BY <1>2, <2>1, <2>2, WithLog, SMT
  <2> QED BY <2>3 DEF log
<1> HIDE DEF new
<1>4. db'[t] = new /\ \A u \in Tablets : u # t => db'[u] = db[u]
  BY <1>1
<1>5. db' \in [Tablets -> TabletDb]
  BY <1>1, <1>3
<1>6. \A u \in Tablets : u # t => GtidSet(u)' = GtidSet(u)
  BY <1>4 DEF GtidSet
<1>7. GtidSet(t)' = GtidSet(t) \cup {k}
  <2>1. db'[t].log = Append(db[t].log, k)
    BY <1>3, <1>4
  <2> DEFINE old == db[t].log
             log == db'[t].log
  <2>2. /\ DOMAIN old = 1..Len(old) /\ DOMAIN log = 1..(Len(old) + 1) /\ Len(old) \in Nat
        /\ log[Len(old) + 1] = k /\ \A i \in 1..Len(old) : log[i] = old[i]
    BY <1>2, <2>1, SMT
  <2>3. GtidSet(t)' = {log[i] : i \in DOMAIN log} /\ GtidSet(t) = {old[i] : i \in DOMAIN old}
    BY DEF GtidSet
  <2> HIDE DEF old, log
  <2> QED BY <2>2, <2>3, SMT
<1> QED BY <1>3, <1>4, <1>5, <1>6, <1>7

(* What lets the log of a tablet grow: the leader has the transaction or   *)
(* is the one that takes it, and the position of a demoted master is kept. *)
Growable(t, k) ==
  /\ ~Promoted => t = shardMaster \/ k \in forgone \cup GtidSet(shardMaster)
  /\ Electable => t = op.elect \/ k \in forgone \cup GtidSet(op.elect)
  /\ op.step = "promote" \/ (op.step = "demote" /\ rpcs[op.old].step = "ok") => t # op.old

LEMMA GrowthKeeps ==
  ASSUME ReparentInv, NEW t \in Tablets, NEW k \in Nat, db' = [db EXCEPT ![t].log = Append(@, k)],
         op' = op \/ (op.step = "slaves" /\ op' = [op EXCEPT !.step = "record"]),
         UNCHANGED <<tablets, shardMaster, rpcs, dead, reparents, doubt, forgone, settled>>,
         written' \in Nat, 1..written' \subseteq (1..written) \cup {k},
         ~doubt => Growable(t, k)
  PROVE  ReparentInv'
<1>1. ReparentData /\ CallInv /\ WriteInv
  BY DEF ReparentInv
<1>2. db \in [Tablets -> TabletDb]
  BY <1>1 DEF ReparentData
<1>3. /\ db' \in [Tablets -> TabletDb]
      /\ \A u \in Tablets : /\ db'[u].ro = db[u].ro /\ db'[u].source = db[u].source
                            /\ db'[u].running = db[u].running
                            /\ u # t => GtidSet(u)' = GtidSet(u)
      /\ GtidSet(t)' = GtidSet(t) \cup {k}
  BY <1>2, LogGrows
<1>4. \A u \in Tablets : GtidSet(u) \subseteq GtidSet(u)'
  BY <1>3
<1>5. /\ op' = NoOp \/ op' \in ReparentOp
      /\ op'.step = op.step \/ (op.step = "slaves" /\ op'.step = "record")
      /\ op'.old = op.old /\ op'.elect = op.elect /\ op'.map = op.map /\ op'.left = op.left
      /\ op'.status = op.status /\ op'.err = op.err
  <2>1. CASE op' = op
    BY <1>1, <2>1 DEF ReparentData
  <2>2. CASE op.step = "slaves" /\ op' = [op EXCEPT !.step = "record"]
    <3>1. op \in ReparentOp
      BY <1>1, <2>2, OpRuns
    <3> QED BY <2>2, <3>1, SMT DEF ReparentOp, OpSteps
  <2> QED BY <2>1, <2>2
<1>6. (Leading' <=> Leading) /\ (Following' <=> Following) /\ WaitsFor' = WaitsFor
  BY <1>5 DEF Leading, Following, WaitsFor
<1>7. ReparentData'
  BY <1>1, <1>3, <1>5 DEF ReparentData
<1>8. CallInv'
  <2> SUFFICES ASSUME NEW u \in Tablets PROVE RpcInv(u)' /\ WaitInv(u)' /\ StatusInv(u)'
    BY DEF CallInv
  <2>1. RpcInv(u) /\ WaitInv(u) /\ StatusInv(u)
    BY <1>1 DEF CallInv
  <2>2. RpcInv(u)'
    BY <1>4, <2>1 DEF RpcInv
  <2>3. WaitInv(u)'
    BY <1>5, <1>6, <2>1 DEF WaitInv, Following
  <2>4. StatusInv(u)'
    BY <1>4, <1>5, <2>1 DEF StatusInv
  <2> QED BY <2>2, <2>3, <2>4
<1>9. WriteInv'
  <2> SUFFICES ASSUME NEW n \in 1..written' PROVE \E u \in Tablets : n \in GtidSet(u)'
    BY DEF WriteInv
  <2>1. CASE n = k
    BY <1>3, <2>1
  <2>2. CASE n \in 1..written
    <3>1. PICK u \in Tablets : n \in GtidSet(u)
      BY <1>1, <2>2 DEF WriteInv
    <3> QED BY <1>4, <3>1
  <2> QED BY <2>1, <2>2
<1>10. ASSUME ~doubt PROVE Undoubted'
  <2>1. /\ OpInv /\ (\A u \in Tablets : WriterInv(u)) /\ MasterInv /\ PosInv /\ LogInv
        /\ LeftInv /\ DoneFollowing /\ SettledInv
    BY <1>10 DEF ReparentInv, Undoubted
  <2>2. op.step # "idle" => op.old \in Tablets /\ op.elect \in Tablets /\ op.left \subseteq Tablets
                            /\ op.map \subseteq Tablets
    BY <1>1, OpRuns
  <2>3. shardMaster \in Tablets /\ tablets \subseteq Tablets
    BY <1>1 DEF ReparentData
  <2>4. OpInv'
    BY <1>5, <2>1 DEF OpInv
  <2>5. \A u \in Tablets : WriterInv(u)'
    BY <1>3, <1>5, <1>6, <2>1 DEF WriterInv
  <2>6. MasterInv'
    BY <1>3, <1>5, <1>6, <2>1, <2>2, <2>3, SMT DEF MasterInv, Leading, Following
  <2>7. PosInv'
    <3>1. op.step = "promote" \/ (op.step = "demote" /\ rpcs[op.old].step = "ok") =>
             GtidSet(op.old)' = GtidSet(op.old)
      BY <1>3, <1>10, <2>2 DEF Growable
    <3> QED BY <1>3, <1>5, <2>1, <2>2, <3>1, SMT DEF PosInv
  <2>8. LogInv'
    <3>1. (Promoted' <=> Promoted) /\ (Electable' <=> Electable)
      BY <1>3, <1>5, <2>2, SMT DEF Promoted, Electable
    <3>2. ASSUME NEW u \in Tablets, HasMost(u), t = u \/ k \in forgone \cup GtidSet(u)
          PROVE  HasMost(u)'
      BY <1>3, <3>2 DEF HasMost
    <3>3. Electable => op.elect \in Tablets
      BY <2>2 DEF Electable, Promoted
    <3>4. ~Promoted' => HasMost(shardMaster)'
      BY <1>10, <2>1, <2>3, <3>1, <3>2 DEF LogInv, Growable
    <3>5. Electable' => HasMost(op.elect)'
      BY <1>5, <1>10, <2>1, <3>1, <3>2, <3>3 DEF LogInv, Growable, HasMost
    <3> QED BY <1>5, <3>4, <3>5 DEF LogInv
  <2>9. LeftInv' /\ DoneFollowing' /\ SettledInv'
    BY <1>3, <1>5, <1>6, <2>1, <2>2, <2>3 DEF LeftInv, DoneFollowing, SettledInv, Following
  <2> QED BY <2>4, <2>5, <2>6, <2>7, <2>8, <2>9 DEF Undoubted
<1> QED BY <1>7, <1>8, <1>9, <1>10 DEF ReparentInv

(* The writable master has it all: it is the leader.                       *)
LEMMA CommitWriteKeeps ==
  ASSUME ReparentInv, NEW t \in Tablets, CommitWrite(t)
  PROVE  ReparentInv'
<1>1. /\ t \notin dead /\ ~db[t].ro /\ written' = written + 1 /\ op' = op
      /\ db' = [db EXCEPT ![t].log = Append(@, written + 1)]
      /\ UNCHANGED <<tablets, shardMaster, rpcs, dead, reparents, doubt, forgone, settled>>
  BY DEF CommitWrite, WritableMasters
<1>2. written \in Nat /\ written' \in Nat /\ 1..written' \subseteq (1..written) \cup {written + 1}
  <2>1. written \in Nat
    BY DEF ReparentInv, ReparentData
  <2> QED BY <1>1, <2>1, SMT
<1>3. ASSUME ~doubt PROVE Growable(t, written + 1)
  <2>1. OpInv /\ WriterInv(t) /\ MasterInv /\ PosInv
    BY <1>3 DEF ReparentInv, Undoubted
  <2>2. t = shardMaster \/ (Leading /\ t = op.elect)
    BY <1>1, <2>1 DEF WriterInv
  <2>3. Leading => t # op.old /\ op.old = shardMaster
    BY <1>1, <2>1 DEF MasterInv, OpInv, Leading
  <2>4. ~Promoted => t = shardMaster
    BY <1>1, <2>1, <2>2 DEF Promoted, Leading, MasterInv
  <2>5. Electable => t = op.elect
    BY <2>2, <2>3 DEF Electable, Promoted, Leading
  <2>6. op.step = "promote" \/ (op.step = "demote" /\ rpcs[op.old].step = "ok") => t # op.old
    BY <1>1, <2>1, <2>3 DEF PosInv, Leading
  <2> QED BY <2>4, <2>5, <2>6 DEF Growable
<1> HIDE DEF CommitWrite
<1>4. written + 1 \in Nat
  BY <1>2, SMT
<1> QED BY <1>1, <1>2, <1>3, <1>4, GrowthKeeps

(* A replica takes what another tablet has, and the leader has that.       *)
LEMMA ReplicateKeeps ==
  ASSUME ReparentInv, NEW t \in Tablets, Replicate(t)
  PROVE  ReparentInv'
<1>1. db[t].running /\ UNCHANGED <<tablets, shardMaster, rpcs, op, dead, reparentHistory>>
  BY DEF Replicate
<1>2. db[t].source \in Tablets /\ db \in [Tablets -> TabletDb] /\ written \in Nat
  BY <1>1 DEF ReparentInv, ReparentData
<1>3. PICK k : k \in GtidSet(db[t].source) /\ db' = [db EXCEPT ![t].log = Append(@, k)]
  BY DEF Replicate, GtidSet
<1>4. k \in Nat
  BY <1>2, <1>3, GtidsAreNumbers
<1>5. ASSUME ~doubt PROVE Growable(t, k)
  <2>1. OpInv /\ MasterInv /\ LogInv
    BY <1>5 DEF ReparentInv, Undoubted
  <2>2. ~Promoted => k \in forgone \cup GtidSet(shardMaster)
    BY <1>2, <1>3, <2>1 DEF LogInv, HasMost
  <2>3. Electable => k \in forgone \cup GtidSet(op.elect)
    BY <1>2, <1>3, <2>1 DEF LogInv, HasMost
  <2>4. op.step \in {"promote", "demote"} => t # op.old
    BY <1>1, <2>1 DEF OpInv, MasterInv
  <2> QED BY <2>2, <2>3, <2>4 DEF Growable
<1>6. written' \in Nat /\ 1..written' \subseteq (1..written) \cup {k}
  BY <1>1, <1>2 DEF reparentHistory
<1>7. op' = op /\ UNCHANGED <<tablets, shardMaster, rpcs, dead, reparents, doubt, forgone, settled>>
  BY <1>1 DEF reparentHistory
<1> QED BY <1>3, <1>4, <1>5, <1>6, <1>7, GrowthKeeps

LEMMA JournalKeeps ==
  ASSUME ReparentInv, Journal
  PROVE  ReparentInv'
<1>1. /\ op.step = "slaves" /\ op' = [op EXCEPT !.step = "record"]
      /\ db' = [db EXCEPT ![op.elect].log = Append(@, Row(reparents))]
      /\ UNCHANGED <<tablets, shardMaster, rpcs, dead, reparentHistory>>
  BY DEF Journal
<1>2. ReparentData
  BY DEF ReparentInv
<1>3. op.elect \in Tablets
  BY <1>1, <1>2, OpRuns
<1>4. Row(reparents) \in Nat
  BY <1>2, ReparentAssumption, SMT DEF ReparentData, Row
<1>5. written' \in Nat /\ 1..written' \subseteq (1..written) \cup {Row(reparents)}
  BY <1>1, <1>2 DEF reparentHistory, ReparentData
<1>6. Growable(op.elect, Row(reparents))
  BY <1>1 DEF Growable, Promoted
<1>7. UNCHANGED <<tablets, shardMaster, rpcs, dead, reparents, doubt, forgone, settled>>
  BY <1>1 DEF reparentHistory
<1> QED BY <1>1, <1>3, <1>4, <1>5, <1>6, <1>7, GrowthKeeps

(* A tablet that crashes does nothing any more.                            *)
LEMMA CrashKeeps ==
  ASSUME ReparentInv, NEW t \in Tablets, Crash(t)
  PROVE  ReparentInv'
<1>1. /\ dead' = dead \cup {t} /\ UNCHANGED <<db, tablets, shardMaster, rpcs, op>>
      /\ UNCHANGED <<written, reparents, doubt, forgone, settled>>
  BY DEF Crash, reparentHistory
<1>2. \A u \in Tablets : GtidSet(u)' = GtidSet(u)
  BY <1>1 DEF GtidSet
<1>3. ReparentData'
  BY <1>1 DEF ReparentInv, ReparentData
<1>4. CallInv'
  BY <1>1, SMT DEF ReparentInv, CallInv, RpcInv, WaitInv, WaitsFor, Following, StatusInv, GtidSet
<1>5. WriteInv'
  BY <1>1, SMT DEF ReparentInv, WriteInv, GtidSet
<1>6. ASSUME ~doubt PROVE Undoubted'
  <2>1. /\ OpInv /\ (\A u \in Tablets : WriterInv(u)) /\ MasterInv /\ PosInv /\ LogInv
        /\ LeftInv /\ DoneFollowing /\ SettledInv
    BY <1>6 DEF ReparentInv, Undoubted
  <2>2. OpInv' /\ \A u \in Tablets : WriterInv(u)'
    BY <1>1, <2>1 DEF OpInv, WriterInv, Leading
  <2>3. MasterInv'
    BY <1>1, <2>1 DEF MasterInv, Leading, Following
  <2>4. PosInv' /\ LogInv'
    BY <1>1, <2>1, SMT DEF PosInv, LogInv, HasMost, Promoted, Electable, GtidSet
  <2>5. LeftInv' /\ DoneFollowing' /\ SettledInv'
    BY <1>1, <2>1 DEF LeftInv, DoneFollowing, SettledInv, Following
  <2> QED BY <2>2, <2>3, <2>4, <2>5 DEF Undoubted
<1> QED BY <1>1, <1>3, <1>4, <1>5, <1>6 DEF ReparentInv

(* The logs are left alone.                                                *)
LEMMA StillWritten ==
  ASSUME WriteInv, UNCHANGED <<db, written>>
  PROVE  WriteInv' /\ \A u \in Tablets : GtidSet(u)' = GtidSet(u) /\ db'[u] = db[u]
BY SMT DEF WriteInv, GtidSet

(* The invariant does not speak of the agent.                              *)
LEMMA SameKeeps ==
  ASSUME ReparentInv, UNCHANGED <<db, tablets, shardMaster, rpcs, op, dead, reparentHistory>>
  PROVE  ReparentInv'
<1>1. ReparentData' /\ CallInv' /\ WriteInv'
  <2>1. ReparentData'
    BY DEF reparentHistory, ReparentInv, ReparentData
  <2>2. WriteInv' /\ \A u \in Tablets : GtidSet(u)' = GtidSet(u) /\ db'[u] = db[u]
    BY StillWritten DEF reparentHistory, ReparentInv
  <2>3. WaitsFor' = WaitsFor /\ Following' = Following
    BY DEF WaitsFor, Following
  <2>4. ASSUME NEW u \in Tablets PROVE RpcInv(u)' /\ WaitInv(u)' /\ StatusInv(u)'
    BY <2>2, <2>3 DEF ReparentInv, CallInv, RpcInv, WaitInv, StatusInv
  <2> QED BY <2>1, <2>2, <2>4 DEF CallInv
<1>2. ASSUME ~doubt PROVE Undoubted'
  <2>1. OpInv' /\ (\A u \in Tablets : WriterInv(u)') /\ MasterInv'
    BY <1>2 DEF reparentHistory, ReparentInv, Undoubted, OpInv, WriterInv, MasterInv, Leading, Following
  <2>2. PosInv' /\ LogInv'
    BY <1>2, SMT DEF reparentHistory, ReparentInv, Undoubted, PosInv, LogInv, HasMost, Promoted, Electable, GtidSet
  <2>3. LeftInv' /\ DoneFollowing' /\ SettledInv'
    BY <1>2 DEF reparentHistory, ReparentInv, Undoubted, LeftInv, DoneFollowing, SettledInv, Following
  <2> QED BY <2>1, <2>2, <2>3 DEF Undoubted
<1>3. doubt' = doubt
  BY DEF reparentHistory
<1> QED BY <1>1, <1>2, <1>3 DEF ReparentInv

(* The wrangler gives calls up.                                            *)
Drops ==
  /\ rpcs' \in [Tablets -> TabletRpc]
  /\ \A u \in Tablets :
       \/ rpcs'[u] = rpcs[u] \/ rpcs'[u] = NoCall
       \/ /\ ~rpcs'[u].heard /\ rpcs'[u].rpc = rpcs[u].rpc /\ rpcs'[u].step = rpcs[u].step
          /\ rpcs'[u].arg = rpcs[u].arg /\ rpcs[u].step \notin {"ok", "err"}

LEMMA RpcTypes == NoCall \in TabletRpc /\ {} \in RpcArgs
BY DEF NoCall, TabletRpc, RpcNames, RpcSteps, RpcArgs

LEMMA RpcIsNone ==
  ASSUME NEW c \in TabletRpc, c.rpc = "none", c.step = "none", ~c.heard, c.arg = {}
  PROVE  c = NoCall
<1>1. /\ c = [rpc |-> c.rpc, step |-> c.step, heard |-> c.heard, arg |-> c.arg]
      /\ c.heard \in BOOLEAN
  BY SMT DEF TabletRpc
<1>2. c.heard = FALSE
  BY <1>1
<1> QED BY <1>1, <1>2 DEF NoCall

LEMMA Unheard ==
  ASSUME NEW c \in TabletRpc, NEW d, d = [c EXCEPT !.heard = FALSE]
  PROVE  d \in TabletRpc /\ ~d.heard /\ d.rpc = c.rpc /\ d.step = c.step /\ d.arg = c.arg
BY DEF TabletRpc

LEMMA DroppedFacts ==
  ASSUME rpcs \in [Tablets -> TabletRpc], NEW t \in Tablets
  PROVE  /\ Dropped(rpcs, t) \in [Tablets -> TabletRpc]
         /\ \A u \in Tablets : u # t => Dropped(rpcs, t)[u] = rpcs[u]
         /\ ~Dropped(rpcs, t)[t].heard
         /\ rpcs[t].step \in {"ok", "err"} => Dropped(rpcs, t)[t] = NoCall
         /\ rpcs[t].step \notin {"ok", "err"} =>
              /\ Dropped(rpcs, t)[t].rpc = rpcs[t].rpc /\ Dropped(rpcs, t)[t].step = rpcs[t].step
              /\ Dropped(rpcs, t)[t].arg = rpcs[t].arg
<1> DEFINE c == IF rpcs[t].step \in {"ok", "err"} THEN NoCall ELSE [rpcs[t] EXCEPT !.heard = FALSE]
<1>1. Dropped(rpcs, t) = [rpcs EXCEPT ![t] = c]
  BY DEF Dropped
<1>2. rpcs[t] \in TabletRpc
  OBVIOUS
<1>3. /\ c \in TabletRpc /\ ~c.heard
      /\ rpcs[t].step \in {"ok", "err"} => c = NoCall
      /\ rpcs[t].step \notin {"ok", "err"} =>
           c.rpc = rpcs[t].rpc /\ c.step = rpcs[t].step /\ c.arg = rpcs[t].arg
  <2>1. CASE rpcs[t].step \in {"ok", "err"}
    BY <2>1, RpcTypes, CallIsNone
  <2>2. CASE rpcs[t].step \notin {"ok", "err"}
    BY <1>2, <2>2, Unheard
  <2> QED BY <2>1, <2>2
<1> HIDE DEF c
<1>4. [rpcs EXCEPT ![t] = c][t] = c /\ \A u \in Tablets : u # t => [rpcs EXCEPT ![t] = c][u] = rpcs[u]
  OBVIOUS
<1>5. [rpcs EXCEPT ![t] = c] \in [Tablets -> TabletRpc]
  BY <1>3
<1> QED BY <1>1, <1>3, <1>4, <1>5

LEMMA DropDrops ==
  ASSUME rpcs \in [Tablets -> TabletRpc], NEW t \in Tablets, rpcs' = Dropped(rpcs, t)
  PROVE  /\ Drops /\ ~rpcs'[t].heard /\ \A u \in Tablets : u # t => rpcs'[u] = rpcs[u]
         /\ rpcs[t].step \in {"ok", "err"} => rpcs'[t] = NoCall
BY DroppedFacts, SMT DEF Drops

(* What was given up keeps its shape.                                      *)
LEMMA DropsFacts ==
  ASSUME CallInv, Drops, UNCHANGED db
  PROVE  /\ \A u \in Tablets : RpcInv(u)'
         /\ \A u \in Tablets : /\ rpcs'[u].rpc \in {rpcs[u].rpc, "none"}
                               /\ rpcs[u] = NoCall => rpcs'[u].rpc = "none"
                               /\ rpcs'[u].step \in {rpcs[u].step, "none"}
<1> SUFFICES ASSUME NEW u \in Tablets
             PROVE  /\ RpcInv(u)' /\ rpcs'[u].rpc \in {rpcs[u].rpc, "none"}
                    /\ rpcs[u] = NoCall => rpcs'[u].rpc = "none"
                    /\ rpcs'[u].step \in {rpcs[u].step, "none"}
  OBVIOUS
<1>1. GtidSet(u)' = GtidSet(u)
  BY DEF GtidSet
<1>2. RpcInv(u)
  BY DEF CallInv
<1>3. CASE rpcs'[u] = rpcs[u]
  BY <1>1, <1>2, <1>3, CallIsNone DEF RpcInv
<1>4. CASE rpcs'[u] = NoCall
  BY <1>4, CallIsNone DEF RpcInv, RpcShape
<1>5. CASE /\ ~rpcs'[u].heard /\ rpcs'[u].rpc = rpcs[u].rpc /\ rpcs'[u].step = rpcs[u].step
           /\ rpcs'[u].arg = rpcs[u].arg /\ rpcs[u].step \notin {"ok", "err"}
  <2>1. RpcShape(rpcs'[u])
    <3>1. CASE rpcs[u] = NoCall
      <4>1. rpcs[u].arg = {} /\ rpcs'[u] \in TabletRpc
        BY <3>1, SMT DEF NoCall, Drops
      <4>2. rpcs'[u] = NoCall
        BY <1>5, <3>1, <4>1, CallIsNone, RpcIsNone
      <4> QED BY <4>2 DEF RpcShape
    <3>2. CASE rpcs[u] # NoCall
      BY <1>2, <1>5, <3>2 DEF RpcInv, RpcShape
    <3> QED BY <3>1, <3>2
  <2> QED BY <1>1, <1>2, <1>5, <2>1, CallIsNone DEF RpcInv
<1> QED BY <1>3, <1>4, <1>5 DEF Drops

(* No promotion is on its way, and the master of the record leads.         *)
Calm ==
  /\ \A u \in Tablets \ dead : /\ ~db[u].ro => u = shardMaster
                               /\ rpcs[u].rpc \in {"demote", "undo"} => u = shardMaster
  /\ \A u \in Tablets : rpcs[u].rpc = "promote" => rpcs[u].step \notin {"promote", "type", "refresh"}
  /\ rpcs[shardMaster].rpc \in {"none", "demote", "undo"} /\ ~db[shardMaster].running
  /\ HasMost(shardMaster)

LEMMA CalmWhen ==
  ASSUME CallInv, Undoubted, ~Leading
  PROVE  Calm
<1>1. \A u \in Tablets : rpcs[u].rpc = "promote" => rpcs[u].step \notin {"promote", "type", "refresh"}
  <2>1. \A u \in Tablets : rpcs[u].heard /\ rpcs[u].rpc = "promote" => op.step = "promote"
    BY HeardFacts
  <2> QED BY <2>1 DEF Undoubted, WriterInv, Leading
<1>2. HasMost(shardMaster)
  BY DEF Undoubted, LogInv, Promoted, Leading
<1> QED BY <1>1, <1>2 DEF Calm, Undoubted, WriterInv, MasterInv, Leading

LEMMA CalmAfter ==
  ASSUME CallInv, Undoubted, ReparentData, op.step = "promote", Harmless(rpcs[op.elect])
  PROVE  Calm
<1>1. op.elect \in Tablets /\ rpcs[op.elect].step \in {"wait", "err"}
  BY OpRuns DEF Harmless
<1>2. \A u \in Tablets : rpcs[u].rpc = "promote" => rpcs[u].step \notin {"promote", "type", "refresh"}
  <2>1. \A u \in Tablets : rpcs[u].heard /\ rpcs[u].rpc = "promote" => u = op.elect
    BY HeardFacts
  <2> QED BY <1>1, <2>1 DEF Undoubted, WriterInv
<1>3. HasMost(shardMaster)
  BY DEF Undoubted, LogInv, Promoted, Harmless
<1>4. op.elect \notin dead => db[op.elect].ro
  BY DEF Undoubted, MasterInv, Harmless
<1> QED BY <1>2, <1>3, <1>4 DEF Calm, Undoubted, WriterInv, MasterInv, Leading

(* A reparent ends.                                                        *)
LEMMA IdleKeeps ==
  ASSUME ReparentInv, op' = NoOp, UNCHANGED <<db, dead, tablets, shardMaster, written, reparents, forgone>>,
         doubt' \in BOOLEAN, settled' \in BOOLEAN, Drops, \A u \in Tablets : ~rpcs'[u].heard,
         ~doubt' => Calm /\ SettledInv'
  PROVE  ReparentInv'
<1>1. ReparentData /\ CallInv /\ WriteInv
  BY DEF ReparentInv
<1>2. op'.step = "idle" /\ ~Leading' /\ ~Following' /\ WaitsFor' = {} /\ ~Promoted' /\ ~Electable'
  BY SMT DEF NoOp, Leading, Following, WaitsFor, Promoted, Electable
<1>3. \A u \in Tablets : GtidSet(u)' = GtidSet(u)
  BY DEF GtidSet
<1>4. ReparentData'
  BY <1>1 DEF ReparentData, Drops
<1>5. CallInv'
  BY <1>1, <1>2, DropsFacts DEF CallInv, WaitInv, StatusInv
<1>6. WriteInv'
  BY <1>1, <1>3, SMT DEF WriteInv
<1>7. ASSUME ~doubt' PROVE Undoubted'
  <2>1. Calm
    BY <1>7
  <2>2. /\ \A u \in Tablets : /\ rpcs'[u].rpc \in {rpcs[u].rpc, "none"}
                              /\ rpcs'[u].step \in {rpcs[u].step, "none"}
        /\ shardMaster \in Tablets
    BY <1>1, DropsFacts DEF ReparentData
  <2>3. OpInv' /\ PosInv' /\ LeftInv' /\ DoneFollowing'
    BY <1>2 DEF OpInv, PosInv, LeftInv, DoneFollowing
  <2>4. \A u \in Tablets : WriterInv(u)'
    BY <1>2, <2>1, <2>2 DEF WriterInv, Calm
  <2>5. MasterInv'
    BY <1>2, <2>1, <2>2 DEF MasterInv, Calm
  <2>6. LogInv'
    <3>1. HasMost(shardMaster)'
      BY <1>3, <2>1, <2>2 DEF Calm, HasMost
    <3> QED BY <1>2, <3>1 DEF LogInv
  <2> QED BY <1>7, <2>3, <2>4, <2>5, <2>6 DEF Undoubted
<1> QED BY <1>4, <1>5, <1>6, <1>7 DEF ReparentInv

LEMMA DemoteFailsKeeps ==
  ASSUME ReparentInv, WranglerStep("demote") \/ WranglerStep("undo"), rpcs' = Dropped(rpcs, op.old),
         Return(FALSE), UNCHANGED <<tablets, shardMaster, reparents, doubt, forgone>>
  PROVE  ReparentInv'
<1>1. /\ op.step \in {"demote", "undo"} /\ op' = NoOp /\ settled' = FALSE
      /\ UNCHANGED <<db, dead, written>>
  BY DEF WranglerStep, Return
<1>2. ReparentData /\ CallInv
  BY DEF ReparentInv
<1>3. op.old \in Tablets /\ rpcs \in [Tablets -> TabletRpc] /\ doubt \in BOOLEAN
  BY <1>1, <1>2, OpRuns DEF ReparentData
<1>4. Drops /\ ~rpcs'[op.old].heard /\ \A u \in Tablets : u # op.old => rpcs'[u] = rpcs[u]
  BY <1>3, DropDrops
<1>5. \A u \in Tablets : ~rpcs'[u].heard
  BY <1>1, <1>2, <1>4 DEF CallInv, WaitInv, WaitsFor
<1>6. ~doubt' => Calm /\ SettledInv'
  BY <1>1, <1>2, CalmWhen DEF ReparentInv, SettledInv, Leading
<1> QED BY <1>1, <1>3, <1>4, <1>5, <1>6, IdleKeeps

LEMMA ElectFailsKeeps ==
  ASSUME ReparentInv, WranglerStep("stop"), op.left = {}, Return(FALSE),
         UNCHANGED <<tablets, shardMaster, reparents, rpcs, doubt, forgone>>
  PROVE  ReparentInv'
<1>1. op.step = "stop" /\ op' = NoOp /\ settled' = FALSE /\ UNCHANGED <<db, dead, written>>
  BY DEF WranglerStep, Return
<1>2. ReparentData /\ CallInv
  BY DEF ReparentInv
<1>3. Drops /\ doubt \in BOOLEAN
  BY <1>2 DEF ReparentData, Drops
<1>4. \A u \in Tablets : ~rpcs'[u].heard
  BY <1>1, <1>2 DEF CallInv, WaitInv, WaitsFor
<1>5. ~doubt' => Calm /\ SettledInv'
  BY <1>1, <1>2, CalmWhen DEF ReparentInv, SettledInv, Leading
<1> QED BY <1>1, <1>3, <1>4, <1>5, IdleKeeps

(* The promotion in an emergency fails, or the lock is lost after one.     *)
LEMMA PromoteEndsKeeps ==
  ASSUME ReparentInv, WranglerStep("promote"), rpcs' = Dropped(rpcs, op.elect), Return(FALSE),
         doubt' \in BOOLEAN, ~doubt' => ~doubt /\ Harmless(rpcs[op.elect]),
         UNCHANGED <<tablets, shardMaster, reparents, forgone>>
  PROVE  ReparentInv'
<1>1. op.step = "promote" /\ op' = NoOp /\ settled' = FALSE /\ UNCHANGED <<db, dead, written>>
  BY DEF WranglerStep, Return
<1>2. ReparentData /\ CallInv
  BY DEF ReparentInv
<1>3. op.elect \in Tablets /\ rpcs \in [Tablets -> TabletRpc]
  BY <1>1, <1>2, OpRuns DEF ReparentData
<1>4. Drops /\ ~rpcs'[op.elect].heard /\ \A u \in Tablets : u # op.elect => rpcs'[u] = rpcs[u]
  BY <1>3, DropDrops
<1>5. \A u \in Tablets : ~rpcs'[u].heard
  BY <1>1, <1>2, <1>4 DEF CallInv, WaitInv, WaitsFor
<1>6. ~doubt' => Calm /\ SettledInv'
  BY <1>1, <1>2, CalmAfter DEF ReparentInv, SettledInv
<1> QED BY <1>1, <1>4, <1>5, <1>6, IdleKeeps

LEMMA JournalFailsKeeps ==
  ASSUME ReparentInv, JournalFails
  PROVE  ReparentInv'
<1>1. /\ op.step \in {"slaves", "record"} /\ op' = NoOp /\ settled' = FALSE /\ doubt' = TRUE
      /\ rpcs' = [t \in Tablets |-> IF t \in op.left THEN Dropped(rpcs, t)[t] ELSE rpcs[t]]
      /\ UNCHANGED <<db, dead, tablets, shardMaster, written, reparents, forgone>>
  BY DEF JournalFails, Return
<1>2. ReparentData /\ CallInv
  BY DEF ReparentInv
<1>3. rpcs \in [Tablets -> TabletRpc]
  BY <1>2 DEF ReparentData
<1>4. ASSUME NEW u \in Tablets
      PROVE  /\ rpcs'[u] \in TabletRpc /\ ~rpcs'[u].heard
             /\ \/ rpcs'[u] = rpcs[u] \/ rpcs'[u] = NoCall
                \/ /\ ~rpcs'[u].heard /\ rpcs'[u].rpc = rpcs[u].rpc /\ rpcs'[u].step = rpcs[u].step
                   /\ rpcs'[u].arg = rpcs[u].arg /\ rpcs[u].step \notin {"ok", "err"}
  <2>1. CASE u \in op.left
    <3>1. rpcs'[u] = Dropped(rpcs, u)[u]
      BY <1>1, <2>1
    <3> QED BY <1>3, <3>1, DroppedFacts
  <2>2. CASE u \notin op.left
    <3>1. rpcs'[u] = rpcs[u]
      BY <1>1, <2>2
    <3>2. ~rpcs[u].heard
      BY <1>1, <1>2, <2>2 DEF CallInv, WaitInv, WaitsFor
    <3> QED BY <1>3, <3>1, <3>2
  <2> QED BY <2>1, <2>2
<1>5. Drops /\ \A u \in Tablets : ~rpcs'[u].heard
  <2>1. rpcs' \in [Tablets -> TabletRpc]
    BY <1>1, <1>4
  <2> QED BY <1>4, <2>1 DEF Drops
<1> QED BY <1>1, <1>5, IdleKeeps

(* A reparent without an error leaves the others following the new master. *)
LEMMA ReparentedKeeps ==
  ASSUME ReparentInv, Reparented
  PROVE  ReparentInv'
<1>1. /\ op.step = "rest" /\ op.left = {} /\ op' = NoOp /\ settled' = ~op.err
      /\ UNCHANGED <<db, dead, written, tablets, shardMaster, rpcs, reparents, doubt, forgone>>
  BY DEF Reparented, WranglerStep, Return
<1>2. ReparentData /\ CallInv
  BY DEF ReparentInv
<1>3. Drops /\ doubt \in BOOLEAN /\ settled' \in BOOLEAN
  BY <1>1, <1>2 DEF ReparentData, Drops
<1>4. \A u \in Tablets : ~rpcs'[u].heard
  BY <1>1, <1>2 DEF CallInv, WaitInv, WaitsFor
<1>5. ASSUME ~doubt' PROVE Calm /\ SettledInv'
  <2>1. Undoubted /\ OpInv /\ MasterInv /\ DoneFollowing
    BY <1>1, <1>5 DEF ReparentInv, Undoubted
  <2>2. Calm
    BY <1>1, <1>2, <2>1, CalmWhen DEF Leading
  <2>3. op'.step = "idle"
    BY <1>1 DEF NoOp
  <2>4. op.elect = shardMaster /\ rpcs[shardMaster] = NoCall /\ ~db[shardMaster].ro
    BY <1>1, <2>1 DEF OpInv, MasterInv, Following
  <2>5. ASSUME ~op.err, NEW t \in tablets \ (dead \cup {shardMaster})
        PROVE  rpcs[t] = NoCall /\ db[t].source = shardMaster
    <3>1. t \in op.map
      BY <1>1, <2>1 DEF OpInv
    <3> QED BY <1>1, <2>1, <2>4, <2>5, <3>1 DEF DoneFollowing, Following
  <2>6. SettledInv'
    BY <1>1, <2>3, <2>4, <2>5 DEF SettledInv
  <2> QED BY <2>2, <2>6
<1> QED BY <1>1, <1>3, <1>4, <1>5, IdleKeeps

(* A call that is made.                                                    *)
LEMMA RpcMade ==
  ASSUME NEW rpc \in RpcNames, NEW step \in RpcSteps, NEW arg \in RpcArgs
  PROVE  LET c == Rpc(rpc, step, arg)
         IN  c \in TabletRpc /\ c.rpc = rpc /\ c.step = step /\ c.heard /\ c.arg = arg
BY DEF Rpc, TabletRpc

LEMMA DemoteCall ==
  ASSUME NEW rpc \in {"demote", "undo", "stop"}
  PROVE  LET c == Rpc(rpc, "run", {})
         IN  c \in TabletRpc /\ c.rpc = rpc /\ c.step = "run" /\ c.heard /\ RpcShape(c)
<1>1. rpc \in RpcNames /\ "run" \in RpcSteps /\ {} \in RpcArgs
  BY RpcTypes DEF RpcNames, RpcSteps
<1> QED BY <1>1, RpcMade, SMT DEF RpcShape

(* What a wrangler step that leaves MySQL alone keeps.                     *)
OpOf(kind, e, map, step, left) ==
  [step |-> step, kind |-> kind, old |-> shardMaster, elect |-> e, map |-> map,
   left |-> left, status |-> [t \in Tablets |-> NoStatus], err |-> FALSE]

LEMMA BeginFacts ==
  ASSUME shardMaster \in Tablets, NEW kind \in {"planned", "emergency"}, NEW e \in Tablets,
         NEW map \in SUBSET Tablets, NEW step \in OpSteps, NEW left \in SUBSET Tablets
  PROVE  LET o == OpOf(kind, e, map, step, left)
         IN  /\ o \in ReparentOp /\ o.step = step /\ o.old = shardMaster /\ o.elect = e /\ o.map = map
             /\ o.left = left /\ \A t \in Tablets : o.status[t].pos = {}
<1>1. NoStatus \in ReparentStatus /\ NoStatus.pos = {}
  BY DEF NoStatus, ReparentStatus
<1> QED BY <1>1 DEF OpOf, ReparentOp

LEMMA StartPlannedKeeps ==
  ASSUME ReparentInv, NEW e \in Tablets, StartPlanned(e)
  PROVE  ReparentInv'
<1>1. /\ op.step = "idle" /\ shardMaster \in tablets
      /\ op' = OpOf("planned", e, tablets, "demote", {}) /\ e \in tablets \ {shardMaster}
      /\ settled' = FALSE /\ reparents' = reparents + 1
      /\ rpcs' = [rpcs EXCEPT ![shardMaster] = Rpc("demote", "run", {})]
      /\ UNCHANGED <<db, dead, written, tablets, shardMaster, doubt, forgone>>
  BY DEF StartPlanned, WranglerStep, Begin, OpOf
<1>2. ReparentData /\ CallInv /\ WriteInv
  BY DEF ReparentInv
<1>3. /\ rpcs \in [Tablets -> TabletRpc] /\ shardMaster \in Tablets /\ tablets \subseteq Tablets
  BY <1>2 DEF ReparentData
<1>4. /\ op' \in ReparentOp /\ op'.step = "demote" /\ op'.old = shardMaster /\ op'.elect = e /\ op'.map = tablets
      /\ op'.left = {} /\ e \in tablets \ {shardMaster} /\ settled' = FALSE /\ reparents' \in Nat
  <2> DEFINE map == tablets
             none == {}
  <2>1. /\ "planned" \in {"planned", "emergency"} /\ "demote" \in OpSteps
        /\ none \in SUBSET Tablets /\ map \in SUBSET Tablets /\ e \in Tablets
        /\ op' = OpOf("planned", e, map, "demote", none)
    BY <1>1, <1>3 DEF OpSteps
  <2> HIDE DEF map, none
  <2>2. reparents' \in Nat
    BY <1>1, <1>2, SMT DEF ReparentData
  <2>3. /\ op' \in ReparentOp /\ op'.step = "demote" /\ op'.old = shardMaster /\ op'.elect = e
        /\ op'.map = map /\ op'.left = none
    BY <1>3, <2>1, BeginFacts, SMT
  <2> QED BY <1>1, <2>2, <2>3 DEF map, none
<1>5. /\ rpcs' \in [Tablets -> TabletRpc] /\ \A u \in Tablets : u # shardMaster => rpcs'[u] = rpcs[u]
      /\ rpcs'[shardMaster].rpc = "demote" /\ rpcs'[shardMaster].step = "run" /\ rpcs'[shardMaster].heard
      /\ RpcShape(rpcs'[shardMaster])
  BY <1>1, <1>3, DemoteCall
<1>6. WriteInv' /\ \A u \in Tablets : GtidSet(u)' = GtidSet(u) /\ db'[u] = db[u]
  BY <1>1, <1>2, StillWritten
<1>7. ReparentData'
  BY <1>1, <1>2, <1>4, <1>5 DEF ReparentData
<1>8. WaitsFor' = {shardMaster} /\ WaitsFor = {} /\ ~Leading' /\ ~Following' /\ ~Promoted' /\ ~Electable'
  BY <1>1, <1>4, SMT DEF WaitsFor, Leading, Following, Promoted, Electable
<1>9. CallInv'
  BY <1>2, <1>3, <1>4, <1>5, <1>6, <1>8 DEF CallInv, RpcInv, WaitInv, StatusInv
<1>10. ASSUME ~doubt PROVE Undoubted'
  <2>1. Undoubted /\ OpInv /\ (\A u \in Tablets : WriterInv(u)) /\ MasterInv
    BY <1>10 DEF ReparentInv, Undoubted
  <2>2. Calm
    BY <1>1, <1>2, <2>1, CalmWhen DEF Leading
  <2>3. OpInv'
    BY <1>1, <1>4 DEF OpInv
  <2>4. \A u \in Tablets : WriterInv(u)'
    BY <1>1, <1>3, <1>5, <1>8, <2>1, <2>2 DEF WriterInv, Calm
  <2>5. MasterInv' /\ PosInv'
    BY <1>1, <1>3, <1>4, <1>5, <1>8, <2>2 DEF MasterInv, PosInv, Calm
  <2>6. HasMost(shardMaster)'
    BY <1>1, <1>3, <1>6, <2>2 DEF Calm, HasMost
  <2>7. LogInv' /\ LeftInv' /\ DoneFollowing' /\ SettledInv'
    BY <1>4, <1>8, <2>6 DEF LogInv, LeftInv, DoneFollowing, SettledInv
  <2> QED BY <2>3, <2>4, <2>5, <2>7 DEF Undoubted
<1> QED BY <1>1, <1>6, <1>7, <1>9, <1>10 DEF ReparentInv

LEMMA StartEmergencyKeeps ==
  ASSUME ReparentInv, NEW e \in Tablets, StartEmergency(e)
  PROVE  ReparentInv'
<1> DEFINE map == tablets \ {shardMaster}
           free == Free(map)
<1>1. /\ op.step = "idle" /\ op' = OpOf("emergency", e, map, "stop", free) /\ e \in map
      /\ settled' = FALSE /\ reparents' = reparents + 1
      /\ rpcs' = [t \in Tablets |-> IF t \in free THEN Rpc("stop", "run", {}) ELSE rpcs[t]]
      /\ tablets' \in {tablets, tablets \ {shardMaster}}
      /\ UNCHANGED <<db, dead, written, shardMaster, doubt, forgone>>
  BY DEF StartEmergency, WranglerStep, Begin, OpOf
<1>2. ReparentData /\ CallInv /\ WriteInv
  BY DEF ReparentInv
<1>3. /\ rpcs \in [Tablets -> TabletRpc] /\ shardMaster \in Tablets /\ tablets \subseteq Tablets
      /\ map \in SUBSET Tablets /\ shardMaster \notin map /\ tablets' \subseteq map \cup {shardMaster}
      /\ free \in SUBSET Tablets /\ free \subseteq map
  BY <1>1, <1>2 DEF ReparentData, Free
<1> HIDE DEF map, free
<1>4. /\ op' \in ReparentOp /\ op'.step = "stop" /\ op'.old = shardMaster /\ op'.elect = e /\ op'.map = map
      /\ op'.left = free /\ (\A t \in Tablets : op'.status[t].pos = {})
      /\ e \in map /\ settled' = FALSE /\ reparents' \in Nat
  <2>1. "emergency" \in {"planned", "emergency"} /\ "stop" \in OpSteps
    BY DEF OpSteps
  <2>2. reparents' \in Nat
    BY <1>1, <1>2, SMT DEF ReparentData
  <2> QED BY <1>1, <1>3, <2>1, <2>2, BeginFacts, SMT
<1>5. /\ rpcs' \in [Tablets -> TabletRpc] /\ \A u \in Tablets \ free : rpcs'[u] = rpcs[u]
      /\ \A u \in free : /\ rpcs'[u].rpc = "stop" /\ rpcs'[u].step = "run" /\ rpcs'[u].heard
                         /\ RpcShape(rpcs'[u])
  BY <1>1, <1>3, DemoteCall
<1>6. WriteInv' /\ \A u \in Tablets : GtidSet(u)' = GtidSet(u) /\ db'[u] = db[u]
  BY <1>1, <1>2, StillWritten
<1>7. ReparentData'
  BY <1>1, <1>2, <1>3, <1>4, <1>5 DEF ReparentData
<1>8. WaitsFor' = free /\ WaitsFor = {} /\ ~Leading' /\ ~Following' /\ ~Promoted' /\ ~Electable'
  BY <1>1, <1>4, SMT DEF WaitsFor, Leading, Following, Promoted, Electable
<1>9. CallInv'
  <2> SUFFICES ASSUME NEW u \in Tablets PROVE RpcInv(u)' /\ WaitInv(u)' /\ StatusInv(u)'
    BY DEF CallInv
  <2>1. RpcInv(u) /\ WaitInv(u)
    BY <1>2 DEF CallInv
  <2>2. StatusInv(u)'
    BY <1>4 DEF StatusInv
  <2>3. CASE u \in free
    BY <1>4, <1>5, <1>8, <2>2, <2>3 DEF RpcInv, WaitInv
  <2>4. CASE u \notin free
    BY <1>5, <1>6, <1>8, <2>1, <2>2, <2>4 DEF RpcInv, WaitInv
  <2> QED BY <2>3, <2>4
<1>10. ASSUME ~doubt PROVE Undoubted'
  <2>1. Undoubted /\ OpInv /\ (\A u \in Tablets : WriterInv(u)) /\ MasterInv
    BY <1>10 DEF ReparentInv, Undoubted
  <2>2. Calm
    BY <1>1, <1>2, <2>1, CalmWhen DEF Leading
  <2>3. OpInv'
    BY <1>1, <1>3, <1>4 DEF OpInv, map
  <2>4. \A u \in Tablets : WriterInv(u)'
    BY <1>1, <1>3, <1>5, <1>8, <2>1, <2>2 DEF WriterInv, Calm
  <2>5. MasterInv' /\ PosInv'
    BY <1>1, <1>3, <1>4, <1>5, <1>8, <2>2 DEF MasterInv, PosInv, Calm
  <2>6. HasMost(shardMaster)'
    BY <1>1, <1>3, <1>6, <2>2 DEF Calm, HasMost
  <2>7. LogInv' /\ LeftInv' /\ DoneFollowing' /\ SettledInv'
    BY <1>4, <1>8, <2>6 DEF LogInv, LeftInv, DoneFollowing, SettledInv
  <2> QED BY <2>3, <2>4, <2>5, <2>7 DEF Undoubted
<1> QED BY <1>1, <1>6, <1>7, <1>9, <1>10 DEF ReparentInv

(* The old master is demoted: the new one waits for its position.          *)
LEMMA DemotedKeeps ==
  ASSUME ReparentInv, WranglerStep("demote"), rpcs[op.old].step = "ok", rpcs[op.elect] = NoCall,
         rpcs' = [rpcs EXCEPT ![op.old] = NoCall, ![op.elect] = Rpc("promote", "wait", rpcs[op.old].arg)],
         op' = [op EXCEPT !.step = "promote"],
         UNCHANGED <<tablets, shardMaster, reparents, doubt, forgone, settled>>
  PROVE  ReparentInv'
<1>1. op.step = "demote" /\ UNCHANGED <<db, dead, written>>
  BY DEF WranglerStep
<1>2. ReparentData /\ CallInv /\ WriteInv
  BY DEF ReparentInv
<1>3. /\ rpcs \in [Tablets -> TabletRpc] /\ shardMaster \in Tablets /\ op.old \in Tablets /\ op.elect \in Tablets
      /\ op \in ReparentOp /\ op.old # op.elect
  BY <1>1, <1>2, OpRuns, CallIsNone DEF ReparentData
<1>4. /\ op' \in ReparentOp /\ op'.step = "promote" /\ op'.old = op.old /\ op'.elect = op.elect
      /\ op'.map = op.map
  BY <1>3, SMT DEF ReparentOp, OpSteps
<1>5. /\ rpcs' \in [Tablets -> TabletRpc] /\ rpcs'[op.old] = NoCall
      /\ \A u \in Tablets \ {op.old, op.elect} : rpcs'[u] = rpcs[u]
      /\ rpcs'[op.elect].rpc = "promote" /\ rpcs'[op.elect].step = "wait" /\ rpcs'[op.elect].heard
      /\ rpcs'[op.elect].arg = rpcs[op.old].arg /\ RpcShape(rpcs'[op.elect])
  <2> DEFINE c == Rpc("promote", "wait", rpcs[op.old].arg)
  <2>1. rpcs[op.old].arg \in RpcArgs /\ "promote" \in RpcNames /\ "wait" \in RpcSteps
    BY <1>3 DEF TabletRpc, RpcNames, RpcSteps
  <2>2. /\ c \in TabletRpc /\ c.rpc = "promote" /\ c.step = "wait" /\ c.heard
        /\ c.arg = rpcs[op.old].arg /\ RpcShape(c)
    BY <2>1, RpcMade, SMT DEF RpcShape
  <2> HIDE DEF c
  <2>3. rpcs' = [rpcs EXCEPT ![op.old] = NoCall, ![op.elect] = c]
    BY DEF c
  <2>4. /\ rpcs' \in [Tablets -> TabletRpc] /\ rpcs'[op.old] = NoCall /\ rpcs'[op.elect] = c
        /\ \A u \in Tablets \ {op.old, op.elect} : rpcs'[u] = rpcs[u]
    BY <1>3, <2>2, <2>3, RpcTypes
  <2> QED BY <2>2, <2>4
<1>6. WriteInv' /\ \A u \in Tablets : GtidSet(u)' = GtidSet(u) /\ db'[u] = db[u]
  BY <1>1, <1>2, StillWritten
<1>7. ReparentData'
  BY <1>1, <1>2, <1>4, <1>5 DEF ReparentData
<1>8. WaitsFor' = {op.elect} /\ WaitsFor = {op.old} /\ ~Leading /\ Leading' /\ ~Following' /\ ~Promoted /\ ~Promoted' /\ ~Electable'
  BY <1>1, <1>4, <1>5, SMT DEF WaitsFor, Leading, Following, Promoted, Electable
<1>9. CallInv'
  <2> SUFFICES ASSUME NEW u \in Tablets PROVE RpcInv(u)' /\ WaitInv(u)' /\ StatusInv(u)'
    BY DEF CallInv
  <2>1. RpcInv(u) /\ WaitInv(u)
    BY <1>2 DEF CallInv
  <2>2. StatusInv(u)'
    BY <1>4 DEF StatusInv
  <2>3. CASE u = op.elect
    BY <1>4, <1>5, <1>8, <2>2, <2>3 DEF RpcInv, WaitInv
  <2>4. CASE u = op.old
    BY <1>3, <1>5, <1>8, <2>2, <2>4, CallIsNone DEF RpcInv, WaitInv, RpcShape
  <2>5. CASE u \notin {op.old, op.elect}
    BY <1>5, <1>6, <1>8, <2>1, <2>2, <2>5 DEF RpcInv, WaitInv
  <2> QED BY <2>3, <2>4, <2>5
<1>10. ASSUME ~doubt PROVE Undoubted'
  <2>1. /\ Undoubted /\ OpInv /\ (\A u \in Tablets : WriterInv(u)) /\ MasterInv /\ PosInv /\ SettledInv
    BY <1>10 DEF ReparentInv, Undoubted
  <2>2. Calm
    BY <1>2, <1>8, <2>1, CalmWhen
  <2>3. op.old = shardMaster /\ rpcs[op.old].arg = GtidSet(op.old) /\ db[op.old].ro /\ ~settled
    BY <1>1, <2>1 DEF OpInv, PosInv, SettledInv
  <2>4. OpInv'
    BY <1>1, <1>4, <2>1 DEF OpInv
  <2>5. \A u \in Tablets : WriterInv(u)'
    BY <1>1, <1>3, <1>5, <1>8, <2>1, <2>2, <2>3, CallIsNone DEF WriterInv, Calm
  <2>6. MasterInv'
    BY <1>1, <1>3, <1>4, <1>5, <1>8, <2>2, <2>3, CallIsNone DEF MasterInv, Calm
  <2>7. PosInv'
    BY <1>3, <1>4, <1>5, <1>6, <2>3, SMT DEF PosInv
  <2>8. HasMost(shardMaster)'
    BY <1>3, <1>6, <2>2 DEF Calm, HasMost
  <2>9. LogInv' /\ LeftInv' /\ DoneFollowing' /\ SettledInv'
    BY <1>8, <2>3, <2>8 DEF LogInv, LeftInv, DoneFollowing, SettledInv
  <2> QED BY <2>4, <2>5, <2>6, <2>7, <2>9 DEF Undoubted
<1> QED BY <1>6, <1>7, <1>9, <1>10 DEF ReparentInv

LEMMA StopAnsweredKeeps ==
  ASSUME ReparentInv, NEW t \in Tablets, StopAnswered(t)
  PROVE  ReparentInv'
<1>1. /\ op.step = "stop" /\ t \in op.left /\ rpcs' = Dropped(rpcs, t)
      /\ \/ rpcs[t].step = "ok" /\ op' = [op EXCEPT !.left = @ \ {t}, !.status[t] = rpcs[t].arg]
         \/ op' = [op EXCEPT !.left = @ \ {t}]
      /\ UNCHANGED <<db, dead, written, tablets, shardMaster, reparents, doubt, forgone, settled>>
  BY DEF StopAnswered, WranglerStep
<1>2. ReparentData /\ CallInv /\ WriteInv
  BY DEF ReparentInv
<1>3. /\ rpcs \in [Tablets -> TabletRpc] /\ shardMaster \in Tablets /\ op \in ReparentOp
      /\ op.status \in [Tablets -> ReparentStatus]
  BY <1>1, <1>2, OpRuns DEF ReparentData
<1>4. /\ rpcs[t].rpc = "stop"
      /\ rpcs[t].step = "ok" => rpcs[t].arg \in ReparentStatus /\ rpcs[t].arg.pos \subseteq GtidSet(t)
  BY <1>1, <1>2, HeardFacts DEF CallInv, RpcInv
<1>5. /\ op' \in ReparentOp /\ op'.step = "stop" /\ op'.old = op.old /\ op'.elect = op.elect /\ op'.map = op.map
      /\ op'.left = op.left \ {t} /\ (\A u \in Tablets : u # t => op'.status[u] = op.status[u])
      /\ op'.status[t] = op.status[t] \/ op'.status[t].pos \subseteq GtidSet(t)
  <2>1. CASE rpcs[t].step = "ok" /\ op' = [op EXCEPT !.left = @ \ {t}, !.status[t] = rpcs[t].arg]
    <3> DEFINE status == [op.status EXCEPT ![t] = rpcs[t].arg]
    <3>1. /\ status \in [Tablets -> ReparentStatus] /\ status[t] = rpcs[t].arg
          /\ \A u \in Tablets : u # t => status[u] = op.status[u]
      BY <1>3, <1>4, <2>1
    <3>2. op' = [op EXCEPT !.left = op.left \ {t}, !.status = status]
      BY <2>1
    <3> HIDE DEF status
    <3>3. /\ op' \in ReparentOp /\ op'.step = op.step /\ op'.old = op.old /\ op'.elect = op.elect
          /\ op'.map = op.map /\ op'.left = op.left \ {t} /\ op'.status = status
      BY <1>3, <3>1, <3>2 DEF ReparentOp
    <3> QED BY <1>1, <1>4, <2>1, <3>1, <3>3
  <2>2. CASE op' = [op EXCEPT !.left = @ \ {t}]
    BY <1>1, <1>3, <2>2, SMT DEF ReparentOp
  <2> QED BY <1>1, <2>1, <2>2
<1>6. /\ Drops /\ ~rpcs'[t].heard /\ (\A u \in Tablets : u # t => rpcs'[u] = rpcs[u])
      /\ rpcs' \in [Tablets -> TabletRpc]
  BY <1>1, <1>3, DropDrops DEF Drops
<1>7. WriteInv' /\ \A u \in Tablets : GtidSet(u)' = GtidSet(u) /\ db'[u] = db[u]
  BY <1>1, <1>2, StillWritten
<1>8. ReparentData'
  BY <1>1, <1>2, <1>5, <1>6 DEF ReparentData
<1>9. /\ WaitsFor = op.left /\ WaitsFor' = op.left \ {t} /\ ~Leading /\ ~Leading' /\ ~Following /\ ~Following'
      /\ ~Promoted' /\ ~Electable'
  BY <1>1, <1>5, SMT DEF WaitsFor, Leading, Following, Promoted, Electable
<1>10. \A u \in Tablets : RpcInv(u)' /\ rpcs'[u].rpc \in {rpcs[u].rpc, "none"}
  BY <1>1, <1>2, <1>6, DropsFacts
<1>11. CallInv'
  <2> SUFFICES ASSUME NEW u \in Tablets PROVE WaitInv(u)' /\ StatusInv(u)'
    BY <1>10 DEF CallInv
  <2>1. WaitInv(u) /\ StatusInv(u)
    BY <1>2 DEF CallInv
  <2>2. StatusInv(u)'
    BY <1>1, <1>5, <1>7, <2>1 DEF StatusInv
  <2>3. WaitInv(u)'
    BY <1>1, <1>5, <1>6, <1>9, <2>1 DEF WaitInv
  <2> QED BY <2>2, <2>3
<1>12. ASSUME ~doubt PROVE Undoubted'
  <2>1. Undoubted /\ OpInv /\ (\A u \in Tablets : WriterInv(u)) /\ SettledInv
    BY <1>12 DEF ReparentInv, Undoubted
  <2>2. Calm
    BY <1>2, <1>9, <2>1, CalmWhen
  <2>3. OpInv'
    BY <1>1, <1>5, <2>1 DEF OpInv
  <2>4. \A u \in Tablets : WriterInv(u)'
    BY <1>1, <1>4, <1>6, <1>9, <1>10, <2>1, <2>2 DEF WriterInv, Calm
  <2>5. MasterInv' /\ PosInv'
    BY <1>1, <1>3, <1>5, <1>9, <1>10, <2>2 DEF MasterInv, PosInv, Calm
  <2>6. HasMost(shardMaster)'
    BY <1>1, <1>3, <1>7, <2>2 DEF Calm, HasMost
  <2>7. LogInv' /\ LeftInv' /\ DoneFollowing' /\ SettledInv'
    BY <1>1, <1>9, <2>1, <2>6 DEF LogInv, LeftInv, DoneFollowing, SettledInv
  <2> QED BY <2>3, <2>4, <2>5, <2>7 DEF Undoubted
<1> QED BY <1>1, <1>7, <1>8, <1>11, <1>12 DEF ReparentInv

(* The new master is the most advanced of those that answered.             *)
LEMMA ElectedKeeps ==
  ASSUME ReparentInv, WranglerStep("stop"), op.left = {}, Ahead, rpcs[op.elect] = NoCall,
         op' = [op EXCEPT !.step = "promote"],
         rpcs' = [rpcs EXCEPT ![op.elect] = Rpc("promote", "promote", {})],
         doubt' = (doubt \/ op.old \notin dead),
         forgone' = forgone \cup ((UNION {GtidSet(t) : t \in Tablets})
                              \ (UNION {op.status[t].pos : t \in Answered})),
         UNCHANGED <<tablets, shardMaster, reparents, settled>>
  PROVE  ReparentInv'
<1>1. op.step = "stop" /\ UNCHANGED <<db, dead, written>>
  BY DEF WranglerStep
<1>2. ReparentData /\ CallInv /\ WriteInv
  BY DEF ReparentInv
<1>3. /\ rpcs \in [Tablets -> TabletRpc] /\ shardMaster \in Tablets /\ op \in ReparentOp /\ op.elect \in Tablets
      /\ op.old \in Tablets /\ op.map \subseteq Tablets
  BY <1>1, <1>2, OpRuns DEF ReparentData
<1>4. /\ op' \in ReparentOp /\ op'.step = "promote" /\ op'.old = op.old /\ op'.elect = op.elect
      /\ op'.map = op.map
  BY <1>3, SMT DEF ReparentOp, OpSteps
<1>5. /\ rpcs' \in [Tablets -> TabletRpc] /\ \A u \in Tablets \ {op.elect} : rpcs'[u] = rpcs[u]
      /\ rpcs'[op.elect].rpc = "promote" /\ rpcs'[op.elect].step = "promote" /\ rpcs'[op.elect].heard
      /\ RpcShape(rpcs'[op.elect])
  <2> DEFINE c == Rpc("promote", "promote", {})
  <2>1. {} \in RpcArgs /\ "promote" \in RpcNames /\ "promote" \in RpcSteps
    BY RpcTypes DEF RpcNames, RpcSteps
  <2>2. c \in TabletRpc /\ c.rpc = "promote" /\ c.step = "promote" /\ c.heard /\ RpcShape(c)
    BY <2>1, RpcMade, SMT DEF RpcShape
  <2> HIDE DEF c
  <2>3. rpcs' = [rpcs EXCEPT ![op.elect] = c]
    BY DEF c
  <2> QED BY <1>3, <2>2, <2>3
<1>6. WriteInv' /\ \A u \in Tablets : GtidSet(u)' = GtidSet(u) /\ db'[u] = db[u]
  BY <1>1, <1>2, StillWritten
<1>7. ReparentData'
  BY <1>1, <1>2, <1>4, <1>5 DEF ReparentData
<1>8. WaitsFor' = {op.elect} /\ WaitsFor = {} /\ ~Leading /\ Leading' /\ ~Following' /\ ~Promoted'
  BY <1>1, <1>4, <1>5, SMT DEF WaitsFor, Leading, Following, Promoted
<1>9. CallInv'
  <2> SUFFICES ASSUME NEW u \in Tablets PROVE RpcInv(u)' /\ WaitInv(u)' /\ StatusInv(u)'
    BY DEF CallInv
  <2>1. RpcInv(u) /\ WaitInv(u)
    BY <1>2 DEF CallInv
  <2>2. StatusInv(u)'
    BY <1>4 DEF StatusInv
  <2>3. CASE u = op.elect
    BY <1>4, <1>5, <1>8, <2>2, <2>3 DEF RpcInv, WaitInv
  <2>4. CASE u # op.elect
    BY <1>5, <1>6, <1>8, <2>1, <2>2, <2>4 DEF RpcInv, WaitInv
  <2> QED BY <2>3, <2>4
<1>10. ASSUME ~doubt' PROVE Undoubted'
  <2>1. /\ ~doubt /\ op.old \in dead
        /\ Undoubted /\ OpInv /\ (\A u \in Tablets : WriterInv(u)) /\ SettledInv
    BY <1>10 DEF ReparentInv, Undoubted
  <2>2. Calm
    BY <1>2, <1>8, <2>1, CalmWhen
  <2>3. op.old = shardMaster /\ op.elect # shardMaster /\ ~settled
    BY <1>1, <2>1 DEF OpInv, SettledInv
  <2>4. OpInv'
    BY <1>1, <1>4, <2>1, SMT DEF OpInv
  <2>5. \A u \in Tablets : WriterInv(u)'
    BY <1>1, <1>5, <2>1, <2>2, <2>3 DEF WriterInv, Calm
  <2>6. MasterInv' /\ PosInv'
    BY <1>1, <1>3, <1>4, <1>5, <1>8, <2>1, <2>2, <2>3, SMT DEF MasterInv, PosInv, Calm
  <2>7. HasMost(shardMaster)'
    <3>1. \A u \in Tablets : GtidSet(u) \ forgone \subseteq GtidSet(shardMaster)
      BY <2>2 DEF Calm, HasMost
    <3>2. forgone \subseteq forgone'
      OBVIOUS
    <3> QED BY <1>3, <1>6, <3>1, <3>2, SMT DEF HasMost
  <2>8. HasMost(op.elect)'
    <3> SUFFICES ASSUME NEW u \in Tablets, NEW n \in GtidSet(u), n \notin forgone'
                 PROVE  n \in GtidSet(op.elect)
      BY <1>3, <1>4, <1>6, SMT DEF HasMost
    <3>1. n \in UNION {op.status[t].pos : t \in Answered}
      <4> DEFINE all == UNION {GtidSet(t) : t \in Tablets}
                 pos == UNION {op.status[t].pos : t \in Answered}
      <4>1. n \in all
        OBVIOUS
      <4>2. forgone' = forgone \cup (all \ pos)
        OBVIOUS
      <4> HIDE DEF all, pos
      <4>3. n \in pos
        BY <4>1, <4>2
      <4> QED BY <4>3 DEF pos
    <3>2. PICK v \in Answered : n \in op.status[v].pos
      BY <3>1
    <3>3. op.status[op.elect].pos \subseteq GtidSet(op.elect)
      BY <1>1, <1>2, <1>3 DEF CallInv, StatusInv
    <3> QED BY <3>2, <3>3 DEF Ahead
  <2>9. LogInv' /\ LeftInv' /\ DoneFollowing' /\ SettledInv'
    BY <1>8, <2>3, <2>7, <2>8 DEF LogInv, LeftInv, DoneFollowing, SettledInv
  <2> QED BY <2>4, <2>5, <2>6, <2>9 DEF Undoubted
<1> QED BY <1>6, <1>7, <1>9, <1>10 DEF ReparentInv

(* A planned promotion fails: the old master is asked to be one again.     *)
LEMMA UndoKeeps ==
  ASSUME ReparentInv, WranglerStep("promote"), rpcs[op.old] = NoCall,
         doubt' = (doubt \/ ~Harmless(rpcs[op.elect])),
         rpcs' = [Dropped(rpcs, op.elect) EXCEPT ![op.old] = Rpc("undo", "run", {})],
         op' = [op EXCEPT !.step = "undo"],
         UNCHANGED <<tablets, shardMaster, reparents, forgone, settled>>
  PROVE  ReparentInv'
<1>1. op.step = "promote" /\ UNCHANGED <<db, dead, written>>
  BY DEF WranglerStep
<1>2. ReparentData /\ CallInv /\ WriteInv
  BY DEF ReparentInv
<1>3. /\ rpcs \in [Tablets -> TabletRpc] /\ shardMaster \in Tablets /\ op \in ReparentOp /\ op.elect \in Tablets
      /\ op.old \in Tablets
  BY <1>1, <1>2, OpRuns DEF ReparentData
<1>4. rpcs[op.elect].rpc = "promote" /\ op.old # op.elect
  BY <1>1, <1>2, <1>3, HeardFacts, CallIsNone
<1>5. /\ op' \in ReparentOp /\ op'.step = "undo" /\ op'.old = op.old /\ op'.elect = op.elect
      /\ op'.map = op.map
  BY <1>3, SMT DEF ReparentOp, OpSteps
<1>6. /\ rpcs' \in [Tablets -> TabletRpc] /\ \A u \in Tablets \ {op.old, op.elect} : rpcs'[u] = rpcs[u]
      /\ ~rpcs'[op.elect].heard /\ rpcs'[op.elect].rpc \in {"promote", "none"}
      /\ rpcs'[op.elect] = NoCall \/ (/\ rpcs'[op.elect].step = rpcs[op.elect].step
                                      /\ rpcs'[op.elect].rpc = "promote"
                                      /\ rpcs[op.elect].step \notin {"ok", "err"})
      /\ rpcs'[op.old].rpc = "undo" /\ rpcs'[op.old].step = "run" /\ rpcs'[op.old].heard
      /\ RpcShape(rpcs'[op.old])
  <2> DEFINE c == Rpc("undo", "run", {})
             d == Dropped(rpcs, op.elect)
  <2>1. c \in TabletRpc /\ c.rpc = "undo" /\ c.step = "run" /\ c.heard /\ RpcShape(c)
    BY DemoteCall
  <2>2. /\ d \in [Tablets -> TabletRpc] /\ (\A u \in Tablets : u # op.elect => d[u] = rpcs[u])
        /\ ~d[op.elect].heard
        /\ d[op.elect] = NoCall \/ (/\ d[op.elect].step = rpcs[op.elect].step
                                    /\ d[op.elect].rpc = "promote"
                                    /\ rpcs[op.elect].step \notin {"ok", "err"})
    BY <1>3, <1>4, DroppedFacts
  <2>3. rpcs' = [d EXCEPT ![op.old] = c]
    OBVIOUS
  <2> HIDE DEF c, d
  <2>4. /\ rpcs' \in [Tablets -> TabletRpc] /\ rpcs'[op.old] = c
        /\ \A u \in Tablets : u # op.old => rpcs'[u] = d[u]
    BY <1>3, <2>1, <2>2, <2>3
  <2> QED BY <1>3, <1>4, <2>1, <2>2, <2>4, CallIsNone
<1>7. WriteInv' /\ \A u \in Tablets : GtidSet(u)' = GtidSet(u) /\ db'[u] = db[u]
  BY <1>1, <1>2, StillWritten
<1>8. ReparentData'
  BY <1>1, <1>2, <1>5, <1>6 DEF ReparentData
<1>9. WaitsFor' = {op.old} /\ WaitsFor = {op.elect} /\ ~Leading' /\ ~Following' /\ ~Promoted' /\ ~Electable'
  BY <1>1, <1>5, SMT DEF WaitsFor, Leading, Following, Promoted, Electable
<1>10. CallInv'
  <2> SUFFICES ASSUME NEW u \in Tablets PROVE RpcInv(u)' /\ WaitInv(u)' /\ StatusInv(u)'
    BY DEF CallInv
  <2>1. RpcInv(u) /\ WaitInv(u)
    BY <1>2 DEF CallInv
  <2>2. StatusInv(u)'
    BY <1>5 DEF StatusInv
  <2>3. CASE u = op.old
    BY <1>5, <1>6, <1>9, <2>2, <2>3 DEF RpcInv, WaitInv
  <2>4. CASE u = op.elect
    <3>1. RpcShape(rpcs'[u])
      BY <1>4, <1>6, <2>1, <2>4, CallIsNone DEF RpcInv, RpcShape
    <3>2. rpcs'[u].step \notin {"ok", "err", "position"}
      BY <1>6, <2>4, <3>1, CallIsNone DEF RpcShape
    <3> QED BY <1>4, <1>6, <1>9, <2>2, <2>4, <3>1, <3>2 DEF RpcInv, WaitInv
  <2>5. CASE u \notin {op.old, op.elect}
    BY <1>6, <1>7, <1>9, <2>1, <2>2, <2>5 DEF RpcInv, WaitInv
  <2> QED BY <2>3, <2>4, <2>5
<1>11. ASSUME ~doubt' PROVE Undoubted'
  <2>1. ~doubt /\ Undoubted /\ OpInv /\ (\A u \in Tablets : WriterInv(u)) /\ SettledInv
    BY <1>11 DEF ReparentInv, Undoubted
  <2>2. Calm
    BY <1>1, <1>2, <1>11, <2>1, CalmAfter
  <2>3. op.old = shardMaster /\ ~settled
    BY <1>1, <2>1 DEF OpInv, SettledInv
  <2>4. OpInv'
    BY <1>1, <1>5, <2>1, SMT DEF OpInv
  <2>5. \A u \in Tablets : WriterInv(u)'
    <3> SUFFICES ASSUME NEW u \in Tablets PROVE WriterInv(u)'
      OBVIOUS
    <3>1. CASE u = op.old
      BY <1>1, <1>6, <1>9, <2>2, <2>3, <3>1 DEF WriterInv, Calm
    <3>2. CASE u = op.elect
      BY <1>1, <1>4, <1>6, <1>9, <2>2, <3>2, CallIsNone DEF WriterInv, Calm
    <3>3. CASE u \notin {op.old, op.elect}
      BY <1>1, <1>6, <1>9, <2>2, <3>3 DEF WriterInv, Calm
    <3> QED BY <3>1, <3>2, <3>3
  <2>6. MasterInv' /\ PosInv'
    BY <1>1, <1>5, <1>6, <1>9, <2>2, <2>3, SMT DEF MasterInv, PosInv, Calm
  <2>7. HasMost(shardMaster)'
    BY <1>3, <1>7, <2>2 DEF Calm, HasMost
  <2>8. LogInv' /\ LeftInv' /\ DoneFollowing' /\ SettledInv'
    BY <1>9, <2>3, <2>7 DEF LogInv, LeftInv, DoneFollowing, SettledInv
  <2> QED BY <2>4, <2>5, <2>6, <2>8 DEF Undoubted
<1> QED BY <1>7, <1>8, <1>10, <1>11 DEF ReparentInv

(* So it is if the new one cannot be asked.                                *)
LEMMA NotAskedKeeps ==
  ASSUME ReparentInv, WranglerStep("demote"), rpcs[op.old].step = "ok",
         rpcs' = [rpcs EXCEPT ![op.old] = Rpc("undo", "run", {})],
         op' = [op EXCEPT !.step = "undo"],
         UNCHANGED <<tablets, shardMaster, reparents, doubt, forgone, settled>>
  PROVE  ReparentInv'
<1>1. op.step = "demote" /\ UNCHANGED <<db, dead, written>>
  BY DEF WranglerStep
<1>2. ReparentData /\ CallInv /\ WriteInv
  BY DEF ReparentInv
<1>3. /\ rpcs \in [Tablets -> TabletRpc] /\ shardMaster \in Tablets /\ op \in ReparentOp
      /\ op.old \in Tablets
  BY <1>1, <1>2, OpRuns DEF ReparentData
<1>4. /\ op' \in ReparentOp /\ op'.step = "undo" /\ op'.old = op.old /\ op'.elect = op.elect
      /\ op'.map = op.map
  BY <1>3, SMT DEF ReparentOp, OpSteps
<1>5. /\ rpcs' \in [Tablets -> TabletRpc] /\ \A u \in Tablets : u # op.old => rpcs'[u] = rpcs[u]
      /\ rpcs'[op.old].rpc = "undo" /\ rpcs'[op.old].step = "run" /\ rpcs'[op.old].heard
      /\ RpcShape(rpcs'[op.old])
  BY <1>3, DemoteCall
<1>6. WriteInv' /\ \A u \in Tablets : GtidSet(u)' = GtidSet(u) /\ db'[u] = db[u]
  BY <1>1, <1>2, StillWritten
<1>7. ReparentData'
  BY <1>1, <1>2, <1>4, <1>5 DEF ReparentData
<1>8. WaitsFor' = {op.old} /\ WaitsFor = {op.old} /\ ~Leading' /\ ~Following' /\ ~Promoted' /\ ~Electable'
  BY <1>1, <1>4, SMT DEF WaitsFor, Leading, Following, Promoted, Electable
<1>9. CallInv'
  <2> SUFFICES ASSUME NEW u \in Tablets PROVE RpcInv(u)' /\ WaitInv(u)' /\ StatusInv(u)'
    BY DEF CallInv
  <2>1. RpcInv(u) /\ WaitInv(u)
    BY <1>2 DEF CallInv
  <2>2. StatusInv(u)'
    BY <1>4 DEF StatusInv
  <2>3. CASE u = op.old
    BY <1>4, <1>5, <1>8, <2>2, <2>3 DEF RpcInv, WaitInv
  <2>4. CASE u # op.old
    BY <1>5, <1>6, <1>8, <2>1, <2>2, <2>4 DEF RpcInv, WaitInv
  <2> QED BY <2>3, <2>4
<1>10. ASSUME ~doubt PROVE Undoubted'
  <2>1. Undoubted /\ OpInv /\ (\A u \in Tablets : WriterInv(u)) /\ SettledInv
    BY <1>10 DEF ReparentInv, Undoubted
  <2>2. Calm
    BY <1>1, <1>2, <2>1, CalmWhen DEF Leading
  <2>3. op.old = shardMaster /\ ~settled
    BY <1>1, <2>1 DEF OpInv, SettledInv
  <2>4. OpInv'
    BY <1>1, <1>4, <2>1, SMT DEF OpInv
  <2>5. \A u \in Tablets : WriterInv(u)'
    BY <1>1, <1>5, <1>8, <2>1, <2>2, <2>3 DEF WriterInv, Calm
  <2>6. MasterInv' /\ PosInv'
    BY <1>1, <1>4, <1>5, <1>8, <2>2, <2>3, SMT DEF MasterInv, PosInv, Calm
  <2>7. HasMost(shardMaster)'
    BY <1>3, <1>6, <2>2 DEF Calm, HasMost
  <2>8. LogInv' /\ LeftInv' /\ DoneFollowing' /\ SettledInv'
    BY <1>8, <2>3, <2>7 DEF LogInv, LeftInv, DoneFollowing, SettledInv
  <2> QED BY <2>4, <2>5, <2>6, <2>8 DEF Undoubted
<1> QED BY <1>6, <1>7, <1>9, <1>10 DEF ReparentInv

LEMMA PromoteFailsKeeps ==
  ASSUME ReparentInv, PromoteFails
  PROVE  ReparentInv'
<1>1. CASE op.kind = "planned"
  BY <1>1, UndoKeeps DEF PromoteFails
<1>2. CASE op.kind # "planned"
  <2>1. /\ WranglerStep("promote") /\ rpcs' = Dropped(rpcs, op.elect) /\ Return(FALSE)
        /\ doubt' = (doubt \/ ~Harmless(rpcs[op.elect]))
        /\ UNCHANGED <<tablets, shardMaster, reparents, forgone>>
    BY <1>2 DEF PromoteFails
  <2>2. doubt' \in BOOLEAN /\ (~doubt' => ~doubt /\ Harmless(rpcs[op.elect]))
    BY <2>1
  <2> QED BY <2>1, <2>2, PromoteEndsKeeps
<1> QED BY <1>1, <1>2

(* The new master is promoted: the others are told to follow it.           *)
PointTo(t) == Rpc("setmaster", "run", [master |-> op.elect, row |-> Row(reparents),
                                       force |-> ForceStart(t), changed |-> FALSE])

LEMMA PointFacts ==
  ASSUME ReparentData, op.elect \in Tablets, NEW t \in Tablets
  PROVE  /\ PointTo(t) \in TabletRpc /\ PointTo(t).rpc = "setmaster" /\ PointTo(t).step = "run"
         /\ PointTo(t).heard /\ PointTo(t).arg \in MasterArg /\ PointTo(t).arg.master = op.elect
         /\ RpcShape(PointTo(t))
<1> DEFINE arg == [master |-> op.elect, row |-> Row(reparents), force |-> ForceStart(t), changed |-> FALSE]
<1>1. Row(reparents) \in Nat
  BY ReparentAssumption, SMT DEF ReparentData, Row
<1>2. ForceStart(t) \in BOOLEAN
  BY DEF ForceStart
<1>3. arg \in MasterArg /\ arg.master = op.elect
  BY <1>1, <1>2 DEF MasterArg
<1>4. arg \in RpcArgs /\ "setmaster" \in RpcNames /\ "run" \in RpcSteps
  BY <1>3 DEF RpcArgs, RpcNames, RpcSteps
<1>5. PointTo(t) = Rpc("setmaster", "run", arg)
  BY DEF PointTo
<1> HIDE DEF arg
<1>6. /\ PointTo(t) \in TabletRpc /\ PointTo(t).rpc = "setmaster" /\ PointTo(t).step = "run"
      /\ PointTo(t).heard /\ PointTo(t).arg = arg
  BY <1>4, <1>5, RpcMade, SMT
<1> QED BY <1>3, <1>6 DEF RpcShape

LEMMA PromotedKeeps ==
  ASSUME ReparentInv, WranglerStep("promote"), rpcs[op.elect].step = "ok",
         NEW others, others = Free(op.map \ {op.elect}), NEW err \in BOOLEAN,
         ~err => others = op.map \ {op.elect},
         rpcs' = [t \in Tablets |-> IF t \in others THEN PointTo(t)
                                    ELSE IF t = op.elect THEN NoCall ELSE rpcs[t]],
         op' = [op EXCEPT !.step = "slaves", !.left = others, !.err = err],
         UNCHANGED <<tablets, shardMaster, reparents, doubt, forgone, settled>>
  PROVE  ReparentInv'
<1>1. op.step = "promote" /\ UNCHANGED <<db, dead, written>>
  BY DEF WranglerStep
<1>2. ReparentData /\ CallInv /\ WriteInv
  BY DEF ReparentInv
<1>3. /\ rpcs \in [Tablets -> TabletRpc] /\ shardMaster \in Tablets /\ op \in ReparentOp /\ op.elect \in Tablets
      /\ op.old \in Tablets /\ op.map \subseteq Tablets /\ others \subseteq Tablets /\ op.elect \notin others
  BY <1>1, <1>2, OpRuns DEF ReparentData, Free
<1>4. /\ op' \in ReparentOp /\ op'.step = "slaves" /\ op'.old = op.old /\ op'.elect = op.elect
      /\ op'.map = op.map /\ op'.left = others /\ op'.err = err
  BY <1>3 DEF ReparentOp, OpSteps
<1>5. /\ rpcs' \in [Tablets -> TabletRpc] /\ rpcs'[op.elect] = NoCall
      /\ \A u \in Tablets \ (others \cup {op.elect}) : rpcs'[u] = rpcs[u]
      /\ \A u \in others : rpcs'[u] = PointTo(u)
  BY <1>2, <1>3, PointFacts, RpcTypes
<1>6. \A u \in others : /\ rpcs'[u].rpc = "setmaster" /\ rpcs'[u].step = "run" /\ rpcs'[u].heard
                        /\ rpcs'[u].arg \in MasterArg /\ rpcs'[u].arg.master = op.elect /\ RpcShape(rpcs'[u])
  BY <1>2, <1>3, <1>5, PointFacts
<1>7. WriteInv' /\ \A u \in Tablets : GtidSet(u)' = GtidSet(u) /\ db'[u] = db[u]
  BY <1>1, <1>2, StillWritten
<1>8. ReparentData'
  BY <1>1, <1>2, <1>4, <1>5 DEF ReparentData
<1>9. WaitsFor' = others /\ WaitsFor = {op.elect} /\ Leading /\ Leading' /\ Following' /\ Promoted' /\ Electable'
  BY <1>1, <1>4, SMT DEF WaitsFor, Leading, Following, Promoted, Electable
<1>10. CallInv'
  <2> SUFFICES ASSUME NEW u \in Tablets PROVE RpcInv(u)' /\ WaitInv(u)' /\ StatusInv(u)'
    BY DEF CallInv
  <2>1. RpcInv(u) /\ WaitInv(u)
    BY <1>2 DEF CallInv
  <2>2. StatusInv(u)'
    BY <1>4 DEF StatusInv
  <2>3. CASE u \in others
    BY <1>4, <1>6, <1>9, <2>2, <2>3 DEF RpcInv, WaitInv
  <2>4. CASE u = op.elect
    BY <1>3, <1>5, <1>9, <2>2, <2>4, CallIsNone DEF RpcInv, WaitInv, RpcShape
  <2>5. CASE u \notin others \cup {op.elect}
    BY <1>5, <1>7, <1>9, <2>1, <2>2, <2>5 DEF RpcInv, WaitInv
  <2> QED BY <2>3, <2>4, <2>5
<1>11. ASSUME ~doubt PROVE Undoubted'
  <2>1. OpInv /\ (\A u \in Tablets : WriterInv(u)) /\ MasterInv /\ LogInv /\ SettledInv
    BY <1>11 DEF ReparentInv, Undoubted
  <2>2. OpInv'
    BY <1>1, <1>4, <2>1, SMT DEF OpInv
  <2>3. \A u \in Tablets : WriterInv(u)'
    <3> SUFFICES ASSUME NEW u \in Tablets PROVE WriterInv(u)'
      OBVIOUS
    <3>1. WriterInv(u)
      BY <2>1
    <3>2. CASE u \in others
      BY <1>1, <1>4, <1>6, <1>9, <3>1, <3>2 DEF WriterInv
    <3>3. CASE u = op.elect
      BY <1>1, <1>4, <1>5, <1>9, <3>1, <3>3, CallIsNone DEF WriterInv
    <3>4. CASE u \notin others \cup {op.elect}
      BY <1>1, <1>4, <1>5, <1>9, <3>1, <3>4 DEF WriterInv
    <3> QED BY <3>2, <3>3, <3>4
  <2>4. ~db[op.elect].ro /\ ~db[op.elect].running /\ (op.old \in dead \/ db[op.old].ro) /\ ~settled
    BY <1>1, <1>9, <2>1 DEF MasterInv, SettledInv
  <2>5. MasterInv' /\ PosInv'
    BY <1>1, <1>4, <1>5, <1>9, <2>4, SMTT(30) DEF MasterInv, PosInv
  <2>6. HasMost(op.elect)
    BY <1>1, <2>1, <2>4 DEF LogInv, Electable, Promoted
  <2>7. HasMost(op.elect)'
    BY <1>3, <1>4, <1>7, <2>6, SMT DEF HasMost
  <2>8. LogInv'
    BY <1>9, <2>7 DEF LogInv
  <2>9. LeftInv'
    BY <1>4, <1>6 DEF LeftInv
  <2>10. DoneFollowing' /\ SettledInv'
    BY <1>4, <2>4 DEF DoneFollowing, SettledInv
  <2> QED BY <2>2, <2>3, <2>5, <2>8, <2>9, <2>10 DEF Undoubted
<1> QED BY <1>7, <1>8, <1>10, <1>11 DEF ReparentInv

LEMMA PromoteAnsweredKeeps ==
  ASSUME ReparentInv, PromoteAnswered
  PROVE  ReparentInv'
<1> DEFINE others == Free(op.map \ {op.elect})
           err == others # op.map \ {op.elect}
<1>1. /\ WranglerStep("promote") /\ rpcs[op.elect].step = "ok"
      /\ UNCHANGED <<tablets, shardMaster, reparents, forgone>>
  BY DEF PromoteAnswered
<1>2. CASE /\ rpcs' = [t \in Tablets |-> IF t \in others THEN PointTo(t)
                                         ELSE IF t = op.elect THEN NoCall ELSE rpcs[t]]
           /\ op' = [op EXCEPT !.step = "slaves", !.left = others, !.err = err]
           /\ UNCHANGED <<doubt, settled>>
  BY <1>1, <1>2, PromotedKeeps
<1>3. CASE rpcs' = Dropped(rpcs, op.elect) /\ Return(FALSE) /\ doubt' = TRUE
  BY <1>1, <1>3, PromoteEndsKeeps
<1> QED BY <1>2, <1>3 DEF PromoteAnswered, PointTo

(* The shard record names the new master, which has what any tablet has.   *)
LEMMA UpdateRecordKeeps ==
  ASSUME ReparentInv, UpdateRecord
  PROVE  ReparentInv'
<1>1. /\ op.step = "record" /\ UNCHANGED <<db, dead, written, tablets, rpcs, reparents, forgone, settled>>
      /\ \/ shardMaster' = op.elect /\ op' = [op EXCEPT !.step = "rest"] /\ doubt' = doubt
         \/ op' = [op EXCEPT !.step = "rest", !.err = TRUE] /\ doubt' = TRUE /\ shardMaster' = shardMaster
  BY DEF UpdateRecord, WranglerStep
<1>2. ReparentData /\ CallInv /\ WriteInv
  BY DEF ReparentInv
<1>3. /\ shardMaster \in Tablets /\ op \in ReparentOp /\ op.elect \in Tablets /\ op.old \in Tablets
      /\ op.map \subseteq Tablets /\ op.left \subseteq Tablets
  BY <1>1, <1>2, OpRuns DEF ReparentData
<1>4. /\ op' \in ReparentOp /\ op'.step = "rest" /\ op'.old = op.old /\ op'.elect = op.elect
      /\ op'.map = op.map /\ op'.left = op.left /\ (~doubt' => op'.err = op.err)
  BY <1>1, <1>3 DEF ReparentOp, OpSteps
<1>5. WriteInv' /\ \A u \in Tablets : GtidSet(u)' = GtidSet(u) /\ db'[u] = db[u]
  BY <1>1, <1>2, StillWritten
<1>6. shardMaster' \in Tablets /\ doubt' \in BOOLEAN
  BY <1>1, <1>2, <1>3 DEF ReparentData
<1>7. ReparentData'
  BY <1>1, <1>2, <1>4, <1>6 DEF ReparentData
<1>8. /\ WaitsFor' = WaitsFor /\ Leading /\ ~Leading' /\ Following /\ Following'
      /\ Electable /\ ~Promoted' /\ ~Electable'
  BY <1>1, <1>4, SMT DEF WaitsFor, Leading, Following, Promoted, Electable
<1>9. CallInv'
  <2> SUFFICES ASSUME NEW u \in Tablets PROVE RpcInv(u)' /\ WaitInv(u)' /\ StatusInv(u)'
    BY DEF CallInv
  <2>1. RpcInv(u) /\ WaitInv(u)
    BY <1>2 DEF CallInv
  <2> QED BY <1>1, <1>4, <1>5, <1>8, <2>1 DEF RpcInv, WaitInv, StatusInv
<1>10. ASSUME ~doubt' PROVE Undoubted'
  <2>1. /\ OpInv /\ (\A u \in Tablets : WriterInv(u)) /\ MasterInv /\ LogInv /\ LeftInv /\ DoneFollowing
        /\ SettledInv /\ shardMaster' = op.elect
    BY <1>1, <1>10 DEF ReparentInv, Undoubted
  <2>2. OpInv'
    BY <1>1, <1>4, <2>1, SMT DEF OpInv
  <2>3. op.old = shardMaster /\ (op.old \in dead \/ db[op.old].ro) /\ ~settled
    BY <1>1, <1>8, <2>1 DEF OpInv, MasterInv, SettledInv
  <2>4. \A u \in Tablets : WriterInv(u)'
    BY <1>1, <1>8, <2>1, <2>3 DEF WriterInv
  <2>5. MasterInv' /\ PosInv'
    BY <1>1, <1>4, <1>8, <2>1, CallIsNone, SMT DEF MasterInv, PosInv
  <2>6. HasMost(op.elect)
    BY <1>8, <2>1 DEF LogInv
  <2>7. HasMost(shardMaster)'
    BY <1>1, <1>3, <1>5, <2>1, <2>6, SMT DEF HasMost
  <2>8. LogInv'
    BY <1>8, <2>7 DEF LogInv
  <2>9. LeftInv' /\ DoneFollowing' /\ SettledInv'
    BY <1>1, <1>4, <1>8, <1>10, <2>1, <2>3 DEF LeftInv, DoneFollowing, SettledInv
  <2> QED BY <2>2, <2>4, <2>5, <2>8, <2>9 DEF Undoubted
<1> QED BY <1>5, <1>7, <1>9, <1>10 DEF ReparentInv

LEMMA SetMasterAnsweredKeeps ==
  ASSUME ReparentInv, NEW t \in Tablets, SetMasterAnswered(t)
  PROVE  ReparentInv'
<1>1. /\ op.step = "rest" /\ t \in op.left /\ rpcs' = Dropped(rpcs, t)
      /\ \/ rpcs[t].step = "ok" /\ op' = [op EXCEPT !.left = @ \ {t}]
         \/ op' = [op EXCEPT !.left = @ \ {t}, !.err = TRUE]
      /\ UNCHANGED <<db, dead, written, tablets, shardMaster, reparents, doubt, forgone, settled>>
  BY DEF SetMasterAnswered, WranglerStep
<1>2. ReparentData /\ CallInv /\ WriteInv
  BY DEF ReparentInv
<1>3. /\ rpcs \in [Tablets -> TabletRpc] /\ shardMaster \in Tablets /\ op \in ReparentOp
      /\ op.map \subseteq Tablets /\ op.left \subseteq Tablets
  BY <1>1, <1>2, OpRuns DEF ReparentData
<1>4. rpcs[t].rpc = "setmaster"
  BY <1>1, <1>2, HeardFacts DEF Following
<1>5. /\ op' \in ReparentOp /\ op'.step = "rest" /\ op'.old = op.old /\ op'.elect = op.elect /\ op'.map = op.map
      /\ op'.left = op.left \ {t} /\ (~op'.err => ~op.err /\ rpcs[t].step = "ok")
  <2>1. CASE rpcs[t].step = "ok" /\ op' = [op EXCEPT !.left = @ \ {t}]
    BY <1>1, <1>3, <2>1 DEF ReparentOp
  <2>2. CASE op' = [op EXCEPT !.left = @ \ {t}, !.err = TRUE]
    BY <1>1, <1>3, <2>2 DEF ReparentOp
  <2> QED BY <1>1, <2>1, <2>2
<1>6. /\ Drops /\ ~rpcs'[t].heard /\ (\A u \in Tablets : u # t => rpcs'[u] = rpcs[u])
      /\ rpcs' \in [Tablets -> TabletRpc] /\ (rpcs[t].step = "ok" => rpcs'[t] = NoCall)
  BY <1>1, <1>3, DropDrops DEF Drops
<1>7. WriteInv' /\ \A u \in Tablets : GtidSet(u)' = GtidSet(u) /\ db'[u] = db[u]
  BY <1>1, <1>2, StillWritten
<1>8. ReparentData'
  BY <1>1, <1>2, <1>5, <1>6 DEF ReparentData
<1>9. /\ WaitsFor = op.left /\ WaitsFor' = op.left \ {t} /\ ~Leading /\ ~Leading' /\ Following /\ Following'
      /\ ~Promoted' /\ ~Electable'
  BY <1>1, <1>5, SMT DEF WaitsFor, Leading, Following, Promoted, Electable
<1>10. \A u \in Tablets : RpcInv(u)' /\ rpcs'[u].rpc \in {rpcs[u].rpc, "none"}
  BY <1>1, <1>2, <1>6, DropsFacts
<1>11. CallInv'
  <2> SUFFICES ASSUME NEW u \in Tablets PROVE WaitInv(u)' /\ StatusInv(u)'
    BY <1>10 DEF CallInv
  <2>1. WaitInv(u)
    BY <1>2 DEF CallInv
  <2> QED BY <1>1, <1>5, <1>6, <1>9, <2>1 DEF WaitInv, StatusInv
<1>12. ASSUME ~doubt PROVE Undoubted'
  <2>1. /\ Undoubted /\ OpInv /\ (\A u \in Tablets : WriterInv(u)) /\ MasterInv /\ LeftInv /\ DoneFollowing
        /\ SettledInv
    BY <1>12 DEF ReparentInv, Undoubted
  <2>2. Calm
    BY <1>2, <1>9, <2>1, CalmWhen
  <2>3. rpcs[op.elect] = NoCall /\ op.elect = shardMaster /\ t # op.elect /\ ~settled
    BY <1>1, <1>4, <1>9, <2>1, CallIsNone DEF MasterInv, OpInv, SettledInv
  <2>4. OpInv'
    BY <1>1, <1>5, <2>1 DEF OpInv
  <2>5. \A u \in Tablets : WriterInv(u)'
    BY <1>1, <1>4, <1>6, <1>9, <1>10, <2>1, <2>2 DEF WriterInv, Calm
  <2>6. MasterInv' /\ PosInv'
    BY <1>1, <1>3, <1>5, <1>6, <1>9, <2>1, <2>2, <2>3 DEF MasterInv, PosInv, Calm
  <2>7. HasMost(shardMaster)'
    BY <1>1, <1>3, <1>7, <2>2 DEF Calm, HasMost
  <2>8. LogInv' /\ SettledInv'
    BY <1>1, <1>9, <2>3, <2>7 DEF LogInv, SettledInv
  <2>9. LeftInv'
    BY <1>1, <1>3, <1>5, <1>6, <1>9, <2>1 DEF LeftInv
  <2>10. DoneFollowing'
    <3> SUFFICES ASSUME ~op'.err, NEW u \in op.map \ ({op.elect} \cup (op.left \ {t}))
                 PROVE  rpcs'[u] = NoCall /\ db[u].source = op.elect
      BY <1>1, <1>5 DEF DoneFollowing
    <3>1. CASE u = t
      BY <1>1, <1>5, <1>6, <1>9, <2>1, <3>1 DEF LeftInv
    <3>2. CASE u # t
      BY <1>3, <1>5, <1>6, <1>9, <2>1, <3>2 DEF DoneFollowing
    <3> QED BY <3>1, <3>2
  <2> QED BY <2>4, <2>5, <2>6, <2>8, <2>9, <2>10 DEF Undoubted
<1> QED BY <1>1, <1>7, <1>8, <1>11, <1>12 DEF ReparentInv

LEMMA ReparentStep ==
  ASSUME ReparentInv, [ReparentNext]_reparentVars
  PROVE  ReparentInv'
<1>1. CASE UNCHANGED reparentVars
  BY <1>1, SameKeeps DEF reparentVars
<1>2. ASSUME NEW t \in Tablets, CommitWrite(t) \/ Replicate(t) \/ Crash(t)
      PROVE  ReparentInv'
  BY <1>2, CommitWriteKeeps, ReplicateKeeps, CrashKeeps
<1>3. ASSUME NEW t \in Tablets, Refresh(t)
      PROVE  ReparentInv'
  BY <1>3, SameKeeps DEF Refresh
<1>4. ASSUME NEW t \in Tablets, Handler(t)
      PROVE  ReparentInv'
  <2>1. UNCHANGED <<tablets, shardMaster, op, dead, written, reparents, forgone, settled>>
    BY <1>4 DEF Handler, DemoteServing, DemoteReadOnly, DemotePosition, UndoDemoteMaster, StopReplication,
                CatchUp, PromoteSlave, PromoteType, PromoteRefresh, SetMaster, SetMasterRow, Working, UnderLock
  <2>2. ReparentData /\ CallInv
    BY DEF ReparentInv
  <2>3. Handled(t)
    BY <1>4, <2>2, HandlerFacts
  <2>4. doubt' \in BOOLEAN /\ (doubt => doubt')
    BY <1>4, <2>2 DEF Handler, DemoteServing, DemoteReadOnly, DemotePosition, UndoDemoteMaster,
      StopReplication, CatchUp, PromoteSlave, PromoteType, PromoteRefresh, SetMaster, SetMasterRow, Working,
      ReparentData
  <2> QED BY <2>1, <2>3, <2>4, HandledKeeps
<1>5. ASSUME NEW t \in Tablets, StartPlanned(t) \/ StartEmergency(t) \/ StopAnswered(t) \/ SetMasterAnswered(t)
      PROVE  ReparentInv'
  BY <1>5, StartPlannedKeeps, StartEmergencyKeeps, StopAnsweredKeeps, SetMasterAnsweredKeeps
<1>6. CASE DemoteAnswered
  <2>1. WranglerStep("demote") /\ UNCHANGED <<tablets, shardMaster, reparents, doubt, forgone>>
    BY <1>6 DEF DemoteAnswered
  <2>2. CASE /\ rpcs[op.old].step = "ok" /\ rpcs[op.elect] = NoCall
             /\ rpcs' = [rpcs EXCEPT ![op.old] = NoCall,
                                     ![op.elect] = Rpc("promote", "wait", rpcs[op.old].arg)]
             /\ op' = [op EXCEPT !.step = "promote"] /\ UNCHANGED settled
    BY <2>1, <2>2, DemotedKeeps
  <2>3. CASE rpcs' = Dropped(rpcs, op.old) /\ Return(FALSE)
    BY <2>1, <2>3, DemoteFailsKeeps
  <2>4. CASE /\ rpcs[op.old].step = "ok" /\ rpcs[op.elect] # NoCall
             /\ rpcs' = [rpcs EXCEPT ![op.old] = Rpc("undo", "run", {})]
             /\ op' = [op EXCEPT !.step = "undo"] /\ UNCHANGED settled
    BY <2>1, <2>4, NotAskedKeeps
  <2> QED BY <1>6, <2>2, <2>3, <2>4 DEF DemoteAnswered
<1>7. CASE Elect
  <2>1. WranglerStep("stop") /\ op.left = {} /\ UNCHANGED <<tablets, shardMaster, reparents>>
    BY <1>7 DEF Elect
  <2>2. CASE /\ Ahead /\ rpcs[op.elect] = NoCall
             /\ op' = [op EXCEPT !.step = "promote"]
             /\ rpcs' = [rpcs EXCEPT ![op.elect] = Rpc("promote", "promote", {})]
             /\ doubt' = (doubt \/ op.old \notin dead)
             /\ forgone' = forgone \cup ((UNION {GtidSet(t) : t \in Tablets})
                                         \ (UNION {op.status[t].pos : t \in Answered}))
             /\ UNCHANGED settled
    BY <2>1, <2>2, ElectedKeeps
  <2>3. CASE Return(FALSE) /\ UNCHANGED <<rpcs, doubt, forgone>>
    BY <2>1, <2>3, ElectFailsKeeps
  <2> QED BY <1>7, <2>2, <2>3 DEF Elect
<1>8. CASE UndoAnswered
  BY <1>8, DemoteFailsKeeps DEF UndoAnswered
<1>9. CASE PromoteFails \/ PromoteAnswered
  BY <1>9, PromoteFailsKeeps, PromoteAnsweredKeeps
<1>10. CASE Journal \/ JournalFails \/ UpdateRecord \/ Reparented
  BY <1>10, JournalKeeps, JournalFailsKeeps, UpdateRecordKeeps, ReparentedKeeps
<1> QED BY <1>1, <1>2, <1>3, <1>4, <1>5, <1>6, <1>7, <1>8, <1>9, <1>10 DEF ReparentNext

(* The invariant of the reparents: what each call has come to, who may     *)
(* take writes at each step, and who has every transaction there is.       *)
THEOREM ReparentInvariant == ReparentSpec => []ReparentInv
<1>1. ReparentInit => ReparentInv
  BY ReparentStarts
<1>2. ReparentInv /\ [ReparentNext]_reparentVars => ReparentInv'
  BY ReparentStep
<1> QED BY <1>1, <1>2, PTL DEF ReparentSpec

LEMMA ReparentInvAgrees == ReparentInv => ReparentAgrees
<1> SUFFICES ASSUME ReparentInv PROVE ReparentAgrees
  OBVIOUS
<1>1. CASE doubt
  BY <1>1 DEF ReparentAgrees, OneWriter, NothingLost, FollowersAgree
<1>2. CASE ~doubt
  <2>1. OpInv /\ (\A t \in Tablets : WriterInv(t)) /\ MasterInv /\ LogInv /\ SettledInv
    BY <1>2 DEF ReparentInv, Undoubted
  <2>2. ReparentData /\ WriteInv
    BY DEF ReparentInv
  <2> DEFINE leader == IF Leading THEN op.elect ELSE shardMaster
  <2>3. WritableMasters \subseteq {leader}
    <3> SUFFICES ASSUME NEW t \in Tablets, t \notin dead, ~db[t].ro PROVE t = leader
      BY DEF WritableMasters
    <3>1. CASE Leading
      BY <2>1, <3>1 DEF WriterInv, MasterInv, OpInv, Leading
    <3>2. CASE ~Leading
      BY <2>1, <3>2 DEF WriterInv
    <3> QED BY <3>1, <3>2
  <2>4. OneWriter
    <3>1. IsFiniteSet({leader}) /\ Cardinality({leader}) = 1
      BY FS_Singleton
    <3> HIDE DEF leader
    <3>2. Cardinality(WritableMasters) <= Cardinality({leader})
      BY <2>3, <3>1, FS_Subset
    <3> QED BY <3>1, <3>2 DEF OneWriter
  <2>5. ASSUME NEW t \in WritableMasters PROVE 1..written \ forgone \subseteq GtidSet(t)
    <3>1. t \in Tablets /\ t \notin dead /\ ~db[t].ro /\ t = leader
      BY <2>3 DEF WritableMasters
    <3>2. HasMost(t)
      <4>1. CASE Leading
        BY <2>1, <3>1, <4>1 DEF LogInv, Electable, Promoted, Leading, MasterInv
      <4>2. CASE ~Leading
        BY <2>1, <3>1, <4>2 DEF LogInv, Promoted, Leading
      <4> QED BY <4>1, <4>2
    <3> SUFFICES ASSUME NEW n \in 1..written, n \notin forgone PROVE n \in GtidSet(t)
      OBVIOUS
    <3>3. PICK u \in Tablets : n \in GtidSet(u)
      BY <2>2 DEF WriteInv
    <3> QED BY <3>2, <3>3 DEF HasMost
  <2>6. FollowersAgree
    <3> SUFFICES ASSUME settled
                 PROVE  /\ WritableMasters \subseteq {shardMaster} /\ ~db[shardMaster].ro
                        /\ \A t \in tablets \ (dead \cup {shardMaster}) :
                             /\ db[t].source = shardMaster
                             /\ GtidSet(t) \ forgone \subseteq GtidSet(shardMaster)
      BY DEF FollowersAgree
    <3>1. op.step = "idle" /\ ~Leading /\ ~Promoted
      BY <2>1 DEF SettledInv, Leading, Promoted
    <3>2. tablets \subseteq Tablets
      BY <2>2 DEF ReparentData
    <3> QED BY <2>1, <2>3, <3>1, <3>2 DEF SettledInv, LogInv, HasMost
  <2> QED BY <2>4, <2>5, <2>6 DEF ReparentAgrees, NothingLost
<1> QED BY <1>1, <1>2

(* Whatever fails or is given up in PlannedReparentShard and               *)
(* EmergencyReparentShard, as long as no promotion is in doubt at most one *)
(* tablet takes writes, it has every acknowledged one that an answering    *)
(* replica had, and after a success the others follow the master of the    *)
(* shard record: for every number of tablets, reparents and crashes.       *)
THEOREM ReparentsAgree == ReparentSpec => []ReparentAgrees
<1>1. ReparentInv => ReparentAgrees
  BY ReparentInvAgrees
<1> QED BY <1>1, ReparentInvariant, PTL
=============================================================================
