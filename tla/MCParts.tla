------------------------------- MODULE MCParts -------------------------------
(***************************************************************************)
(* The smaller components for TLC.  Each behaviour is one of one part, and *)
(* the variables of the other components stay where they are, in an        *)
(* initial state where nothing is under way.  The parts of MCGate, and     *)
(*   tablet        TabletServer                                            *)
(*   manager       TabletServer without the checker                        *)
(*   engine        TxEngine, called by both controllers at any time        *)
(*   limiter       TxEngine, called by one, with more clients              *)
(*   redo          TxEngine, called by one, with more redo transactions    *)
(*   connpool      ConnPool                                                *)
(*   serializer    TxSerializer                                            *)
(*   messager      Messager from Open to Close                             *)
(*   receivers     Messager without Close, with two receivers, of which    *)
(*                 one leaves and one never postpones                      *)
(*   queue         Messager without Close, with two messages, of which one *)
(*                 is acknowledged, and a receiver that stays              *)
(*   pair          Messager without Close, with two messages that nobody   *)
(*                 acknowledges, and a receiver that stays                 *)
(*   vreplication  VReplication                                            *)
(*   binlog        BinlogPlayer                                            *)
(***************************************************************************)
EXTENDS TabletServer, ConnPool, TxSerializer, Messager, MCVReplication,
        BinlogPlayer, MCGate

CONSTANTS
  Parts,           \* the parts that are checked
  w1, w2, d1, d2,  \* clients and redo transactions
  r1, r2, m1, m2   \* receivers and messages

VARIABLE part

\* Who takes part in it.
Cast ==
  [tablet |-> {w1, Manager, Checker}, manager |-> {w1, d1, Manager},
   engine |-> {d1, Manager, Checker}, limiter |-> {w1, w2, Manager}, redo |-> {d1, d2, Manager},
   messager |-> {r1, m1}, receivers |-> {r1, r2, m1}, queue |-> {r1, m1, m2},
   pair |-> {r1, m1, m2}]

TabletParts == {"tablet", "manager"}
EngineParts == {"engine", "limiter", "redo"}
MessagerParts == {"messager", "receivers", "queue", "pair"}

\* Every component stays within its types, among them the bounds of the
\* message cache and of the limiter.
PartsTypeOK ==
  /\ part \in TabletParts \cup EngineParts => TabletTypeOK
  /\ part = "serializer" => TypeOK
  /\ part \in MessagerParts => MessagerTypeOK
  /\ part = "vreplication" => VReplicationTypeOK
  /\ part = "binlog" => BinlogPlayerTypeOK
  /\ GateTypeOK(part)

\* For the engine alone the tablet is in the middle of a transition.
InTransition ==
  /\ TxEngineInit
  /\ tsState = "Transitioning" /\ tsType = "MASTER"
  /\ thread = [c \in Controllers |-> IF c = Manager THEN "start" ELSE "none"]
  /\ aim = [t \in Clients |-> "REPLICA"] /\ asked = {}

PartsInit ==
  /\ part \in Parts
  /\ IF part \in EngineParts THEN InTransition ELSE TabletInit
  /\ ConnPoolInit /\ Init /\ MessagerInit /\ VReplicationInit /\ BinlogPlayerInit
  /\ GateInit(part)
  /\ part # "serializer" =>
       ~dryRun /\ key = [t \in Transactions |-> CHOOSE k \in Keys : TRUE]
  /\ part \notin MessagerParts => sender = "wait"
  /\ part # "vreplication" =>
       stream = (CHOOSE s \in Streams : TRUE) /\ vpos = 0 /\ vstate = "Stopped"
  /\ part # "binlog" => stopPosition = 0

Tablet ==
  /\ \/ part \in TabletParts /\ TabletNext
     \/ part \in EngineParts /\ EngineAlone /\ UNCHANGED tabletVars
  /\ \A t \in Txs \ Cast[part] : stage'[t] = "new"
  /\ \A c \in Controllers \ Cast[part] : thread'[c] = "none" /\ pc'[c] = "idle"

Messaging ==
  /\ part \in MessagerParts /\ MessagerNext
  /\ \A r \in Receivers \ Cast[part] : recv'[r] \in {"new", "gone"}
  /\ \A m \in Messages \ Cast[part] : work'[m] = "none"
  /\ part # "messager" => closing' = "none"
  /\ part = "receivers" =>
       /\ recv'[r2] # "gone" /\ row'[m1] # "acked"
       /\ recv'[r2] = "new" => work'[m1] = "none"
       /\ work'[r2] # "generate"
  /\ part = "queue" =>
       /\ recv'[r1] # "gone" /\ row'[m2] # "acked"
       /\ recv'[r1] = "new" => work'[m2] = "none"
       /\ row'[m2] = "none" => work'[m1] = "none"
  /\ part = "pair" =>
       /\ recv'[r1] # "gone"
       /\ \A m \in Messages : recv'[r1] = "new" \/ row[m] # "none" => work'[m] # "generate"
       /\ row'[m2] = "none" => work'[m1] = "none"

\* The components that do not take part in a step.
Others ==
  /\ IF part \in TabletParts \cup EngineParts THEN TRUE ELSE UNCHANGED allVars
  /\ IF part = "connpool" THEN TRUE ELSE UNCHANGED connPoolVars
  /\ IF part = "serializer" THEN TRUE ELSE UNCHANGED vars
  /\ IF part \in MessagerParts THEN TRUE ELSE UNCHANGED messagerVars
  /\ IF part = "vreplication" THEN TRUE ELSE UNCHANGED vreplicationVars
  /\ IF part = "binlog" THEN TRUE ELSE UNCHANGED binlogPlayerVars
  /\ OtherGates(part)

PartsNext ==
  /\ UNCHANGED part /\ Others
  /\ \/ Tablet
     \/ part = "connpool" /\ ConnPoolNext
     \/ part = "serializer" /\ Next
     \/ Messaging
     \/ part = "vreplication" /\ VReplicationNext
     \/ part = "binlog" /\ BinlogPlayerNext
     \/ GateNext(part)

partVars == <<part, allVars, connPoolVars, vars, messagerVars, vreplicationVars,
              binlogPlayerVars, gateVars>>

PartsSpec == PartsInit /\ [][PartsNext]_partVars

PartsFairSpec ==
  /\ PartsSpec
  /\ \/ part = "manager" /\ TabletFairness
     \/ part = "connpool" /\ ConnPoolFairness
     \/ part = "serializer" /\ \A t \in Transactions : WF_vars(Send(t)) /\ WF_vars(Unlock(t))
     \/ part \in {"messager", "pair"} /\ MessagerFairness
     \/ part = "vreplication" /\ VReplicationFairness
==============================================================================
