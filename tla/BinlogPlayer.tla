---------------------------- MODULE BinlogPlayer ----------------------------
(***************************************************************************)
(* The statement-based player (vt/binlog/binlogplayer) and the controller  *)
(* that runs it.  Each transaction of the source is executed on the target *)
(* together with the update of the position in _vt.vreplication, which is  *)
(* where the next player starts.  A deadlock makes it execute a            *)
(* transaction again, any other error ends it and the controller starts    *)
(* another one.  Position p is the one after p transactions.               *)
(***************************************************************************)
EXTENDS Naturals

CONSTANTS
  Statements,    \* how many statements each transaction of the source has
  MaxTxs,        \* how many transactions the source executes
  StopPositions  \* what stop_pos may be, 0 for none

ASSUME BinlogPlayerAssumption ==
  Statements \in Nat /\ MaxTxs \in Nat /\ StopPositions \subseteq Nat

VARIABLES
  stopPosition, \* stop_pos of the stream
  executed,     \* how many transactions the source has executed
  applied,      \* applied[t][s]: how often statement s of t was committed
  savedPos,     \* pos of _vt.vreplication
  blpState,     \* state of _vt.vreplication
  blp,          \* where the controller's goroutine is
  position,     \* blp.position
  replayed      \* how often each statement was executed in the transaction

blpTargetVars == <<applied, savedPos, blpState>>
binlogPlayerVars ==
  <<stopPosition, executed, blpTargetVars, blp, position, replayed>>

BlpPlaces == {"off", "start", "settings", "recv", "process", "commit",
              "stopping", "error", "retry"}

Nothing == [s \in 1..Statements |-> 0]

BinlogPlayerTypeOK ==
  /\ stopPosition \in StopPositions
  /\ {executed, savedPos, position} \subseteq 0..MaxTxs
  /\ applied \in [1..MaxTxs -> [1..Statements -> Nat]]
  /\ blpState \in {"Running", "Error", "Stopped"}
  /\ blp \in BlpPlaces
  /\ replayed \in [1..Statements -> Nat]

BinlogPlayerInit ==
  /\ stopPosition \in StopPositions
  /\ executed = 0
  /\ applied = [t \in 1..MaxTxs |-> Nothing]
  /\ savedPos = 0 /\ blpState = "Running"
  /\ blp = "start" /\ position = 0
  /\ replayed = Nothing

SourceExecutesTx ==
  /\ executed < MaxTxs
  /\ executed' = executed + 1
  /\ UNCHANGED <<stopPosition, blpTargetVars, blp, position, replayed>>

GotoBlp(place) ==
  blp' = place /\ UNCHANGED <<stopPosition, executed>>

\* SetVReplicationState, whose error is only logged.
SetState(s) == blpState' \in {s, blpState} /\ UNCHANGED <<applied, savedPos>>

ApplyBinlogEvents ==
  /\ blp = "start"
  /\ GotoBlp("settings") /\ SetState("Running")
  /\ UNCHANGED <<position, replayed>>

\* Faulty variant: a player goes on from the position in memory.
ReadSettingsOnce ==
  /\ blp = "settings"
  /\ stopPosition # 0 => position < stopPosition
  /\ GotoBlp("recv")
  /\ UNCHANGED <<blpTargetVars, position, replayed>>

\* The settings are read again by every player.
ReadSettings ==
  /\ blp = "settings"
  /\ position' = savedPos
  /\ \/ /\ stopPosition # 0 /\ savedPos >= stopPosition
        /\ GotoBlp("off") /\ SetState("Stopped")
     \/ /\ ~(stopPosition # 0 /\ savedPos >= stopPosition)
        /\ GotoBlp("recv") /\ UNCHANGED blpTargetVars
  /\ UNCHANGED replayed

\* Faulty variant: the test of the end is off by one.
RecvBeyond ==
  /\ blp = "recv" /\ position <= executed
  /\ GotoBlp("process") /\ replayed' = Nothing
  /\ UNCHANGED <<blpTargetVars, position>>

\* The next transaction arrives, and one is begun for it.
Recv ==
  /\ blp = "recv" /\ position < executed
  /\ GotoBlp("process") /\ replayed' = Nothing
  /\ UNCHANGED <<blpTargetVars, position>>

Replayed == {s \in 1..Statements : replayed[s] # 0}

ExecStatement ==
  /\ blp = "process"
  /\ \E s \in 1..Statements :
       /\ Replayed = 1..(s - 1)
       /\ replayed' = [replayed EXCEPT ![s] = @ + 1]
  /\ GotoBlp("process")
  /\ UNCHANGED <<blpTargetVars, position>>

\* A deadlock: the transaction is rolled back, and executed again.
Deadlock ==
  /\ blp = "process"
  /\ replayed' = Nothing
  /\ GotoBlp("process")
  /\ UNCHANGED <<blpTargetVars, position>>

\* writeRecoveryPosition, still in the transaction.
WriteRecoveryPosition ==
  /\ blp = "process" /\ Replayed = 1..Statements
  /\ position' = position + 1
  /\ GotoBlp("commit")
  /\ UNCHANGED <<blpTargetVars, replayed>>

\* Faulty variant: the player stops after the stop position, not at it.
CommitTxPast ==
  /\ blp = "commit"
  /\ applied' = [applied EXCEPT ![position] =
                   [s \in 1..Statements |-> @[s] + replayed[s]]]
  /\ savedPos' = position /\ replayed' = Nothing
  /\ GotoBlp(IF stopPosition # 0 /\ position > stopPosition
                THEN "stopping" ELSE "recv")
  /\ UNCHANGED <<blpState, position>>

\* The commit, whose reply may be lost.
CommitTx ==
  /\ blp = "commit"
  /\ applied' = [applied EXCEPT ![position] =
                   [s \in 1..Statements |-> @[s] + replayed[s]]]
  /\ savedPos' = position /\ replayed' = Nothing
  /\ \/ GotoBlp("error")
     \/ GotoBlp(IF stopPosition # 0 /\ position >= stopPosition
                  THEN "stopping" ELSE "recv")
  /\ UNCHANGED <<blpState, position>>

ReachedStop ==
  /\ blp = "stopping"
  /\ GotoBlp("off") /\ SetState("Stopped")
  /\ UNCHANGED <<position, replayed>>

\* A query or the stream fails; what was executed is rolled back.
BlpFails ==
  /\ blp \in {"settings", "recv", "process", "commit"}
  /\ GotoBlp("error") /\ replayed' = Nothing
  /\ UNCHANGED <<blpTargetVars, position>>

WriteError ==
  /\ blp = "error"
  /\ GotoBlp("retry") /\ SetState("Error")
  /\ UNCHANGED <<position, replayed>>

RetryBlp ==
  /\ blp = "retry"
  /\ GotoBlp("start")
  /\ UNCHANGED <<blpTargetVars, position, replayed>>

\* The engine closes or the process crashes; the controller is gone.
StopBlp ==
  /\ blp # "off"
  /\ GotoBlp("off") /\ replayed' = Nothing
  /\ UNCHANGED <<blpTargetVars, position>>

\* The engine opens.
StartBlp ==
  /\ blp = "off" /\ blpState # "Stopped"
  /\ GotoBlp("start")
  /\ UNCHANGED <<blpTargetVars, position, replayed>>

\* Exec: the stream is stopped or started by an operator.
ExecState(s) ==
  /\ s # blpState /\ blpState' = s
  /\ GotoBlp(IF s = "Stopped" THEN "off" ELSE "start")
  /\ replayed' = Nothing
  /\ UNCHANGED <<applied, savedPos, position>>

BinlogPlayerNext ==
  \/ SourceExecutesTx \/ ApplyBinlogEvents \/ ReadSettings \/ Recv
  \/ ExecStatement \/ Deadlock \/ WriteRecoveryPosition \/ CommitTx
  \/ ReachedStop \/ BlpFails \/ WriteError \/ RetryBlp \/ StopBlp \/ StartBlp
  \/ \E s \in {"Running", "Stopped"} : ExecState(s)

BinlogPlayerSpec ==
  BinlogPlayerInit /\ [][BinlogPlayerNext]_binlogPlayerVars

-----------------------------------------------------------------------------
(* Properties.                                                             *)

\* Whatever fails and whenever the player is restarted, every statement of a
\* transaction up to the saved position was executed once, and no other: the
\* position is saved with the transaction, and read by every new player.
AppliedOnce ==
  \A t \in 1..MaxTxs, s \in 1..Statements :
    applied[t][s] = IF t <= savedPos THEN 1 ELSE 0

\* The target is never moved past the stop position, however often the
\* stream is stopped, started and retried around it.
StopPositionHolds == stopPosition # 0 => savedPos <= stopPosition
=============================================================================
