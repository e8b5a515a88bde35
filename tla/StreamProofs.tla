---------------------------- MODULE StreamProofs -----------------------------
(***************************************************************************)
(* The streams of vttablet: the statement-based player, the VReplication   *)
(* stream and the message manager, for every log, stop position, batch and *)
(* cache size, and any number of receivers and messages.                   *)
(***************************************************************************)
EXTENDS BinlogPlayer, VReplication, Messager, FiniteSetTheorems, TLAPS

(* The backends that are tried on a leaf, and the time they may take.      *)
USE ZenonT(10), SMTT(20)

(* The statement-based player.  While it plays it is at the saved          *)
(* position, which is short of the stop position; a transaction that is    *)
(* about to commit is the next one, with each statement executed once.     *)
PlayerTypes ==
  /\ stopPosition \in Nat /\ executed \in 0..MaxTxs
  /\ savedPos \in 0..MaxTxs /\ position \in 0..MaxTxs
  /\ applied \in [1..MaxTxs -> [1..Statements -> Nat]]
  /\ replayed \in [1..Statements -> Nat]

PlayerInv ==
  /\ PlayerTypes /\ AppliedOnce /\ StopPositionHolds
  /\ blp \in {"recv", "process"} =>
       position = savedPos /\ (stopPosition # 0 => savedPos < stopPosition)
  /\ blp = "process" =>
       savedPos < executed /\ \A s \in 1..Statements : replayed[s] \in {0, 1}
  /\ blp = "commit" =>
       /\ position = savedPos + 1 /\ (stopPosition # 0 => position <= stopPosition)
       /\ \A s \in 1..Statements : replayed[s] = 1

(* The player starts with nothing applied.                                 *)
LEMMA PlayerInit == BinlogPlayerInit => PlayerInv
BY BinlogPlayerAssumption, SMT
  DEF BinlogPlayerInit, PlayerInv, PlayerTypes, AppliedOnce, StopPositionHolds, Nothing

(* The steps that leave the target alone.                                  *)
LEMMA PlayerReads ==
  ASSUME PlayerInv, \/ SourceExecutesTx \/ ApplyBinlogEvents \/ ReadSettings \/ Recv
                    \/ ReachedStop \/ BlpFails \/ WriteError \/ RetryBlp \/ StopBlp \/ StartBlp
                    \/ \E s \in {"Running", "Stopped"} : ExecState(s)
  PROVE  PlayerInv'
<1> USE BinlogPlayerAssumption DEF GotoBlp, SetState, blpTargetVars, Nothing
<1>1. UNCHANGED <<stopPosition, applied, savedPos>>
  BY DEF SourceExecutesTx, ApplyBinlogEvents, ReadSettings, Recv, ReachedStop, BlpFails,
    WriteError, RetryBlp, StopBlp, StartBlp, ExecState
<1>2. AppliedOnce' /\ StopPositionHolds'
  BY <1>1 DEF PlayerInv, AppliedOnce, StopPositionHolds
<1>a. PlayerTypes
  BY DEF PlayerInv
<1>b. /\ replayed' \in {replayed, Nothing} /\ position' \in {position, savedPos}
      /\ executed' = executed \/ (executed < MaxTxs /\ executed' = executed + 1)
  BY DEF SourceExecutesTx, ApplyBinlogEvents, ReadSettings, Recv, ReachedStop, BlpFails,
    WriteError, RetryBlp, StopBlp, StartBlp, ExecState
<1>3. PlayerTypes'
  BY <1>1, <1>a, <1>b, SMT DEF PlayerTypes
<1>4. CASE SourceExecutesTx
  BY <1>2, <1>3, <1>4, SMT DEF PlayerInv, PlayerTypes, SourceExecutesTx
<1>5. CASE ReadSettings
  <2>1. position' = savedPos /\ UNCHANGED <<savedPos, stopPosition>>
    BY <1>1, <1>5 DEF ReadSettings
  <2>2. CASE blp' = "off"
    BY <1>2, <1>3, <2>2 DEF PlayerInv
  <2>3. CASE blp' = "recv" /\ ~(stopPosition # 0 /\ savedPos >= stopPosition)
    <3>1. position' = savedPos' /\ (stopPosition' # 0 => savedPos' < stopPosition')
      BY <1>a, <2>1, <2>3, SMT DEF PlayerTypes
    <3> QED BY <1>2, <1>3, <2>3, <3>1 DEF PlayerInv
  <2> QED BY <1>5, <2>2, <2>3 DEF ReadSettings
<1>6. CASE Recv
  BY <1>2, <1>3, <1>6 DEF PlayerInv, PlayerTypes, Recv
<1>7. CASE blp' \in {"off", "start", "settings", "error", "retry"}
  BY <1>2, <1>3, <1>7 DEF PlayerInv
<1> QED BY <1>4, <1>5, <1>6, <1>7
  DEF ApplyBinlogEvents, ReachedStop, BlpFails, WriteError, RetryBlp, StopBlp, StartBlp, ExecState

(* A transaction is executed, perhaps several times, and committed.        *)
LEMMA PlayerPlays ==
  ASSUME PlayerInv, ExecStatement \/ Deadlock \/ WriteRecoveryPosition \/ CommitTx
  PROVE  PlayerInv'
<1> USE BinlogPlayerAssumption DEF GotoBlp, blpTargetVars, Nothing
<1>1. PlayerTypes /\ AppliedOnce /\ StopPositionHolds
  BY DEF PlayerInv
<1>2. CASE ExecStatement
  <2>1. PICK s \in 1..Statements :
          Replayed = 1..(s - 1) /\ replayed' = [replayed EXCEPT ![s] = @ + 1]
    BY <1>2 DEF ExecStatement
  <2>2. replayed[s] = 0
    BY <2>1, SMT DEF Replayed
  <2>3. \A q \in 1..Statements : replayed'[q] \in {0, 1}
    <3>1. \A q \in 1..Statements : replayed[q] \in {0, 1}
      BY <1>2 DEF PlayerInv, ExecStatement
    <3>2. DOMAIN replayed = 1..Statements
      BY <1>1 DEF PlayerTypes
    <3>3. ASSUME NEW q \in 1..Statements  PROVE replayed'[q] = IF q = s THEN 0 + 1 ELSE replayed[q]
      BY <2>1, <2>2, <3>2
    <3> QED BY <3>1, <3>3, SMT
  <2>4. PlayerTypes' /\ AppliedOnce' /\ StopPositionHolds'
    <3>1. replayed' \in [1..Statements -> Nat]
      BY <1>1, <2>1, SMT DEF PlayerTypes
    <3>2. UNCHANGED <<stopPosition, executed, applied, savedPos, position>>
      BY <1>2 DEF ExecStatement
    <3> QED BY <1>1, <3>1, <3>2 DEF PlayerTypes, AppliedOnce, StopPositionHolds
  <2> QED BY <1>2, <2>3, <2>4 DEF PlayerInv, ExecStatement
<1>3. CASE Deadlock
  BY <1>3 DEF PlayerInv, PlayerTypes, AppliedOnce, StopPositionHolds, Deadlock
<1>4. CASE WriteRecoveryPosition
  <2>1. \A s \in 1..Statements : replayed[s] = 1
    BY <1>4 DEF WriteRecoveryPosition, Replayed, PlayerInv
  <2>2. /\ position = savedPos /\ savedPos < executed /\ position' = position + 1
        /\ stopPosition # 0 => savedPos < stopPosition
    BY <1>4 DEF WriteRecoveryPosition, PlayerInv
  <2>3. PlayerTypes' /\ AppliedOnce' /\ StopPositionHolds'
    BY <1>1, <1>4, <2>2, SMT DEF WriteRecoveryPosition, PlayerTypes, AppliedOnce, StopPositionHolds
  <2> QED BY <1>1, <1>4, <2>1, <2>2, <2>3, SMT DEF WriteRecoveryPosition, PlayerInv, PlayerTypes
<1>5. CASE CommitTx
  <2>1. /\ position = savedPos + 1 /\ (stopPosition # 0 => position <= stopPosition)
        /\ \A s \in 1..Statements : replayed[s] = 1
    BY <1>5 DEF CommitTx, PlayerInv
  <2>2. /\ savedPos' = position /\ position' = position /\ UNCHANGED <<stopPosition, executed>>
        /\ replayed' = Nothing /\ position \in 1..MaxTxs
        /\ applied' = [applied EXCEPT ![position] =
                         [s \in 1..Statements |-> applied[position][s] + replayed[s]]]
    BY <1>1, <1>5, <2>1, SMT DEF CommitTx, PlayerTypes
  <2>3. ASSUME NEW t \in 1..MaxTxs, NEW s \in 1..Statements
        PROVE  applied'[t][s] = IF t <= position THEN 1 ELSE 0
    <3>1. applied[t][s] = IF t <= savedPos THEN 1 ELSE 0
      BY <1>1 DEF AppliedOnce
    <3>2. CASE t = position
      <4>1. applied'[t] = [q \in 1..Statements |-> applied[position][q] + replayed[q]]
        BY <1>1, <2>2, <3>2 DEF PlayerTypes
      <4>2. applied'[t][s] = applied[t][s] + replayed[s]
        BY <3>2, <4>1
      <4>3. savedPos \in Nat /\ position \in Nat
        BY <1>1, SMT DEF PlayerTypes
      <4>4. ~(t <= savedPos) /\ t <= position
        BY <2>1, <3>2, <4>3, SMT
      <4>5. applied[t][s] = 0 /\ replayed[s] = 1
        BY <2>1, <3>1, <4>4
      <4> QED BY <4>2, <4>4, <4>5, SMT
    <3>3. CASE t # position
      <4>1. applied'[t] = applied[t]
        BY <1>1, <2>2, <3>3 DEF PlayerTypes
      <4>2. savedPos \in Nat /\ position = savedPos + 1
        BY <1>1, <2>1, SMT DEF PlayerTypes
      <4>3. t <= savedPos <=> t <= position
        BY <3>3, <4>2, SMT
      <4> QED BY <3>1, <4>1, <4>3
    <3> QED BY <3>2, <3>3
  <2>4. AppliedOnce' /\ StopPositionHolds'
    BY <2>1, <2>2, <2>3 DEF AppliedOnce, StopPositionHolds
  <2>5. PlayerTypes'
    <3>1. [s \in 1..Statements |-> applied[position][s] + replayed[s]] \in [1..Statements -> Nat]
      BY <1>1, <2>2, SMT DEF PlayerTypes
    <3>2. applied' \in [1..MaxTxs -> [1..Statements -> Nat]]
      BY <1>1, <2>2, <3>1 DEF PlayerTypes
    <3> QED BY <1>1, <2>2, <3>2 DEF PlayerTypes
  <2> QED BY <1>1, <1>5, <2>2, <2>4, <2>5, SMT DEF CommitTx, PlayerInv, PlayerTypes
<1> QED BY <1>2, <1>3, <1>4, <1>5

(* PlayerInv is an invariant of the statement-based player.                *)
THEOREM PlayerInvariant == BinlogPlayerSpec => []PlayerInv
<1>1. BinlogPlayerInit => PlayerInv
  BY PlayerInit
<1>2. ASSUME PlayerInv, [BinlogPlayerNext]_binlogPlayerVars PROVE PlayerInv'
  <2>1. CASE UNCHANGED binlogPlayerVars
    BY <1>2, <2>1 DEF PlayerInv, PlayerTypes, AppliedOnce, StopPositionHolds, binlogPlayerVars,
      blpTargetVars
  <2> QED BY <1>2, <2>1, PlayerReads, PlayerPlays DEF BinlogPlayerNext
<1> QED BY <1>1, <1>2, PTL DEF BinlogPlayerSpec

(* AppliedOnce: whatever fails, deadlocks or is restarted, every statement *)
(* up to the saved position was committed once, and no other.              *)
THEOREM EveryStatementOnce == BinlogPlayerSpec => []AppliedOnce
<1>1. PlayerInv => AppliedOnce
  BY DEF PlayerInv
<1> QED BY <1>1, PlayerInvariant, PTL

(* StopPositionHolds: the target is never moved past the stop position.    *)
THEOREM NeverPastStop == BinlogPlayerSpec => []StopPositionHolds
<1>1. PlayerInv => StopPositionHolds
  BY DEF PlayerInv
<1> QED BY <1>1, PlayerInvariant, PTL

-----------------------------------------------------------------------------
(* The VReplication stream.                                                *)

StreamTypes ==
  /\ stream \in Streams /\ srcPos \in Nat /\ vpos \in Nat /\ snap \in Nat /\ inTx \in BOOLEAN
  /\ player \in [pos : Nat, idx : Nat, open : BOOLEAN, unsaved : BOOLEAN, behind : BOOLEAN]

(* The player is short of its stop position, or in the transaction that    *)
(* reaches it.                                                             *)
ShortOfStop ==
  Playing /\ PlayUntil # 0 =>
    IF player.open THEN player.pos <= PlayUntil ELSE player.pos < PlayUntil

(* A transaction of dbClient is open between two transactions of the       *)
(* source only when the next one is no DDL.                                *)
MergedBeforeDDL ==
  /\ Playing /\ ~player.open /\ inTx => ~Log[player.pos + 1].ddl
  /\ Playing /\ player.unsaved => ~player.open /\ ~inTx
  /\ at \in {"off", "read", "retry"} => ~inTx

(* What catchup played and did not save begins with no DDL, so the         *)
(* transaction it leaves open is met again before any DDL is.              *)
CatchupDone == IF player.open THEN player.pos - 1 ELSE player.pos
CatchupLeaves ==
  /\ at = "catchup" => /\ vpos <= player.pos
                       /\ player.open \/ inTx => vpos < player.pos
                       /\ vpos < CatchupDone => ~Log[vpos + 1].ddl
  /\ at = "open" /\ inTx => ~Log[vpos + 1].ddl

StreamInv ==
  StreamTypes /\ ShortOfStop /\ DDLOutsideTransaction /\ MergedBeforeDDL /\ CatchupLeaves

(* A stream starts outside of any transaction.                             *)
LEMMA StreamInit == VReplicationInit => StreamInv
<1> SUFFICES ASSUME VReplicationInit PROVE StreamInv
  OBVIOUS
<1>1. StreamTypes
  <2>1. player \in [pos : Nat, idx : Nat, open : BOOLEAN, unsaved : BOOLEAN, behind : BOOLEAN]
    BY DEF VReplicationInit, NewPlayer
  <2>2. stream \in Streams /\ srcPos = 1 /\ (vpos = 0 \/ vpos = 1) /\ snap = 0 /\ inTx = FALSE
    BY DEF VReplicationInit
  <2>3. srcPos \in Nat /\ vpos \in Nat /\ snap \in Nat
    BY <2>2, SMT
  <2>4. inTx \in BOOLEAN
    BY <2>2
  <2> QED BY <2>1, <2>2, <2>3, <2>4 DEF StreamTypes
<1>2. at \in {"off", "read"} /\ inTx = FALSE
  BY DEF VReplicationInit
<1> QED BY <1>1, <1>2 DEF StreamInv, ShortOfStop, DDLOutsideTransaction, MergedBeforeDDL,
    CatchupLeaves, Playing

(* The player's steps.                                                     *)
LEMMA PlayerKeeps ==
  ASSUME StreamInv, PlayStep
  PROVE  StreamInv'
<1> USE DEF Playing, sourceVars, targetVars, txVars
<1>0. /\ UNCHANGED <<stream, srcPos, snap>>
      /\ at' = at => PlayUntil' = PlayUntil
  BY DEF PlayStep, PlayGTID, PlayRow, PlayMerge, PlayEmpty, PlayCommit, PlayIdle, PlayDDL, copyVars,
    PlayUntil
<1>1. PlayUntil \in Nat /\ snap' \in Nat
  BY <1>0, VReplicationAssumption DEF StreamInv, StreamTypes, PlayUntil
<1>2. CASE PlayGTID
  <2>1. /\ player'.pos = player.pos + 1 /\ player'.open /\ ~player'.unsaved /\ ~player.open
        /\ UNCHANGED <<stream, at, vpos, inTx, srcPos>> /\ Playing
    BY <1>2 DEF PlayGTID, StreamInv, StreamTypes
  <2>a. player.pos + 1 \in Nat /\ 0 \in Nat
    BY SMT DEF StreamInv, StreamTypes
  <2>2. StreamTypes'
    BY <1>1, <1>2, <2>a DEF PlayGTID, StreamInv, StreamTypes
  <2>3. ShortOfStop'
    BY <1>0, <1>1, <2>1, SMT DEF StreamInv, StreamTypes, ShortOfStop
  <2>4. DDLOutsideTransaction' /\ MergedBeforeDDL'
    BY <2>1 DEF StreamInv, DDLOutsideTransaction, MergedBeforeDDL
  <2>5. CatchupLeaves'
    BY <2>1, SMT DEF StreamInv, StreamTypes, CatchupLeaves, CatchupDone
  <2> QED BY <2>2, <2>3, <2>4, <2>5 DEF StreamInv
<1>3. CASE PlayRow
  <2>1. /\ player'.pos = player.pos /\ player'.open /\ player.open
        /\ player'.unsaved = player.unsaved /\ ~Log[player.pos].ddl
        /\ UNCHANGED <<stream, at, vpos, srcPos>> /\ inTx' \in BOOLEAN /\ Playing
    BY <1>3 DEF PlayRow, NextIsRow, InOpenTransaction, StreamInv, StreamTypes
  <2>2. StreamTypes'
    BY <1>1, <1>3, <2>1, SMT DEF PlayRow, StreamInv, StreamTypes
  <2>3. ShortOfStop'
    BY <1>0, <2>1 DEF StreamInv, ShortOfStop
  <2>4. DDLOutsideTransaction' /\ MergedBeforeDDL'
    BY <2>1 DEF StreamInv, DDLOutsideTransaction, MergedBeforeDDL
  <2>5. CatchupLeaves'
    BY <2>1 DEF StreamInv, CatchupLeaves, CatchupDone
  <2> QED BY <2>2, <2>3, <2>4, <2>5 DEF StreamInv
<1>4. CASE PlayMerge \/ PlayEmpty
  <2>1. /\ player'.pos = player.pos /\ ~player'.open /\ player.open /\ ~Log[player.pos].ddl
        /\ player.pos # PlayUntil /\ (inTx => ~Log[player.pos + 1].ddl)
        /\ player'.unsaved => ~inTx
        /\ UNCHANGED <<stream, at, vpos, inTx, srcPos>> /\ Playing
    BY <1>4 DEF PlayMerge, PlayEmpty, CommitReached, InOpenTransaction, StreamInv, StreamTypes,
      MergedBeforeDDL
  <2>2. StreamTypes'
    BY <1>1, <1>4 DEF PlayMerge, PlayEmpty, StreamInv, StreamTypes
  <2>3. ShortOfStop'
    BY <1>0, <1>1, <2>1, SMT DEF StreamInv, StreamTypes, ShortOfStop
  <2>4. DDLOutsideTransaction' /\ MergedBeforeDDL'
    BY <2>1 DEF StreamInv, DDLOutsideTransaction, MergedBeforeDDL
  <2>5. CatchupLeaves'
    BY <2>1, SMT DEF StreamInv, StreamTypes, CatchupLeaves, CatchupDone
  <2> QED BY <2>2, <2>3, <2>4, <2>5 DEF StreamInv
<1>5. CASE PlayCommit \/ PlayDDL
  <2>1. /\ player'.pos = player.pos /\ ~player'.open /\ ~inTx'
        /\ vpos' = player.pos /\ UNCHANGED <<stream, srcPos>> /\ Playing
        /\ (at' = at /\ ~Reached) \/ at' \in {"off", "copy", "retry", "open"}
    <3>1. CASE PlayCommit
      BY <3>1 DEF PlayCommit, CommitReached, InOpenTransaction, UpdatePos, CommitAt, PlayReturns,
        CatchupReturns, StreamInv, StreamTypes
    <3>2. CASE PlayDDL
      BY <3>2 DEF PlayDDL, PlayReturns, CatchupReturns, StreamInv, StreamTypes
    <3> QED BY <1>5, <3>1, <3>2
  <2>2. StreamTypes'
    <3>1. player' \in [pos : Nat, idx : Nat, open : BOOLEAN, unsaved : BOOLEAN, behind : BOOLEAN]
      BY <1>5 DEF PlayCommit, PlayDDL, StreamInv, StreamTypes
    <3>2. player.pos \in Nat /\ inTx' = FALSE
      BY <1>5 DEF PlayCommit, PlayDDL, CommitAt, StreamInv, StreamTypes
    <3> QED BY <1>1, <2>1, <3>1, <3>2 DEF StreamInv, StreamTypes
  <2>3. ShortOfStop'
    BY <1>0, <1>1, <1>5, <2>1, SMT DEF StreamInv, StreamTypes, ShortOfStop, Reached, PlayCommit,
      PlayDDL, CommitReached, InOpenTransaction
  <2>4. DDLOutsideTransaction' /\ MergedBeforeDDL' /\ CatchupLeaves'
    BY <2>1, SMT DEF StreamInv, StreamTypes, DDLOutsideTransaction, MergedBeforeDDL, CatchupLeaves,
      CatchupDone
  <2> QED BY <2>2, <2>3, <2>4 DEF StreamInv
<1>6. CASE PlayIdle
  <2>1. /\ player'.pos = player.pos /\ player'.open = player.open /\ ~player'.unsaved
        /\ ~player.open /\ ~inTx /\ vpos' = player.pos
        /\ UNCHANGED <<stream, at, inTx, srcPos>> /\ Playing
    BY <1>6 DEF PlayIdle, UpdatePos, StreamInv, StreamTypes, MergedBeforeDDL
  <2>2. StreamTypes'
    BY <1>1, <1>6, <2>1 DEF PlayIdle, StreamInv, StreamTypes
  <2>3. ShortOfStop'
    BY <1>0, <2>1 DEF StreamInv, ShortOfStop
  <2>4. DDLOutsideTransaction' /\ MergedBeforeDDL' /\ CatchupLeaves'
    BY <2>1, SMT DEF StreamInv, StreamTypes, DDLOutsideTransaction, MergedBeforeDDL, CatchupLeaves,
      CatchupDone
  <2> QED BY <2>2, <2>3, <2>4 DEF StreamInv
<1> QED BY <1>2, <1>3, <1>4, <1>5, <1>6 DEF PlayStep

(* A step that leaves no pass of the player or the copier running.         *)
LEMMA StreamRests ==
  ASSUME StreamInv, StreamTypes', at' \in {"off", "read", "retry", "copy"},
         at' # "copy" => ~inTx'
  PROVE  StreamInv'
BY DEF StreamInv, ShortOfStop, DDLOutsideTransaction, MergedBeforeDDL, CatchupLeaves, Playing

(* The copier's steps.                                                     *)
LEMMA CopierKeeps ==
  ASSUME StreamInv, CopyStep
  PROVE  StreamInv'
<1> USE DEF sourceVars, targetVars, txVars, copyVars, Rollback
<1>1. stream.stopPos \in Nat /\ snap' \in Nat /\ (at # "open" => snap' = snap)
  BY VReplicationAssumption DEF CopyStep, InitTables, StartPlaying, CopyNext, StillBehind, CaughtUp,
    OpenRows, CopyBatch, CopyDone, StreamInv, StreamTypes
<1>2. NewPlayer(vpos) \in [pos : Nat, idx : Nat, open : BOOLEAN, unsaved : BOOLEAN, behind : BOOLEAN]
  BY DEF NewPlayer, StreamInv, StreamTypes
<1>3. CASE InitTables \/ CopyBatch \/ CopyDone
  <2>1. StreamTypes'
    BY <1>1, <1>3 DEF InitTables, CopyBatch, CopyDone, StreamInv, StreamTypes
  <2>2. at' \in {"read", "retry", "copy"} /\ (at' # "copy" => ~inTx')
    BY <1>3, SMT DEF InitTables, CopyBatch, CopyDone, StreamInv, MergedBeforeDDL
  <2> QED BY <2>1, <2>2, StreamRests
<1>4. CASE StartPlaying \/ CopyNext
  <2>1. /\ ~inTx /\ UNCHANGED <<stream, srcPos, vpos, inTx>>
        /\ player' = player \/ player' = NewPlayer(vpos)
        /\ \/ at' \in {"off", "retry"}
           \/ at' = "play" /\ player' = NewPlayer(vpos) /\ ~AlreadyStopped
           \/ at' = "catchup" /\ player' = NewPlayer(vpos) /\ ~AlreadyStopped
           \/ at' = "open" /\ player' = NewPlayer(vpos)
    BY <1>4 DEF StartPlaying, CopyNext, StreamInv, MergedBeforeDDL
  <2>2. StreamTypes'
    BY <1>1, <1>2, <2>1 DEF StreamInv, StreamTypes
  <2>3. CASE at' \in {"off", "retry"}
    BY <2>1, <2>2, <2>3, StreamRests
  <2>4. CASE at' \in {"play", "open", "catchup"}
    <3>1. player' = NewPlayer(vpos) /\ (at' # "open" => ~AlreadyStopped)
      BY <2>1, <2>4
    <3>2. ShortOfStop'
      BY <1>1, <2>1, <2>2, <3>1, SMT
      DEF ShortOfStop, AlreadyStopped, NewPlayer, StreamTypes, Playing, PlayUntil
    <3>3. DDLOutsideTransaction' /\ MergedBeforeDDL' /\ CatchupLeaves'
      BY <2>1, <2>2, <3>1, SMT DEF DDLOutsideTransaction, MergedBeforeDDL, CatchupLeaves, CatchupDone,
        NewPlayer, StreamTypes
    <3> QED BY <2>2, <3>2, <3>3 DEF StreamInv
  <2> QED BY <2>1, <2>3, <2>4
<1>5. CASE StillBehind
  <2>1. /\ player'.pos = player.pos /\ player'.open = player.open
        /\ player'.unsaved = player.unsaved /\ at = "catchup"
        /\ UNCHANGED <<stream, srcPos, vpos, inTx, at>>
    BY <1>5 DEF StillBehind, StreamInv, StreamTypes
  <2>2. StreamTypes'
    BY <1>1, <1>5 DEF StillBehind, StreamInv, StreamTypes
  <2>3. PlayUntil' = PlayUntil
    BY <2>1 DEF PlayUntil
  <2> QED BY <2>1, <2>2, <2>3 DEF StreamInv, ShortOfStop, DDLOutsideTransaction, MergedBeforeDDL,
      CatchupLeaves, CatchupDone, Playing
<1>6. CASE CaughtUp
  <2>1. /\ at = "catchup" /\ at' = "open" /\ UNCHANGED <<stream, srcPos, vpos, player>>
        /\ inTx' = inTx \/ inTx' = FALSE
    BY <1>6 DEF CaughtUp
  <2>2. StreamTypes'
    BY <1>1, <2>1 DEF StreamInv, StreamTypes
  <2>3. inTx => ~Log[vpos + 1].ddl
    <3>1. CASE vpos < CatchupDone
      BY <2>1, <3>1 DEF StreamInv, CatchupLeaves
    <3>2. CASE inTx /\ ~(vpos < CatchupDone)
      <4>1. player.open /\ vpos + 1 = player.pos
        BY <2>1, <3>2, SMT DEF StreamInv, StreamTypes, CatchupLeaves, CatchupDone
      <4> QED BY <2>1, <3>2, <4>1 DEF StreamInv, DDLOutsideTransaction, Playing
    <3> QED BY <3>1, <3>2
  <2> QED BY <2>1, <2>2, <2>3, SMT DEF StreamInv, ShortOfStop, DDLOutsideTransaction, MergedBeforeDDL,
      CatchupLeaves, Playing
<1>7. CASE OpenRows
  <2>1. /\ at = "open" /\ UNCHANGED <<stream, srcPos, inTx>> /\ player' = NewPlayer(vpos)
        /\ vpos' \in Nat /\ (at' = "copy" \/ (at' = "ff" /\ vpos' = vpos /\ vpos < snap'))
    BY <1>7 DEF OpenRows, StreamInv, StreamTypes
  <2>2. StreamTypes'
    BY <1>1, <1>2, <2>1 DEF StreamInv, StreamTypes
  <2>3. player'.pos = vpos /\ ~player'.open /\ ~player'.unsaved
    BY <2>1 DEF NewPlayer
  <2>4. ShortOfStop'
    BY <2>1, <2>3 DEF ShortOfStop, Playing, PlayUntil
  <2> QED BY <2>1, <2>2, <2>3, <2>4 DEF StreamInv, DDLOutsideTransaction, MergedBeforeDDL,
      CatchupLeaves, Playing
<1> QED BY <1>3, <1>4, <1>5, <1>6, <1>7 DEF CopyStep

(* StreamInv is an invariant of a stream, whatever is created, executed by *)
(* the source, failed, stopped or crashed.                                 *)
THEOREM StreamInvariant == VReplicationSpec => []StreamInv
<1>1. VReplicationInit => StreamInv
  BY StreamInit
<1>2. ASSUME StreamInv, [VReplicationNext]_vreplicationVars PROVE StreamInv'
  <2> USE DEF sourceVars, targetVars, txVars, copyVars
  <2>1. CASE SourceExecutes \/ UNCHANGED vreplicationVars
    <3>1. UNCHANGED <<stream, vpos, snap, inTx, at, player>> /\ srcPos' \in {srcPos, srcPos + 1}
      BY <2>1 DEF SourceExecutes, vreplicationVars
    <3> QED BY <1>2, <3>1, SMT DEF StreamInv, StreamTypes, ShortOfStop, DDLOutsideTransaction,
        MergedBeforeDDL, CatchupLeaves, CatchupDone, Playing, PlayUntil
  <2>2. CASE Refuse \/ Retry \/ NewController \/ Disturbance
    <3>1. /\ UNCHANGED <<stream, srcPos, vpos, snap, player>>
          /\ at' \in {"off", "read", "retry"} /\ inTx' = FALSE
      BY <1>2, <2>2 DEF Refuse, Retry, NewController, Disturbance, Fail, Errs, Rollback,
        CopyTimeout, StopController, ExecUpdate, StreamInv, StreamTypes, MergedBeforeDDL
    <3>2. StreamTypes'
      BY <1>2, <3>1 DEF StreamInv, StreamTypes
    <3> QED BY <1>2, <3>1, <3>2, StreamRests
  <2> QED BY <1>2, <2>1, <2>2, PlayerKeeps, CopierKeeps DEF VReplicationNext
<1> QED BY <1>1, <1>2, PTL DEF VReplicationSpec

(* DDLOutsideTransaction: the state applyEvent calls unexpected is never   *)
(* reached, with merged transactions and a catchup left in the middle of   *)
(* one included.                                                           *)
THEOREM DDLNeverInTransaction == VReplicationSpec => []DDLOutsideTransaction
<1>1. StreamInv => DDLOutsideTransaction
  BY DEF StreamInv
<1> QED BY <1>1, StreamInvariant, PTL

(* The exit for a position beyond the stop position, which applyEvent      *)
(* calls unreachable, is: a player comes to its stop position at most, and *)
(* to no other transaction after it.                                       *)
THEOREM StopNotPassed ==
  VReplicationSpec =>
    [](Playing /\ PlayUntil # 0 =>
         IF player.open THEN player.pos <= PlayUntil ELSE player.pos < PlayUntil)
<1>1. StreamInv =>
        (Playing /\ PlayUntil # 0 =>
           IF player.open THEN player.pos <= PlayUntil ELSE player.pos < PlayUntil)
  BY DEF StreamInv, ShortOfStop
<1> QED BY <1>1, StreamInvariant, PTL

(* StopIsRespected: the player saves no position past its stop position,   *)
(* or past the snapshot of a copy.                                         *)
THEOREM StreamStops == VReplicationSpec => StopIsRespected
<1>1. ASSUME StreamInv, [VReplicationNext]_vreplicationVars
      PROVE  [Playing /\ PlayUntil # 0 /\ vpos' # vpos => vpos' <= PlayUntil]_vreplicationVars
  <2> USE DEF sourceVars, targetVars, txVars, copyVars
  <2>1. PlayUntil \in Nat
    BY <1>1, VReplicationAssumption DEF StreamInv, StreamTypes, PlayUntil
  <2>2. CASE PlayStep
    <3>1. vpos' \in {vpos, player.pos}
      BY <2>2 DEF PlayStep, PlayGTID, PlayRow, PlayMerge, PlayEmpty, PlayCommit, PlayIdle, PlayDDL,
        UpdatePos
    <3>2. player.pos \in Nat
      BY <1>1 DEF StreamInv, StreamTypes
    <3>3. Playing /\ PlayUntil # 0 => player.pos <= PlayUntil
      BY <1>1, <2>1, <3>2, SMT DEF StreamInv, ShortOfStop
    <3> QED BY <3>1, <3>3
  <2>3. CASE ~PlayStep
    <3>1. Playing => vpos' = vpos
      BY <1>1, <2>3 DEF VReplicationNext, SourceExecutes, CopyStep, Refuse, Retry, NewController,
        Disturbance, Fail, Errs, CopyTimeout, StopController, ExecUpdate, InitTables, StartPlaying,
        CopyNext, StillBehind, CaughtUp, OpenRows, CopyBatch, CopyDone, vreplicationVars, Playing
    <3> QED BY <3>1
  <2> QED BY <2>2, <2>3
<1> QED BY <1>1, StreamInvariant, PTL DEF VReplicationSpec, StopIsRespected

-----------------------------------------------------------------------------
(* What a VReplication stream has written: the tables of the target.       *)

LEMMA SeqFacts ==
  ASSUME NEW S, NEW s \in Seq(S)
  PROVE  /\ Len(s) \in Nat /\ DOMAIN s = 1..Len(s)
         /\ \A i \in 1..Len(s) : s[i] \in S
BY SMT

(* The row changes of a transaction.                                       *)
LEMMA LogFacts ==
  ASSUME NEW p \in DOMAIN Log
  PROVE  Log[p].rows \in Seq([table : CopiedTables, pk : PKs, value : Nat])
<1> DEFINE S == [ddl : BOOLEAN, rows : Seq([table : CopiedTables, pk : PKs, value : Nat])]
<1>1. Log \in Seq(S)
  BY VReplicationAssumption DEF PKs
<1> HIDE DEF S
<1>2. Log[p] \in S
  BY <1>1, SeqFacts
<1> QED BY <1>2 DEF S

(* What VReplicationAssumption says of a place in the log.                 *)
LEMMA ChangeFacts ==
  ASSUME NEW x \in ChangePlaces
  PROVE  /\ x[1] \in 1..Len(Log) /\ x[2] \in 1..Len(Log[x[1]].rows) /\ x = <<x[1], x[2]>>
         /\ x[1] \in Nat /\ x[2] \in Nat /\ Len(Log[x[1]].rows) \in Nat
         /\ Change(x) \in [table : CopiedTables, pk : PKs, value : Nat]
<1>1. PICK p \in DOMAIN Log : x \in {p} \X DOMAIN Log[p].rows
  BY DEF ChangePlaces
<1>2. x[1] = p /\ x[2] \in DOMAIN Log[p].rows /\ x = <<x[1], x[2]>>
  BY <1>1, SMT
<1>3. DOMAIN Log = 1..Len(Log) /\ Len(Log) \in Nat
  BY VReplicationAssumption, SMT
<1>4. Log[p].rows \in Seq([table : CopiedTables, pk : PKs, value : Nat])
  BY <1>1, LogFacts
<1>5. Len(Log[p].rows) \in Nat /\ DOMAIN Log[p].rows = 1..Len(Log[p].rows)
  BY <1>4, SeqFacts
<1>6. Log[p].rows[x[2]] \in [table : CopiedTables, pk : PKs, value : Nat]
  BY <1>2, <1>4, <1>5, SeqFacts
<1>7. p \in Nat /\ x[2] \in Nat
  BY <1>1, <1>2, <1>3, <1>5, SMT
<1> QED BY <1>1, <1>2, <1>3, <1>5, <1>6, <1>7 DEF Change

LEMMA RowsFacts ==
  ASSUME NEW p \in 1..Len(Log)
  PROVE  /\ Len(Log) \in Nat /\ Len(Log[p].rows) \in Nat
         /\ \A i \in 1..Len(Log[p].rows) : <<p, i>> \in ChangePlaces
<1>1. DOMAIN Log = 1..Len(Log) /\ Len(Log) \in Nat
  BY VReplicationAssumption, SMT
<1>2. Log[p].rows \in Seq([table : CopiedTables, pk : PKs, value : Nat])
  BY <1>1, LogFacts
<1>3. Len(Log[p].rows) \in Nat /\ DOMAIN Log[p].rows = 1..Len(Log[p].rows)
  BY <1>2, SeqFacts
<1>4. ASSUME NEW i \in 1..Len(Log[p].rows) PROVE <<p, i>> \in ChangePlaces
  <2>1. <<p, i>> \in {p} \X DOMAIN Log[p].rows
    BY <1>3
  <2> QED BY <2>1, <1>1 DEF ChangePlaces
<1> QED BY <1>1, <1>3, <1>4

(* The next change is what the tables of the source differ by.             *)
LEMMA SourceStep ==
  ASSUME NEW p \in 1..Len(Log), NEW i \in Nat, i < Len(Log[p].rows),
         NEW t \in CopiedTables, NEW k \in PKs
  PROVE  SourceAfter(p, i + 1)[t][k] =
           IF Change(<<p, i + 1>>).table = t /\ Change(<<p, i + 1>>).pk = k
           THEN Change(<<p, i + 1>>).value ELSE SourceAfter(p, i)[t][k]
<1> DEFINE x0 == <<p, i + 1>>
<1>1. x0 \in ChangePlaces /\ x0[1] = p /\ x0[2] = i + 1 /\ p \in Nat /\ i + 1 \in Nat
  BY RowsFacts, SMT
<1>2. CASE Change(x0).table = t /\ Change(x0).pk = k
  <2>1. x0 \in RowChanges(t, k, p, i + 1)
    BY <1>1, <1>2, SMT DEF RowChanges, UpTo
  <2>2. x0 \in LastChange(t, k, p, i + 1)
    BY <1>1, <2>1 DEF RowChanges, LastChange
  <2>3. ASSUME NEW x \in LastChange(t, k, p, i + 1) PROVE x = x0
    <3>1. x \in ChangePlaces /\ UpTo(x, p, i + 1) /\ UpTo(x0, x[1], x[2])
      BY <2>1 DEF RowChanges, LastChange
    <3>2. x[1] \in Nat /\ x[2] \in Nat /\ x = <<x[1], x[2]>>
      BY <3>1, ChangeFacts
    <3>3. x[1] = p /\ x[2] = i + 1
      BY <1>1, <3>1, <3>2, SMT DEF UpTo
    <3> QED BY <3>2, <3>3
  <2>4. (CHOOSE x \in LastChange(t, k, p, i + 1) : TRUE) = x0
    BY <2>2, <2>3
  <2> QED BY <1>2, <2>2, <2>4 DEF SourceAfter
<1>3. CASE ~(Change(x0).table = t /\ Change(x0).pk = k)
  <2>1. ASSUME NEW x \in ChangePlaces, Change(x).table = t, Change(x).pk = k
        PROVE  UpTo(x, p, i + 1) <=> UpTo(x, p, i)
    <3>1. x[1] \in Nat /\ x[2] \in Nat /\ x = <<x[1], x[2]>>
      BY ChangeFacts
    <3>2. ~(x[1] = p /\ x[2] = i + 1)
      BY <1>3, <2>1, <3>1
    <3> QED BY <1>1, <3>1, <3>2, SMT DEF UpTo
  <2>2. RowChanges(t, k, p, i + 1) = RowChanges(t, k, p, i)
    BY <2>1 DEF RowChanges
  <2>3. LastChange(t, k, p, i + 1) = LastChange(t, k, p, i)
    BY <2>2 DEF LastChange
  <2>4. ASSUME NEW j
        PROVE  SourceAfter(p, j)[t][k] =
                 IF LastChange(t, k, p, j) = {} THEN Absent
                 ELSE Change(CHOOSE x \in LastChange(t, k, p, j) : TRUE).value
    BY DEF SourceAfter
  <2>5. SourceAfter(p, i + 1)[t][k] = SourceAfter(p, i)[t][k]
    BY <2>3, <2>4
  <2> QED BY <1>3, <2>5
<1> QED BY <1>2, <1>3

(* After its last change the source is at the position of the transaction. *)
LEMMA SourceEnd ==
  ASSUME NEW p \in 1..Len(Log)
  PROVE  SourceAfter(p, Len(Log[p].rows)) = SourceAt[p]
<1>1. Len(Log) \in Nat /\ Len(Log[p].rows) \in Nat /\ p \in Nat /\ p \in 0..Len(Log)
  BY RowsFacts, SMT
<1>2. SourceAt[p] = SourceAfter(p + 1, 0)
  BY <1>1 DEF SourceAt
<1>3. ASSUME NEW x \in ChangePlaces
      PROVE  UpTo(x, p, Len(Log[p].rows)) <=> UpTo(x, p + 1, 0)
  BY <1>1, ChangeFacts, SMT DEF UpTo
<1>4. ASSUME NEW t, NEW k
      PROVE  RowChanges(t, k, p, Len(Log[p].rows)) = RowChanges(t, k, p + 1, 0)
  BY <1>3 DEF RowChanges
<1>5. ASSUME NEW t, NEW k
      PROVE  LastChange(t, k, p, Len(Log[p].rows)) = LastChange(t, k, p + 1, 0)
  BY <1>4 DEF LastChange
<1> QED BY <1>2, <1>5, SMT DEF SourceAfter

(* Before the first one it is empty.                                       *)
LEMMA SourceEmpty == SourceAt[0] = EmptyTables
<1>1. Len(Log) \in Nat /\ 0 \in 0..Len(Log) /\ 0 + 1 = 1
  BY VReplicationAssumption, SMT
<1>2. SourceAt[0] = SourceAfter(1, 0)
  BY <1>1 DEF SourceAt
<1>3. ASSUME NEW x \in ChangePlaces PROVE ~UpTo(x, 1, 0)
  BY ChangeFacts, SMT DEF UpTo
<1>4. ASSUME NEW t, NEW k PROVE LastChange(t, k, 1, 0) = {}
  BY <1>3 DEF RowChanges, LastChange
<1> QED BY <1>2, <1>4, SMT DEF SourceAfter, EmptyTables

LEMMA SourceType ==
  ASSUME NEW p, NEW i
  PROVE  SourceAfter(p, i) \in [CopiedTables -> [PKs -> Nat]]
<1>1. ASSUME NEW t \in CopiedTables, NEW k \in PKs
      PROVE  SourceAfter(p, i)[t][k] \in Nat
  <2>1. CASE LastChange(t, k, p, i) = {}
    BY <2>1, SMT DEF SourceAfter, Absent
  <2>2. CASE LastChange(t, k, p, i) # {}
    <3> DEFINE x == CHOOSE x \in LastChange(t, k, p, i) : TRUE
    <3>1. x \in LastChange(t, k, p, i)
      BY <2>2
    <3>2. x \in ChangePlaces
      BY <3>1 DEF LastChange, RowChanges
    <3>3. Change(x).value \in Nat
      BY <3>2, ChangeFacts
    <3> QED BY <2>2, <3>3 DEF SourceAfter
  <2> QED BY <2>1, <2>2
<1> QED BY <1>1 DEF SourceAfter

Tables == [CopiedTables -> [PKs -> Nat]]

(* What the source had where the player is.                                *)
Here == IF player.open THEN SourceAfter(player.pos, player.idx) ELSE SourceAt[player.pos]

(* The player has yet to come to the i-th change of the transaction that   *)
(* catchup left open.                                                      *)
AheadOf(i) ==
  IF player.open THEN player.pos < dangling \/ (player.pos = dangling /\ player.idx < i)
  ELSE player.pos < dangling

(* A row of the target is as in there or, if it is ahead, as in then; a    *)
(* row that is not copied yet may be absent, and is unless the filter      *)
(* selects *.                                                              *)
RowIs(value, t, k, there, ahead, then) ==
  LET holds == value = there[t][k] \/ (ahead /\ value = then[t][k])
  IN  IF k <= lastpk[t] THEN holds
      ELSE value = Absent \/ (stream.star /\ Streamed(t) /\ holds)

TablesAre(tables, there, ahead, then) ==
  \A t \in CopiedTables, k \in PKs : RowIs(tables[t][k], t, k, there, ahead, then)

RowsMatch == TablesAre(rows, SourceAt[vpos], FALSE, EmptyTables)

(* The transaction that catchup left open had i changes of its last        *)
(* transaction of the source.                                              *)
LeftAt(i) == dangling # 0 => i <= Len(Log[dangling].rows)
PlayedMatch ==
  \E i \in Nat : LeftAt(i) /\ TablesAre(View, Here, AheadOf(i), SourceAfter(dangling, i))
LeftMatch ==
  \E i \in Nat : LeftAt(i) /\ TablesAre(View, SourceAt[vpos], TRUE, SourceAfter(dangling, i))

MatchData ==
  ~tainted => /\ RowsMatch
              /\ Playing => PlayedMatch
              /\ at = "open" /\ inTx => LeftMatch

MatchTypes ==
  /\ rows \in Tables /\ txRows \in Tables /\ lastpk \in [CopiedTables -> 0..Copied]
  /\ vstate \in {"Init", "Copying", "Running", "Stopped"} /\ at \in Places
  /\ copying \in CopiedTables \cup {NoTable} /\ snap \in Nat /\ dangling \in Nat
  /\ tainted \in BOOLEAN

MatchPlaces ==
  /\ vpos <= srcPos /\ snap <= srcPos /\ dangling <= srcPos /\ srcPos >= 1 /\ srcPos <= Len(Log)
  /\ player.pos <= srcPos /\ (Playing => player.pos # 0)
  /\ player.open => player.pos >= 1 /\ player.idx <= Len(Log[player.pos].rows)
  /\ dangling # 0 => at \in {"open", "ff"} /\ inTx
  /\ at = "open" /\ inTx => vpos < dangling
  /\ at \in {"off", "read", "retry", "copy"} => ~inTx

MatchCopy ==
  /\ vpos = 0 => lastpk \in {[t \in CopiedTables |-> 0], [t \in CopiedTables |-> Copied]}
  /\ at \in {"catchup", "open", "ff", "copy"} =>
       copying \in CopiedTables /\ lastpk[copying] # Copied
  /\ at \in {"catchup", "ff", "copy", "play"} => vpos # 0
  /\ at = "open" /\ inTx => vpos # 0

MatchInv == MatchTypes /\ MatchPlaces /\ MatchCopy /\ MatchData

-----------------------------------------------------------------------------
LEMMA EmptyType == EmptyTables \in Tables
<1>1. Absent \in Nat
  BY SMT DEF Absent
<1> QED BY <1>1 DEF EmptyTables, Tables

LEMMA SourceAtType ==
  ASSUME NEW p \in 0..Len(Log)
  PROVE  SourceAt[p] \in Tables
BY SourceType DEF SourceAt, Tables

LEMMA MatchInit == VReplicationInit => MatchInv
<1> SUFFICES ASSUME VReplicationInit PROVE MatchInv
  OBVIOUS
<1>1. MaxPK \in Nat /\ Len(Log) \in Nat /\ Len(Log) > 0 /\ Copied \in 0..Copied /\ Copied \in Nat
  BY VReplicationAssumption, SMT DEF Copied
<1>2. 1 \in 0..Len(Log) /\ 0 \in 0..Len(Log)
  BY <1>1, SMT
<1>3. rows = SourceAt[vpos] /\ vpos \in {0, 1}
  BY SourceEmpty DEF VReplicationInit
<1>4. MatchTypes
  <2>1. rows \in Tables
    BY <1>2, <1>3, SourceAtType
  <2>2. 0 \in Nat
    BY SMT
  <2> QED BY <1>1, <2>1, <2>2, EmptyType DEF VReplicationInit, MatchTypes, Places, NoTable
<1>5. MatchPlaces
  BY <1>1, <1>3, SMT DEF VReplicationInit, MatchPlaces, NewPlayer, Playing
<1>6. MatchCopy
  BY DEF VReplicationInit, MatchCopy
<1>7. RowsMatch
  <2>1. \A k \in PKs : k <= Copied
    BY <1>1, SMT DEF PKs, Copied
  <2> QED BY <1>3, <2>1 DEF RowsMatch, TablesAre, RowIs, VReplicationInit
<1> QED BY <1>4, <1>5, <1>6, <1>7 DEF MatchInv, MatchData, VReplicationInit, Playing

(* A step that leaves no pass of the player running, and the tables as     *)
(* they were.                                                              *)
LEMMA MatchRests ==
  ASSUME StreamInv, MatchInv, UNCHANGED <<stream, srcPos, rows, vpos, lastpk, snap, player>>,
         vstate' \in {"Init", "Copying", "Running", "Stopped"},
         at' \in {"off", "read", "retry"}, ~inTx', inTx' \in BOOLEAN, txRows' \in Tables, dangling' = 0,
         copying' \in CopiedTables \cup {NoTable},
         tainted' \in BOOLEAN, tainted => tainted'
  PROVE  MatchInv'
<1>1. 0 \in Nat /\ 0 <= srcPos
  BY SMT DEF MatchInv, MatchPlaces, StreamInv, StreamTypes
<1>2. MatchTypes'
  BY <1>1 DEF MatchInv, MatchTypes, Places
<1>3. MatchPlaces' /\ MatchCopy'
  BY <1>1 DEF MatchInv, MatchPlaces, MatchCopy, Playing
<1>4. MatchData'
  <2>1. RowsMatch => RowsMatch'
    BY DEF RowsMatch, TablesAre, RowIs, Streamed
  <2> QED BY <2>1 DEF MatchInv, MatchData, Playing
<1> QED BY <1>2, <1>3, <1>4 DEF MatchInv

(* One change is played.                                                   *)
LEMMA RowKeeps ==
  ASSUME StreamInv, MatchInv, PlayRow
  PROVE  MatchInv'
<1> USE DEF sourceVars, targetVars, txVars, copyVars
<1> DEFINE c == Change(<<player.pos, player.idx + 1>>)
           p == player.pos
           j == player.idx
<1>1. /\ p \in Nat /\ j \in Nat /\ player.open /\ Playing /\ j < Len(Log[p].rows)
      /\ p \in 1..Len(Log) /\ dangling \in Nat
  BY SMT DEF PlayRow, NextIsRow, InOpenTransaction, StreamInv, StreamTypes, MatchInv, MatchTypes, MatchPlaces
<1>2. /\ player'.pos = p /\ player'.idx = j + 1 /\ player'.open
      /\ UNCHANGED <<stream, srcPos, rows, vpos, vstate, lastpk, at, copying, snap, dangling, tainted>>
  BY <1>1 DEF PlayRow, StreamInv, StreamTypes
<1>3. c \in [table : CopiedTables, pk : PKs, value : Nat]
  <2>1. j + 1 \in 1..Len(Log[p].rows)
    BY <1>1, RowsFacts, SMT
  <2>2. <<p, j + 1>> \in ChangePlaces
    BY <1>1, <2>1, RowsFacts
  <2> QED BY <2>2, ChangeFacts
<1> DEFINE missing == c.value # Absent /\ ~Inserts(c) /\ View[c.table][c.pk] = Absent
           put == Applied(c) /\ ~missing
<1>4. View \in Tables
  BY DEF View, MatchInv, MatchTypes
<1>5. /\ Applied(c) => ~Duplicate(c)
      /\ inTx' = (inTx \/ Streamed(c.table))
      /\ txRows' = IF put THEN Put(View, c) ELSE IF inTx' THEN View ELSE txRows
  BY DEF PlayRow, NextChange
<1>6. View' = IF put THEN Put(View, c) ELSE View
  BY <1>2, <1>5 DEF View, Applied
<1>7. Put(View, c) \in Tables
  BY <1>3, <1>4 DEF Put, Tables
<1>8. MatchTypes'
  BY <1>2, <1>4, <1>5, <1>7 DEF MatchInv, MatchTypes
<1>9. MatchPlaces'
  <2>2. dangling # 0 => inTx'
    BY <1>5 DEF MatchInv, MatchPlaces
  <2>3. at \notin {"off", "read", "retry", "copy", "open"}
    BY <1>1 DEF Playing
  <2>4. j + 1 <= Len(Log[p].rows) /\ p >= 1
    BY <1>1, RowsFacts, SMT
  <2> QED BY <1>2, <2>2, <2>3, <2>4 DEF MatchInv, MatchPlaces, Playing
<1>10. MatchCopy'
  BY <1>1, <1>2 DEF MatchInv, MatchCopy, Playing
<1>11. RowsMatch => RowsMatch'
  BY <1>2 DEF RowsMatch, TablesAre, RowIs, Streamed
<1>12. ASSUME PlayedMatch PROVE PlayedMatch'
  <2>1. PICK i \in Nat : LeftAt(i) /\ TablesAre(View, Here, AheadOf(i), SourceAfter(dangling, i))
    BY <1>12 DEF PlayedMatch
  <2>2. LeftAt(i)'
    BY <1>2, <2>1 DEF LeftAt
  <2>3. Here = SourceAfter(p, j) /\ Here' = SourceAfter(p, j + 1)
    BY <1>1, <1>2 DEF Here
  <2>4. AheadOf(i) => AheadOf(i)' \/ SourceAfter(dangling, i) = SourceAfter(p, j + 1)
    <3>1. AheadOf(i) => AheadOf(i)' \/ (p = dangling /\ i = j + 1)
      BY <1>1, <1>2, SMT DEF AheadOf
    <3> QED BY <3>1
  <2>5. ASSUME NEW t \in CopiedTables, NEW k \in PKs
        PROVE  RowIs(View'[t][k], t, k, SourceAfter(p, j + 1), AheadOf(i)', SourceAfter(dangling, i))
    <3> DEFINE then == SourceAfter(dangling, i)[t][k]
               here == SourceAfter(p, j)[t][k]
               next == SourceAfter(p, j + 1)[t][k]
    <3>1. RowIs(View[t][k], t, k, SourceAfter(p, j), AheadOf(i), SourceAfter(dangling, i))
      BY <2>1, <2>3 DEF TablesAre
    <3>2. next = IF c.table = t /\ c.pk = k THEN c.value ELSE here
      BY <1>1, SourceStep, SMT
    <3>3. CASE ~(c.table = t /\ c.pk = k)
      <4>1. View'[t][k] = View[t][k]
        BY <1>3, <1>4, <1>6, <3>3 DEF Put, Tables
      <4>2. AheadOf(i) => AheadOf(i)' \/ then = next
        BY <2>4
      <4> QED BY <3>1, <3>2, <3>3, <4>1, <4>2 DEF RowIs
    <3>4. CASE c.table = t /\ c.pk = k
      <4>1. next = c.value
        BY <3>2, <3>4
      <4>2. put => View'[t][k] = c.value
        BY <1>3, <1>4, <1>6, <3>4 DEF Put, Tables
      <4>3. ~put => View'[t][k] = View[t][k]
        BY <1>6
      <4>4. Inserts(c) <=> here = Absent
        BY <3>4 DEF Inserts
      <4>5. Applied(c) <=> Streamed(t) /\ (stream.star \/ k <= lastpk[t])
        BY <3>4 DEF Applied, Selected
      <4>6. k <= lastpk[t] => Streamed(t)
        <5>1. k \in Nat /\ k >= 1 /\ lastpk[t] \in Nat
          BY VReplicationAssumption, SMT DEF PKs, MatchInv, MatchTypes, Copied
        <5> QED BY <5>1, SMT DEF Streamed
      <4>7. AheadOf(i) => AheadOf(i)' \/ then = next
        BY <2>4
      <4>8. CASE put
        <5>1. Streamed(t) /\ (stream.star \/ k <= lastpk[t])
          BY <4>5, <4>8
        <5> QED BY <4>1, <4>2, <4>8, <5>1 DEF RowIs
      <4>9. CASE ~put /\ Applied(c)
        <5>1. c.value # Absent /\ here # Absent /\ View[t][k] = Absent
          BY <3>4, <4>4, <4>9
        <5>2. CASE k <= lastpk[t]
          <6>1. AheadOf(i) /\ Absent = then
            BY <3>1, <5>1, <5>2 DEF RowIs
          <6>2. AheadOf(i)'
            BY <4>1, <4>7, <5>1, <6>1
          <6> QED BY <4>3, <4>9, <5>1, <5>2, <6>1, <6>2 DEF RowIs
        <5>3. CASE ~(k <= lastpk[t])
          BY <4>3, <4>9, <5>1, <5>3 DEF RowIs
        <5> QED BY <5>2, <5>3
      <4>10. CASE ~Applied(c)
        <5>1. ~(k <= lastpk[t]) /\ ~(stream.star /\ Streamed(t))
          BY <4>5, <4>6, <4>10
        <5>2. View[t][k] = Absent
          BY <3>1, <5>1 DEF RowIs
        <5> QED BY <4>3, <4>10, <5>1, <5>2 DEF RowIs
      <4> QED BY <4>8, <4>9, <4>10
    <3> QED BY <3>3, <3>4
  <2>6. TablesAre(View, Here, AheadOf(i), SourceAfter(dangling, i))'
    BY <1>2, <2>3, <2>5 DEF TablesAre, RowIs, Streamed
  <2> QED BY <2>2, <2>6 DEF PlayedMatch
<1>13. MatchData'
  <2>1. ~(at' = "open")
    BY <1>1, <1>2 DEF Playing
  <2> QED BY <1>1, <1>2, <1>11, <1>12, <2>1 DEF MatchInv, MatchData
<1> QED BY <1>8, <1>9, <1>10, <1>13 DEF MatchInv

(* The player's other steps change no row of what the client sees.         *)
LEMMA PlayMatches ==
  ASSUME StreamInv, MatchInv, PlayStep
  PROVE  MatchInv'
<1> USE DEF sourceVars, targetVars, txVars, copyVars
<1>1. /\ player.pos \in Nat /\ player.idx \in Nat /\ srcPos \in Nat /\ vpos \in Nat
      /\ dangling \in Nat /\ Len(Log) \in Nat
  BY VReplicationAssumption, SMT DEF StreamInv, StreamTypes, MatchInv, MatchTypes
<1>2. player.pos \in 0..Len(Log) /\ (player.open => player.pos \in 1..Len(Log))
  BY <1>1, SMT DEF MatchInv, MatchPlaces
<1>3. \A q \in 1..Len(Log) : SourceAfter(q, Len(Log[q].rows)) = SourceAt[q]
  BY SourceEnd
<1>4. CASE PlayRow
  BY <1>4, RowKeeps
<1>5. CASE PlayGTID
  <2>1. /\ player'.pos = player.pos + 1 /\ player'.idx = 0 /\ player'.open /\ ~player.open
        /\ player.pos < srcPos /\ Playing
        /\ UNCHANGED <<stream, srcPos, rows, vpos, vstate, lastpk, inTx, txRows, dangling, at,
                       copying, snap, tainted>>
    BY <1>5 DEF PlayGTID, StreamInv, StreamTypes
  <2>2. MatchTypes' /\ MatchCopy'
    BY <2>1 DEF MatchInv, MatchTypes, MatchCopy
  <2>3. MatchPlaces'
    <3>1. player.pos + 1 \in 1..Len(Log) /\ player.pos + 1 <= srcPos /\ player.pos + 1 >= 1
      BY <1>1, <2>1, SMT DEF MatchInv, MatchPlaces
    <3>2. 0 <= Len(Log[player.pos + 1].rows) /\ player.pos + 1 # 0
      BY <1>1, <3>1, RowsFacts, SMT
    <3> QED BY <2>1, <3>1, <3>2 DEF MatchInv, MatchPlaces
  <2>4. RowsMatch => RowsMatch'
    BY <2>1 DEF RowsMatch, TablesAre, RowIs, Streamed
  <2>5. ASSUME PlayedMatch PROVE PlayedMatch'
    <3>1. PICK i \in Nat : LeftAt(i) /\ TablesAre(View, Here, AheadOf(i), SourceAfter(dangling, i))
      BY <2>5 DEF PlayedMatch
    <3>2. Here = SourceAfter(player.pos + 1, 0) /\ Here' = Here
      BY <1>2, <2>1 DEF Here, SourceAt
    <3>3. AheadOf(i) => AheadOf(i)' \/ SourceAfter(dangling, i) = Here
      <4>1. AheadOf(i) => AheadOf(i)' \/ (player.pos + 1 = dangling /\ i = 0)
        BY <1>1, <2>1, SMT DEF AheadOf
      <4> QED BY <3>2, <4>1
    <3>4. LeftAt(i)' /\ View' = View
      BY <2>1, <3>1 DEF LeftAt, View
    <3>5. TablesAre(View, Here, AheadOf(i), SourceAfter(dangling, i))'
      BY <2>1, <3>1, <3>2, <3>3, <3>4 DEF TablesAre, RowIs, Streamed
    <3> QED BY <3>4, <3>5 DEF PlayedMatch
  <2>6. MatchData'
    BY <2>1, <2>4, <2>5 DEF MatchInv, MatchData, Playing
  <2> QED BY <2>2, <2>3, <2>6 DEF MatchInv
<1>6. CASE PlayMerge \/ PlayEmpty
  <2>1. /\ player'.pos = player.pos /\ ~player'.open /\ player.open
        /\ player.idx = Len(Log[player.pos].rows) /\ Playing
        /\ UNCHANGED <<stream, srcPos, rows, vpos, vstate, lastpk, inTx, txRows, dangling, at,
                       copying, snap, tainted>>
    BY <1>6 DEF PlayMerge, PlayEmpty, CommitReached, InOpenTransaction, StreamInv, StreamTypes
  <2>2. MatchTypes' /\ MatchCopy' /\ MatchPlaces'
    BY <2>1 DEF MatchInv, MatchTypes, MatchCopy, MatchPlaces, Playing
  <2>3. RowsMatch => RowsMatch'
    BY <2>1 DEF RowsMatch, TablesAre, RowIs, Streamed
  <2>4. ASSUME PlayedMatch PROVE PlayedMatch'
    <3>1. PICK i \in Nat : LeftAt(i) /\ TablesAre(View, Here, AheadOf(i), SourceAfter(dangling, i))
      BY <2>4 DEF PlayedMatch
    <3>2. Here' = Here
      BY <1>2, <1>3, <2>1 DEF Here
    <3>3. AheadOf(i) => AheadOf(i)'
      BY <1>1, <1>2, <2>1, <3>1, SMT DEF AheadOf, LeftAt
    <3>4. LeftAt(i)' /\ View' = View
      BY <2>1, <3>1 DEF LeftAt, View
    <3>5. TablesAre(View, Here, AheadOf(i), SourceAfter(dangling, i))'
      BY <2>1, <3>1, <3>2, <3>3, <3>4 DEF TablesAre, RowIs, Streamed
    <3> QED BY <3>4, <3>5 DEF PlayedMatch
  <2>5. MatchData'
    BY <2>1, <2>3, <2>4 DEF MatchInv, MatchData, Playing
  <2> QED BY <2>2, <2>5 DEF MatchInv
<1>7. CASE PlayCommit \/ PlayDDL \/ PlayIdle
  <2>1. /\ player'.pos = player.pos /\ ~player'.open /\ Playing
        /\ rows' = View /\ vpos' = player.pos /\ inTx' = FALSE /\ dangling' = 0
        /\ txRows' \in {txRows, EmptyTables} /\ tainted' = (tainted \/ dangling > player.pos)
        /\ UNCHANGED <<stream, srcPos, lastpk, copying, snap>>
        /\ vstate' \in {vstate, "Stopped"}
        /\ \/ at' \in {"off", "retry"} \/ (at' = "copy" /\ at = "ff") \/ at' = at
           \/ at' = "open" /\ at = "catchup"
        /\ player.open => player.idx = Len(Log[player.pos].rows)
    <3>1. CASE PlayCommit
      BY <3>1 DEF PlayCommit, CommitReached, InOpenTransaction, UpdatePos, CommitAt, PlayReturns,
        CatchupReturns, StreamInv, StreamTypes, Playing
    <3>2. CASE PlayDDL \/ PlayIdle
      <4>1. ~inTx /\ inTx \in BOOLEAN
        BY <3>2 DEF PlayDDL, PlayIdle, StreamInv, StreamTypes, MergedBeforeDDL
      <4>2. dangling = 0 /\ (tainted \/ dangling > player.pos) = tainted
        BY <1>1, <4>1, SMT DEF MatchInv, MatchPlaces, MatchTypes
      <4>3. player.open => player.idx = Len(Log[player.pos].rows)
        <5>1. ASSUME player.open PROVE Log[player.pos].rows = <<>>
          <6>1. Log[player.pos].ddl
            BY <3>2, <5>1 DEF PlayDDL, PlayIdle, StreamInv, MergedBeforeDDL
          <6>2. player.pos \in DOMAIN Log
            BY <1>2, <5>1, VReplicationAssumption, SMT
          <6> QED BY <6>1, <6>2, VReplicationAssumption
        <5>2. player.open => player.idx <= Len(Log[player.pos].rows)
          BY DEF MatchInv, MatchPlaces
        <5>3. Len(<<>>) = 0
          BY SMT
        <5> QED BY <1>1, <5>1, <5>2, <5>3, SMT
      <4>4. CASE PlayDDL
        BY <4>1, <4>2, <4>3, <4>4 DEF PlayDDL, PlayReturns, CatchupReturns, View, StreamInv,
          StreamTypes, Playing
      <4>5. CASE PlayIdle
        <5>1. ~player.open
          BY <4>5 DEF PlayIdle, StreamInv, MergedBeforeDDL
        <5> QED BY <4>1, <4>2, <4>3, <4>5, <5>1 DEF PlayIdle, UpdatePos, View, StreamInv, StreamTypes,
            Playing
      <4> QED BY <3>2, <4>4, <4>5
    <3> QED BY <1>7, <3>1, <3>2
  <2>2. player.pos # 0 /\ Here = SourceAt[player.pos]
    <3>1. CASE player.open
      BY <1>1, <1>2, <1>3, <2>1, <3>1, SMT DEF Here
    <3>2. CASE ~player.open
      <4>1. PlayIdle
        BY <1>7, <3>2 DEF PlayCommit, PlayDDL, CommitReached, InOpenTransaction
      <4> QED BY <2>1, <3>2, <4>1 DEF Here, MatchInv, MatchPlaces
    <3> QED BY <3>1, <3>2
  <2>3. rows' \in Tables /\ txRows' \in Tables /\ View \in Tables
    BY <2>1, EmptyType DEF View, MatchInv, MatchTypes
  <2>4. tainted' \in BOOLEAN /\ at' \in Places /\ dangling' \in Nat
        /\ vstate' \in {"Init", "Copying", "Running", "Stopped"}
    <3>1. 0 \in Nat
      BY SMT
    <3>2. at' \in Places
      BY <2>1 DEF Places, MatchInv, MatchTypes
    <3> QED BY <2>1, <3>1, <3>2 DEF MatchInv, MatchTypes
  <2>5. MatchTypes'
    BY <2>1, <2>3, <2>4 DEF MatchInv, MatchTypes
  <2>6. MatchPlaces'
    <3>1. 0 <= srcPos
      BY <1>1, SMT
    <3>2. Playing' => Playing
      BY <2>1 DEF Playing
    <3> QED BY <2>1, <2>2, <3>1, <3>2 DEF MatchInv, MatchPlaces
  <2>7. MatchCopy'
    BY <2>1, <2>2 DEF MatchInv, MatchCopy, Playing
  <2>8. ASSUME ~tainted' PROVE RowsMatch' /\ (Playing' => PlayedMatch')
    <3>1. ~tainted /\ ~(dangling > player.pos)
      BY <2>1, <2>8 DEF MatchInv, MatchTypes
    <3>2. PICK i \in Nat : LeftAt(i) /\ TablesAre(View, Here, AheadOf(i), SourceAfter(dangling, i))
      BY <2>1, <3>1 DEF MatchInv, MatchData, PlayedMatch
    <3>3. ~AheadOf(i)
      BY <1>1, <1>2, <2>1, <3>1, <3>2, SMT DEF AheadOf, LeftAt
    <3>4. TablesAre(View, SourceAt[player.pos], FALSE, EmptyTables)
      BY <2>2, <3>2, <3>3 DEF TablesAre, RowIs
    <3>5. RowsMatch'
      BY <2>1, <3>4 DEF RowsMatch, TablesAre, RowIs, Streamed
    <3>6. PlayedMatch'
      <4>1. LeftAt(0)' /\ View' = View /\ Here' = SourceAt[player.pos] /\ 0 \in Nat
        BY <2>1, SMT DEF LeftAt, View, Here
      <4>2. TablesAre(View, Here, AheadOf(0), SourceAfter(dangling, 0))'
        BY <2>1, <3>4, <4>1 DEF TablesAre, RowIs, Streamed
      <4> QED BY <4>1, <4>2 DEF PlayedMatch
    <3> QED BY <3>5, <3>6
  <2>9. ~(at' = "open" /\ inTx')
    BY <2>1
  <2> QED BY <2>5, <2>6, <2>7, <2>8, <2>9 DEF MatchInv, MatchData
<1> QED BY <1>4, <1>5, <1>6, <1>7 DEF PlayStep

(* The steps of Replicate and of the copier.                               *)
LEMMA CopyMatches ==
  ASSUME StreamInv, MatchInv, CopyStep
  PROVE  MatchInv'
<1> USE DEF sourceVars, targetVars, txVars, copyVars
<1>1. /\ player.pos \in Nat /\ player.idx \in Nat /\ srcPos \in Nat /\ vpos \in Nat
      /\ dangling \in Nat /\ Len(Log) \in Nat /\ snap \in Nat /\ MaxPK \in Nat /\ 0 \in Nat /\ 0 <= srcPos
      /\ Copied \in 0..Copied /\ 0 \in 0..Copied /\ 0 # Copied
  BY VReplicationAssumption, SMT DEF StreamInv, StreamTypes, MatchInv, MatchTypes, Copied
<1>2. \A t \in CopiedTables, k \in PKs : ~(k <= 0) /\ k <= Copied
  BY <1>1, SMT DEF PKs, Copied
<1>3. NewPlayer(vpos).pos = vpos /\ ~NewPlayer(vpos).open /\ NewPlayer(vpos).idx = 0
  BY DEF NewPlayer
<1>4. ASSUME ~inTx', dangling' = 0, RowsMatch', ~player'.open, player'.pos = vpos'
      PROVE  PlayedMatch'
  <2>1. LeftAt(0)' /\ View' = rows' /\ Here' = SourceAt[vpos']
    BY <1>4 DEF LeftAt, View, Here
  <2>2. TablesAre(View, Here, AheadOf(0), SourceAfter(dangling, 0))'
    BY <1>4, <2>1 DEF RowsMatch, TablesAre, RowIs, Streamed
  <2> QED BY <1>1, <2>1, <2>2 DEF PlayedMatch
<1>5. ASSUME UNCHANGED <<rows, vpos, lastpk, stream>>, RowsMatch PROVE RowsMatch'
  BY <1>5 DEF RowsMatch, TablesAre, RowIs, Streamed
<1>6. CASE InitTables
  <2>1. /\ lastpk = [t \in CopiedTables |-> Copied] /\ vpos = 0
        /\ lastpk' = [t \in CopiedTables |-> 0] /\ vstate' \in {"Stopped", "Copying"} /\ at = "read"
        /\ UNCHANGED <<stream, srcPos, rows, vpos, inTx, txRows, dangling, at, player, copying, snap,
                       tainted>>
    BY <1>6 DEF InitTables, ToCopy, MatchInv, MatchTypes
  <2>2. MatchTypes'
    BY <1>1, <2>1 DEF MatchInv, MatchTypes
  <2>3. MatchPlaces' /\ MatchCopy'
    BY <2>1 DEF MatchInv, MatchPlaces, MatchCopy, Playing
  <2>4. RowsMatch => RowsMatch'
    <3>1. \A t \in CopiedTables, k \in PKs : SourceAt[0][t][k] = Absent
      BY SourceEmpty DEF EmptyTables
    <3> QED BY <1>2, <2>1, <3>1 DEF RowsMatch, TablesAre, RowIs
  <2> QED BY <2>1, <2>2, <2>3, <2>4 DEF MatchInv, MatchData, Playing
<1>7. CASE StartPlaying \/ CopyNext
  <2>1. /\ at = "read" /\ ~inTx /\ dangling = 0
        /\ UNCHANGED <<stream, srcPos, rows, vpos, lastpk, inTx, txRows, dangling, snap, tainted>>
        /\ \/ at' \in {"off", "retry"} /\ player' \in {player, NewPlayer(vpos)}
           \/ at' = "play" /\ vpos # 0 /\ player' = NewPlayer(vpos)
           \/ at' = "catchup" /\ vpos # 0 /\ player' = NewPlayer(vpos) /\ copying' \in ToCopy
           \/ at' = "open" /\ player' = NewPlayer(vpos) /\ copying' \in ToCopy
        /\ vstate' \in {vstate, "Stopped", "Running"} /\ copying' \in ToCopy \cup {copying}
    BY <1>7 DEF StartPlaying, CopyNext, MatchInv, MatchPlaces
  <2>2. MatchTypes'
    BY <2>1 DEF MatchInv, MatchTypes, Places, ToCopy
  <2>3. MatchPlaces'
    BY <1>3, <2>1 DEF MatchInv, MatchPlaces, Playing
  <2>4. MatchCopy'
    BY <2>1 DEF MatchInv, MatchCopy, ToCopy
  <2>5. ASSUME RowsMatch, Playing' PROVE PlayedMatch'
    BY <1>3, <1>4, <1>5, <2>1, <2>5 DEF Playing
  <2> QED BY <1>5, <2>1, <2>2, <2>3, <2>4, <2>5 DEF MatchInv, MatchData
<1>8. CASE StillBehind
  <2>1. /\ player'.pos = player.pos /\ player'.open = player.open /\ player'.idx = player.idx
        /\ UNCHANGED <<stream, srcPos, rows, vpos, vstate, lastpk, inTx, txRows, dangling, at,
                       copying, snap, tainted>>
    BY <1>8 DEF StillBehind, StreamInv, StreamTypes
  <2>2. MatchTypes' /\ MatchPlaces' /\ MatchCopy'
    BY <2>1 DEF MatchInv, MatchTypes, MatchPlaces, MatchCopy, Playing
  <2>3. PlayedMatch => PlayedMatch'
    BY <2>1, SMT DEF PlayedMatch, LeftAt, TablesAre, RowIs, Streamed, View, Here, AheadOf
  <2>4. LeftMatch => LeftMatch'
    BY <2>1, SMT DEF LeftMatch, LeftAt, TablesAre, RowIs, Streamed, View
  <2> QED BY <1>5, <2>1, <2>2, <2>3, <2>4 DEF MatchInv, MatchData, Playing
<1>9. CASE CaughtUp
  <2>1. /\ at = "catchup" /\ at' = "open" /\ dangling = 0
        /\ UNCHANGED <<stream, srcPos, rows, vpos, vstate, lastpk, player, copying, snap, tainted>>
        /\ \/ inTx /\ inTx' /\ dangling' = player.pos /\ txRows' = txRows
           \/ ~inTx' /\ inTx' = FALSE /\ dangling' = 0 /\ txRows' \in Tables
    BY <1>9, EmptyType, SMT DEF CaughtUp, Rollback, MatchInv, MatchPlaces, MatchTypes, StreamInv, StreamTypes
  <2>2. MatchTypes'
    BY <1>1, <2>1 DEF MatchInv, MatchTypes, Places
  <2>3. inTx => vpos < player.pos
    BY <2>1 DEF StreamInv, CatchupLeaves
  <2>4. MatchPlaces'
    BY <1>1, <2>1, <2>3 DEF MatchInv, MatchPlaces, Playing
  <2>5. MatchCopy'
    BY <2>1 DEF MatchInv, MatchCopy
  <2>6. ASSUME PlayedMatch, inTx' PROVE LeftMatch'
    <3>1. inTx /\ dangling' = player.pos /\ txRows' = txRows /\ View' = View
      BY <2>1, <2>6 DEF View
    <3>2. player.pos # 0 /\ player.pos \in 1..Len(Log)
      BY <1>1, <2>1, SMT DEF MatchInv, MatchPlaces, Playing
    <3>3. \A i \in Nat : ~AheadOf(i)
      BY <1>1, <2>1, <3>2, SMT DEF AheadOf
    <3>4. TablesAre(View, Here, FALSE, EmptyTables)
      BY <2>6, <3>3 DEF PlayedMatch, TablesAre, RowIs
    <3>5. \E i \in Nat : i <= Len(Log[player.pos].rows) /\ Here = SourceAfter(player.pos, i)
      <4>1. CASE player.open
        BY <1>1, <4>1 DEF Here, MatchInv, MatchPlaces
      <4>2. CASE ~player.open
        <5>1. Here = SourceAfter(player.pos, Len(Log[player.pos].rows))
          BY <3>2, <4>2, SourceEnd DEF Here
        <5>2. Len(Log[player.pos].rows) \in Nat /\ Len(Log[player.pos].rows) <= Len(Log[player.pos].rows)
          BY <3>2, RowsFacts, SMT
        <5> QED BY <5>1, <5>2
      <4> QED BY <4>1, <4>2
    <3>6. PICK i \in Nat : i <= Len(Log[player.pos].rows) /\ Here = SourceAfter(player.pos, i)
      BY <3>5
    <3>7. LeftAt(i)'
      BY <3>1, <3>6 DEF LeftAt
    <3>8. TablesAre(View, SourceAt[vpos], TRUE, SourceAfter(dangling, i))'
      BY <2>1, <3>1, <3>4, <3>6 DEF TablesAre, RowIs, Streamed
    <3> QED BY <3>7, <3>8 DEF LeftMatch
  <2> QED BY <1>5, <2>1, <2>2, <2>4, <2>5, <2>6 DEF MatchInv, MatchData, Playing
<1>10. CASE OpenRows
  <2>1. /\ at = "open" /\ player' = NewPlayer(vpos) /\ snap' = srcPos
        /\ UNCHANGED <<stream, srcPos, rows, vstate, lastpk, inTx, txRows, dangling, copying, tainted>>
    BY <1>10 DEF OpenRows
  <2>2. copying \in CopiedTables /\ lastpk[copying] # Copied
    BY <2>1 DEF MatchInv, MatchCopy
  <2>3. CASE vpos = 0 /\ vpos' = srcPos /\ at' = "copy"
    <3>1. ~inTx /\ dangling = 0
      BY <2>1, <2>3 DEF MatchInv, MatchCopy, MatchPlaces
    <3>2. lastpk = [t \in CopiedTables |-> 0]
      BY <2>2, <2>3 DEF MatchInv, MatchCopy
    <3>3. MatchTypes'
      BY <1>1, <2>1, <2>3 DEF MatchInv, MatchTypes, Places
    <3>4. MatchPlaces'
      BY <1>1, <1>3, <2>1, <2>3, <3>1, SMT DEF MatchInv, MatchPlaces, Playing
    <3>5. MatchCopy'
      BY <1>1, <2>1, <2>2, <2>3, <3>1, SMT DEF MatchInv, MatchCopy, MatchPlaces
    <3>6. RowsMatch => RowsMatch'
      BY <1>2, <2>1, <3>2 DEF RowsMatch, TablesAre, RowIs, Streamed
    <3> QED BY <2>1, <2>3, <3>3, <3>4, <3>5, <3>6 DEF MatchInv, MatchData, Playing
  <2>4. CASE vpos # 0 /\ vpos >= srcPos /\ at' = "copy" /\ UNCHANGED vpos
    <3>1. ~inTx /\ dangling = 0
      <4>1. ~inTx
        BY <1>1, <2>1, <2>4, SMT DEF MatchInv, MatchPlaces
      <4> QED BY <4>1 DEF MatchInv, MatchPlaces
    <3>3. MatchTypes'
      BY <1>1, <2>1, <2>4 DEF MatchInv, MatchTypes, Places
    <3>4. MatchPlaces'
      BY <1>1, <1>3, <2>1, <2>4, <3>1, SMT DEF MatchInv, MatchPlaces, Playing
    <3>5. MatchCopy'
      BY <2>1, <2>2, <2>4, <3>1 DEF MatchInv, MatchCopy
    <3> QED BY <1>5, <2>1, <2>4, <3>3, <3>4, <3>5 DEF MatchInv, MatchData, Playing
  <2>5. CASE vpos # 0 /\ vpos < srcPos /\ at' = "ff" /\ UNCHANGED vpos
    <3>3. MatchTypes'
      BY <1>1, <2>1, <2>5 DEF MatchInv, MatchTypes, Places
    <3>4. MatchPlaces'
      BY <1>1, <1>3, <2>1, <2>5, SMT DEF MatchInv, MatchPlaces, Playing
    <3>5. MatchCopy'
      BY <2>1, <2>2, <2>5 DEF MatchInv, MatchCopy
    <3>6. ASSUME RowsMatch, inTx => LeftMatch PROVE PlayedMatch'
      <4>1. CASE inTx
        <5>1. PICK i \in Nat : LeftAt(i) /\ TablesAre(View, SourceAt[vpos], TRUE, SourceAfter(dangling, i))
          BY <3>6, <4>1 DEF LeftMatch
        <5>2. vpos < dangling
          BY <2>1, <4>1 DEF MatchInv, MatchPlaces
        <5>3. LeftAt(i)' /\ AheadOf(i)' /\ View' = View /\ Here' = SourceAt[vpos]
          BY <1>3, <2>1, <5>1, <5>2 DEF LeftAt, AheadOf, View, Here
        <5>4. TablesAre(View, Here, AheadOf(i), SourceAfter(dangling, i))'
          BY <2>1, <5>1, <5>3 DEF TablesAre, RowIs, Streamed
        <5> QED BY <5>3, <5>4 DEF PlayedMatch
      <4>2. CASE ~inTx
        <5>1. dangling = 0
          BY <4>2 DEF MatchInv, MatchPlaces
        <5> QED BY <1>3, <1>4, <1>5, <2>1, <2>5, <3>6, <4>2, <5>1
      <4> QED BY <4>1, <4>2
    <3> QED BY <1>5, <2>1, <2>5, <3>3, <3>4, <3>5, <3>6 DEF MatchInv, MatchData, Playing
  <2> QED BY <1>10, <2>3, <2>4, <2>5 DEF OpenRows
<1>11. CASE CopyBatch
  <2>1. /\ at = "copy" /\ ~inTx /\ dangling = 0 /\ View = rows /\ vpos # 0
        /\ copying \in CopiedTables /\ lastpk[copying] # Copied
    BY <1>11 DEF CopyBatch, MatchInv, MatchPlaces, MatchCopy, View
  <2>2. /\ inTx' = FALSE /\ txRows' = EmptyTables /\ dangling' = 0 /\ at' \in {"copy", "retry"}
        /\ tainted' = (tainted \/ dangling > vpos \/ vpos # snap)
        /\ UNCHANGED <<stream, srcPos, vpos, vstate, player, copying, snap>>
    BY <1>11 DEF CopyBatch
  <2>3. PICK k \in Remaining(MaxPK) :
          /\ rows' = [rows EXCEPT ![copying] = [i \in PKs |->
                     IF i \in Remaining(k) THEN SourceAt[snap][copying][i] ELSE @[i]]]
          /\ lastpk' = [lastpk EXCEPT ![copying] = k]
    BY <1>11, <2>1 DEF CopyBatch
  <2>4. k \in PKs /\ k \in 0..Copied /\ k # Copied /\ k # 0 /\ lastpk[copying] < k
    BY <1>1, <2>3, SMT DEF Remaining, PKs, Copied
  <2>5. snap \in 0..Len(Log)
    BY <1>1, SMT DEF MatchInv, MatchPlaces
  <2>6. rows' \in Tables
    BY <2>1, <2>3, <2>5, SourceAtType, SMT DEF Tables, MatchInv, MatchTypes
  <2>7. MatchTypes'
    BY <1>1, <2>2, <2>3, <2>4, <2>6, EmptyType DEF MatchInv, MatchTypes, Places
  <2>8. MatchPlaces'
    BY <1>1, <2>1, <2>2 DEF MatchInv, MatchPlaces, Playing
  <2>9. MatchCopy'
    BY <2>1, <2>2, <2>3, <2>4 DEF MatchInv, MatchCopy, MatchTypes
  <2>10. ASSUME RowsMatch, vpos = snap PROVE RowsMatch'
    <3> SUFFICES ASSUME NEW t \in CopiedTables, NEW i \in PKs
                 PROVE  RowIs(rows[t][i], t, i, SourceAt[vpos], FALSE, EmptyTables)'
      BY DEF RowsMatch, TablesAre
    <3>1. RowIs(rows[t][i], t, i, SourceAt[vpos], FALSE, EmptyTables)
      BY <2>10 DEF RowsMatch, TablesAre
    <3>2. CASE t # copying
      <4>1. rows'[t][i] = rows[t][i] /\ lastpk'[t] = lastpk[t]
        BY <2>3, <3>2 DEF MatchInv, MatchTypes, Tables
      <4> QED BY <2>2, <3>1, <4>1 DEF RowIs, Streamed
    <3>3. CASE t = copying
      <4>1. rows'[t][i] = (IF i \in Remaining(k) THEN SourceAt[vpos][t][i] ELSE rows[t][i]) /\ lastpk'[t] = k
        BY <2>3, <2>10, <3>3 DEF MatchInv, MatchTypes, Tables
      <4>2. CASE i \in Remaining(k)
        BY <2>2, <4>1, <4>2 DEF RowIs, Remaining
      <4>3. CASE i \notin Remaining(k) /\ i <= k
        <5>1. ~(i <= lastpk[t]) => SourceAt[vpos][t][i] = Absent
          <6>1. ~(i <= lastpk[t]) => lastpk[t] < i
            BY <1>1, SMT DEF PKs, MatchInv, MatchTypes, Copied
          <6> QED BY <2>10, <3>3, <4>3, <6>1 DEF Remaining
        <5> QED BY <2>2, <3>1, <4>1, <4>3, <5>1 DEF RowIs
      <4>4. CASE i \notin Remaining(k) /\ ~(i <= k)
        <5>1. ~(i <= lastpk[t])
          BY <1>1, <2>4, <3>3, <4>4, SMT DEF PKs, MatchInv, MatchTypes, Copied
        <5> QED BY <2>2, <2>4, <3>1, <4>1, <4>4, <5>1 DEF RowIs, Streamed
      <4> QED BY <4>2, <4>3, <4>4
    <3> QED BY <3>2, <3>3
  <2> QED BY <2>2, <2>7, <2>8, <2>9, <2>10 DEF MatchInv, MatchData, MatchTypes, Playing
<1>12. CASE CopyDone
  <2>1. /\ at = "copy" /\ ~inTx /\ dangling = 0 /\ vpos # 0
        /\ copying \in CopiedTables /\ lastpk[copying] # Copied
    BY <1>12 DEF CopyDone, MatchInv, MatchPlaces, MatchCopy
  <2>2. /\ inTx' = FALSE /\ txRows' = EmptyTables /\ dangling' = 0 /\ at' = "read"
        /\ tainted' = (tainted \/ vpos # snap) /\ Remaining(MaxPK) = {}
        /\ lastpk' = [lastpk EXCEPT ![copying] = Copied]
        /\ UNCHANGED <<stream, srcPos, rows, vpos, vstate, player, copying, snap>>
    BY <1>12, <2>1 DEF CopyDone, Rollback
  <2>3. MatchTypes'
    BY <1>1, <2>2, EmptyType DEF MatchInv, MatchTypes, Places
  <2>4. MatchPlaces' /\ MatchCopy'
    BY <1>1, <2>1, <2>2 DEF MatchInv, MatchPlaces, MatchCopy, Playing
  <2>5. ASSUME RowsMatch, vpos = snap PROVE RowsMatch'
    <3> SUFFICES ASSUME NEW t \in CopiedTables, NEW i \in PKs
                 PROVE  RowIs(rows[t][i], t, i, SourceAt[vpos], FALSE, EmptyTables)'
      BY DEF RowsMatch, TablesAre
    <3>1. RowIs(rows[t][i], t, i, SourceAt[vpos], FALSE, EmptyTables)
      BY <2>5 DEF RowsMatch, TablesAre
    <3>2. CASE t # copying
      <4>1. lastpk'[t] = lastpk[t]
        BY <2>2, <3>2 DEF MatchInv, MatchTypes
      <4> QED BY <2>2, <3>1, <4>1 DEF RowIs, Streamed
    <3>3. CASE t = copying
      <4>1. lastpk'[t] = Copied /\ i <= Copied
        BY <1>2, <2>2, <3>3 DEF MatchInv, MatchTypes
      <4>2. ~(i <= lastpk[t]) => SourceAt[vpos][t][i] = Absent
        <5>1. ~(i <= lastpk[t]) => lastpk[t] < i /\ i <= MaxPK
          BY <1>1, SMT DEF PKs, MatchInv, MatchTypes, Copied
        <5> QED BY <2>2, <2>5, <3>3, <5>1 DEF Remaining
      <4> QED BY <2>2, <3>1, <4>1, <4>2 DEF RowIs
    <3> QED BY <3>2, <3>3
  <2> QED BY <2>2, <2>3, <2>4, <2>5 DEF MatchInv, MatchData, MatchTypes, Playing
<1> QED BY <1>6, <1>7, <1>8, <1>9, <1>10, <1>11, <1>12 DEF CopyStep

(* What the tables of the target hold, in every state of a stream: see     *)
(* MatchInv.                                                               *)
THEOREM MatchInvariant == VReplicationSpec => []MatchInv
<1>1. VReplicationInit => MatchInv
  BY MatchInit
<1>2. ASSUME StreamInv, MatchInv, [VReplicationNext]_vreplicationVars PROVE MatchInv'
  <2> USE DEF sourceVars, targetVars, txVars, copyVars
  <2>1. CASE SourceExecutes \/ UNCHANGED vreplicationVars
    <3>1. /\ UNCHANGED <<stream, rows, vpos, vstate, lastpk, inTx, txRows, dangling, at, player,
                         copying, snap, tainted>>
          /\ srcPos' = srcPos \/ (srcPos' = srcPos + 1 /\ srcPos < Len(Log))
      BY <2>1 DEF SourceExecutes, vreplicationVars
    <3>2. MatchTypes' /\ MatchCopy'
      BY <1>2, <3>1 DEF MatchInv, MatchTypes, MatchCopy
    <3>3. /\ vpos <= srcPos' /\ snap <= srcPos' /\ dangling <= srcPos' /\ srcPos' >= 1
          /\ srcPos' <= Len(Log) /\ player.pos <= srcPos'
      <4>1. /\ vpos \in Nat /\ snap \in Nat /\ dangling \in Nat /\ srcPos \in Nat /\ player.pos \in Nat
            /\ Len(Log) \in Nat
        BY <1>2, VReplicationAssumption, SMT DEF StreamInv, StreamTypes, MatchInv, MatchTypes
      <4> QED BY <1>2, <3>1, <4>1, SMT DEF MatchInv, MatchPlaces
    <3>4. MatchPlaces'
      BY <1>2, <3>1, <3>3 DEF MatchInv, MatchPlaces, Playing
    <3>5. (RowsMatch => RowsMatch') /\ (Playing' => Playing)
      BY <3>1 DEF RowsMatch, TablesAre, RowIs, Streamed, Playing
    <3>6. PlayedMatch => PlayedMatch'
      BY <3>1, SMT DEF PlayedMatch, LeftAt, TablesAre, RowIs, Streamed, View, Here, AheadOf
    <3>7. LeftMatch => LeftMatch'
      BY <3>1, SMT DEF LeftMatch, LeftAt, TablesAre, RowIs, Streamed, View
    <3> QED BY <1>2, <3>1, <3>2, <3>4, <3>5, <3>6, <3>7 DEF MatchInv, MatchData
  <2>2. CASE Refuse \/ Retry \/ NewController \/ Disturbance
    <3>1. /\ UNCHANGED <<stream, srcPos, rows, vpos, lastpk, snap, player, copying, tainted>>
          /\ vstate' \in {vstate, "Stopped", "Running"}
          /\ at' \in {"off", "read", "retry"} /\ inTx' = FALSE /\ dangling' = 0
          /\ txRows' \in {txRows, EmptyTables}
      BY <1>2, <2>2, SMT DEF Refuse, Retry, NewController, Disturbance, Fail, Errs, Rollback,
        CopyTimeout, StopController, ExecUpdate, StreamInv, StreamTypes, MatchInv, MatchPlaces
    <3>2. /\ vstate' \in {"Init", "Copying", "Running", "Stopped"} /\ txRows' \in Tables
          /\ copying' \in CopiedTables \cup {NoTable} /\ tainted' \in BOOLEAN
      BY <1>2, <3>1, EmptyType DEF MatchInv, MatchTypes
    <3> QED BY <1>2, <3>1, <3>2, MatchRests
  <2> QED BY <1>2, <2>1, <2>2, PlayMatches, CopyMatches DEF VReplicationNext
<1> QED BY <1>1, <1>2, StreamInvariant, PTL DEF VReplicationSpec

(* VReplicationTypeOK: the type of a stream.                               *)
THEOREM StreamType == VReplicationSpec => []VReplicationTypeOK
<1>1. ASSUME StreamInv, MatchInv PROVE VReplicationTypeOK
  <2>1. /\ srcPos \in 1..Len(Log) /\ vpos \in 0..Len(Log) /\ player.pos \in 0..Len(Log)
        /\ snap \in 0..Len(Log) /\ dangling \in 0..Len(Log)
    <3>1. /\ vpos \in Nat /\ snap \in Nat /\ dangling \in Nat /\ srcPos \in Nat /\ player.pos \in Nat
          /\ Len(Log) \in Nat
      BY <1>1, VReplicationAssumption, SMT DEF StreamInv, StreamTypes, MatchInv, MatchTypes
    <3> QED BY <1>1, <3>1, SMT DEF MatchInv, MatchPlaces
  <2> QED BY <1>1, <2>1 DEF VReplicationTypeOK, StreamInv, StreamTypes, MatchInv, MatchTypes, Tables
<1> QED BY <1>1, MatchInvariant, StreamInvariant, PTL

(* TargetMatchesSource: at every moment a crash could happen, the target   *)
(* of a stream whose filter names its columns holds what the source had at *)
(* the saved position, of the rows up to the last copied key, and nothing  *)
(* else, but for the two exceptions that taint it.                         *)
THEOREM TargetFollowsSource == VReplicationSpec => [](~stream.star => TargetMatchesSource)
<1>1. ASSUME MatchInv PROVE ~stream.star => TargetMatchesSource
  <2> SUFFICES ASSUME ~stream.star, ~tainted, NEW t \in CopiedTables, NEW k \in PKs
               PROVE  rows[t][k] = IF vpos # 0 /\ k <= lastpk[t] THEN SourceAt[vpos][t][k] ELSE Absent
    BY DEF TargetMatchesSource, CopiedRowsMatch
  <2>1. RowIs(rows[t][k], t, k, SourceAt[vpos], FALSE, EmptyTables)
    BY <1>1 DEF MatchInv, MatchData, RowsMatch, TablesAre
  <2>2. SourceAt[0][t][k] = Absent
    BY SourceEmpty DEF EmptyTables
  <2> QED BY <2>1, <2>2 DEF RowIs
<1> QED BY <1>1, MatchInvariant, PTL

(* The rows up to the last copied key are those of the source at the saved *)
(* position for a stream that selects * too, of which TargetMatchesSource  *)
(* does not hold: its extra rows are only those yet to be copied.          *)
CopiedPartMatches ==
  \A t \in CopiedTables, k \in PKs : k <= lastpk[t] => rows[t][k] = SourceAt[vpos][t][k]
THEOREM CopiedRowsFollowSource == VReplicationSpec => [](tainted \/ CopiedPartMatches)
<1>1. MatchInv => tainted \/ CopiedPartMatches
  BY DEF MatchInv, MatchData, RowsMatch, TablesAre, RowIs, CopiedPartMatches
<1> QED BY <1>1, MatchInvariant, PTL

-----------------------------------------------------------------------------
(* The message manager.                                                    *)

ManagerTypes ==
  /\ row \in [Messages -> {"none", "due", "later", "acked"}]
  /\ queue \subseteq Messages /\ polled \subseteq Messages
  /\ recv \in [Receivers -> {"new", "busy", "free", "gone"}]
  /\ work \in [Writers -> Steps] /\ batch \in [Receivers -> SUBSET Messages]
  /\ closing \in {"none", "ticks", "wait", "done"}

(* Nothing is left of a manager that was shut.                             *)
ShutIsEmpty ==
  /\ closing \in {"wait", "done"} =>
       /\ queue = {} /\ poller = "idle" /\ \A r \in Receivers : recv[r] = "gone"
  /\ closing = "done" => sender = "ended"

(* A receiver that may be handed a batch has none in the works.            *)
FreeIsIdle == \A r \in Receivers : recv[r] \in {"new", "free"} => work[r] = "none"

(* DBLock is held from before a commit until the cache reflects it, and    *)
(* while the poller has rows to add; without a manager nobody needs it.    *)
LockInv ==
  /\ closing # "done" =>
       \A w \in Writers : work[w] \in {"commit", "update"} => dbLock = w
  /\ poller = "read" => dbLock = Poller

(* So the rows the poller read are still due when it adds them, and a row  *)
(* inserted for later is not in the cache yet.                             *)
RowsInv ==
  /\ poller = "read" => \A m \in polled : row[m] = "due"
  /\ \A m \in queue : row[m] # "none"
  /\ \A m \in Messages : work[m] = "update" /\ row[m] = "later" => m \notin queue

(* What a commit that was applied and returned an error may leave behind.  *)
Left(m) == work[m] = "failed" \/ \E r \in Receivers : work[r] = "discard" /\ m \in batch[r]

ManagerInv ==
  ManagerTypes /\ ShutIsEmpty /\ FreeIsIdle /\ SenderNotNeeded /\ LockInv /\ RowsInv /\ QueuedIsDue

(* The manager opens with an empty cache.                                  *)
LEMMA ManagerInit == MessagerInit => ManagerInv
BY MessagerAssumption DEF MessagerInit, ManagerInv, ManagerTypes, ShutIsEmpty, FreeIsIdle,
  SenderNotNeeded, LockInv, RowsInv, QueuedIsDue, Writers, Steps

(* A step of a batch or a transaction on its way to the commit.            *)
LEMMA ApproachKeeps ==
  ASSUME ManagerInv, NEW w \in Writers, NEW to \in Steps \ {"update"},
         work[w] \notin {"commit", "update", "failed", "discard"}, work' = [work EXCEPT ![w] = to],
         w \in Messages \/ work[w] # "none",
         \/ dbLock' = dbLock /\ (to = "commit" => closing = "done")
         \/ dbLock = NoOne /\ dbLock' = w,
         UNCHANGED <<row, cacheVars, recv, cur, sender, batch, pollVars, closing>>
  PROVE  ManagerInv'
<1> USE MessagerAssumption DEF Writers, cacheVars, pollVars
<1>1. ManagerTypes' /\ ShutIsEmpty' /\ SenderNotNeeded'
  BY DEF ManagerInv, ManagerTypes, ShutIsEmpty, SenderNotNeeded
<1>2. /\ \A v \in Writers : v # w => work'[v] = work[v]
      /\ work'[w] = to
  BY DEF ManagerInv, ManagerTypes
<1>3. FreeIsIdle'
  BY <1>2 DEF ManagerInv, FreeIsIdle
<1>4. LockInv'
  BY <1>2 DEF ManagerInv, LockInv
<1>5. RowsInv'
  BY <1>2 DEF ManagerInv, RowsInv
<1>6. QueuedIsDue'
  BY <1>2 DEF ManagerInv, QueuedIsDue, Changed, Client
<1> QED BY <1>1, <1>3, <1>4, <1>5, <1>6 DEF ManagerInv

(* A step that takes rows out of the cache, frees or loses receivers, and  *)
(* changes no row and no transaction that is updating the cache.           *)
LEMMA ReceiverKeeps ==
  ASSUME ManagerInv, ManagerTypes', ShutIsEmpty', FreeIsIdle', SenderNotNeeded', queue' \subseteq queue,
         UNCHANGED <<row, pollVars, dbLock, closing>>,
         \A w \in Writers : work[w] \in {"commit", "update"} <=> work'[w] \in {"commit", "update"},
         \A w \in Writers : work[w] = "update" <=> work'[w] = "update",
         \A r \in Receivers : work[r] = "update" => batch'[r] = batch[r],
         \A m \in queue' : Left(m) => Left(m)'
  PROVE  ManagerInv'
<1> USE MessagerAssumption DEF Writers, pollVars
<1>1. LockInv'
  BY DEF ManagerInv, LockInv
<1>2. RowsInv'
  BY DEF ManagerInv, ManagerTypes, RowsInv
<1>3. QueuedIsDue'
  <2>1. \A w \in Writers : work[w] = "update" => Changed(w)' = Changed(w)
    BY DEF Changed, Client
  <2> QED BY <2>1 DEF ManagerInv, QueuedIsDue, Left
<1> QED BY <1>1, <1>2, <1>3 DEF ManagerInv

(* rescanReceivers makes curReceiver right again, and wakes the sender.    *)
LEMMA RescanKeeps ==
  ASSUME ManagerInv, RescanReceivers, queue' \subseteq queue, closing' = closing,
         closing \in {"none", "ticks"} /\ sender = "wait" =>
           \/ queue' = {}
           \/ cur = NoOne \/ \A r \in Receivers : recv'[r] # "free"
  PROVE  SenderNotNeeded'
<1> DEFINE free == {r \in Receivers : recv'[r] = "free"}
<1> USE MessagerAssumption
<1>1. CASE free = {} /\ cur' = NoOne
  BY <1>1 DEF SenderNotNeeded
<1>2. CASE cur' \in free /\ IF cur = NoOne THEN Broadcast ELSE UNCHANGED sender
  <2>1. free # {}
    BY <1>2
  <2>2. closing \in {"none", "ticks"} /\ sender' = "wait" => queue' = {}
    BY <1>2, <2>1 DEF Broadcast
  <2> QED BY <1>2, <2>1, <2>2 DEF SenderNotNeeded
<1> QED BY <1>1, <1>2 DEF RescanReceivers

(* What the goroutine of a batch does.                                     *)
LEMMA BatchKeeps ==
  ASSUME ManagerInv, NEW r \in Receivers, Subscribe(r) \/ Leave(r) \/ SendStep(r)
  PROVE  ManagerInv'
<1> USE MessagerAssumption DEF Writers, Advance
<1>t. /\ ManagerTypes /\ ShutIsEmpty /\ FreeIsIdle /\ SenderNotNeeded
      /\ r \in Writers /\ r \notin Messages
  BY DEF ManagerInv
<1>1. CASE SendReturns(r) \/ Postpone(r)
  <2>1. PICK to \in Steps \ {"commit", "update"} :
          work' = [work EXCEPT ![r] = to] /\ work[r] \in {"send", "admit"}
    BY <1>1 DEF SendReturns, Postpone, Steps
  <2>2. UNCHANGED <<row, cacheVars, recv, cur, sender, batch, pollVars, dbLock, closing>>
    BY <1>1 DEF SendReturns, Postpone
  <2> QED BY <1>t, <2>1, <2>2, ApproachKeeps
<1>2. CASE Subscribe(r)
  <2>1. /\ recv' = [recv EXCEPT ![r] = "busy"] /\ recv[r] = "new" /\ work[r] = "none"
        /\ work' = [work EXCEPT ![r] = "send"] /\ closing = "none"
        /\ UNCHANGED <<row, queue, cur, sender, batch, poller, polled, dbLock, closing>>
    BY <1>2, <1>t DEF Subscribe, cacheVars, pollVars, FreeIsIdle
  <2>2. ManagerTypes' /\ ShutIsEmpty' /\ FreeIsIdle'
    BY <1>t, <2>1 DEF ManagerTypes, ShutIsEmpty, FreeIsIdle, Steps
  <2>3. {q \in Receivers : recv'[q] = "free"} = {q \in Receivers : recv[q] = "free"}
    BY <1>t, <2>1 DEF ManagerTypes
  <2>4. SenderNotNeeded'
    BY <1>t, <2>1, <2>3 DEF SenderNotNeeded
  <2>5. /\ \A w \in Writers : work[w] \in {"commit", "update"} <=> work'[w] \in {"commit", "update"}
        /\ \A w \in Writers : work[w] = "update" <=> work'[w] = "update"
    BY <1>t, <2>1 DEF ManagerTypes
  <2>l. \A m \in queue' : Left(m) => Left(m)'
    BY <1>t, <2>1 DEF ManagerTypes, Left
  <2> QED BY <2>1, <2>2, <2>4, <2>5, <2>l, ReceiverKeeps DEF pollVars
<1>3. CASE Leave(r) \/ SendRefused(r)
  <2>1. /\ Unsubscribe(r) /\ UNCHANGED <<row, batch, pollVars, dbLock, closing>>
        /\ work' = work \/ (work[r] = "refused" /\ work' = [work EXCEPT ![r] = "discard"])
    BY <1>3 DEF Leave, SendRefused
  <2>2. /\ recv' = [recv EXCEPT ![r] = "gone"] /\ RescanReceivers /\ queue' \in {queue, {}}
    BY <2>1 DEF Unsubscribe, Clear, cacheVars
  <2>3. /\ \A w \in Writers : work[w] \in {"commit", "update"} <=> work'[w] \in {"commit", "update"}
        /\ \A w \in Writers : work[w] = "update" <=> work'[w] = "update"
    BY <1>t, <2>1 DEF ManagerTypes
  <2>4. ManagerTypes' /\ FreeIsIdle'
    BY <1>t, <2>1, <2>2 DEF ManagerTypes, FreeIsIdle, Steps, pollVars
  <2>5. ShutIsEmpty'
    <3>1. sender = "ended" => sender' = "ended"
      BY <2>2 DEF RescanReceivers, Broadcast
    <3> QED BY <1>t, <2>1, <2>2, <3>1 DEF ManagerTypes, ShutIsEmpty, pollVars
  <2>6. SenderNotNeeded'
    <3>1. ASSUME closing \in {"none", "ticks"}, sender = "wait", queue # {}
          PROVE  \A q \in Receivers : recv'[q] # "free"
      <4>1. \A q \in Receivers : recv[q] # "free"
        BY <1>t, <3>1 DEF SenderNotNeeded
      <4> QED BY <1>t, <2>2, <4>1 DEF ManagerTypes
    <3> QED BY <2>1, <2>2, <3>1, RescanKeeps
  <2>l. \A m \in queue' : Left(m) => Left(m)'
    BY <1>t, <2>1, <2>2 DEF ManagerTypes, Left
  <2> QED BY <2>1, <2>2, <2>3, <2>4, <2>5, <2>6, <2>l, ReceiverKeeps
<1>4. CASE SendEOF(r)
  <2>1. /\ work[r] = "eof" /\ work' = [work EXCEPT ![r] = "refused"] /\ Broadcast
        /\ UNCHANGED <<row, queue, recv, cur, batch, poller, polled, dbLock, closing>>
    BY <1>4 DEF SendEOF, cacheVars, pollVars
  <2>2. ManagerTypes' /\ ShutIsEmpty' /\ FreeIsIdle' /\ SenderNotNeeded'
    BY <1>t, <2>1 DEF ManagerTypes, ShutIsEmpty, FreeIsIdle, SenderNotNeeded, Steps, Broadcast
  <2>3. /\ \A w \in Writers : work[w] \in {"commit", "update"} <=> work'[w] \in {"commit", "update"}
        /\ \A w \in Writers : work[w] = "update" <=> work'[w] = "update"
    BY <1>t, <2>1 DEF ManagerTypes
  <2>l. \A m \in queue' : Left(m) => Left(m)'
    BY <1>t, <2>1 DEF ManagerTypes, Left
  <2> QED BY <2>1, <2>2, <2>3, <2>l, ReceiverKeeps DEF pollVars
<1>5. CASE DiscardSent(r)
  <2>1. /\ work[r] = "discard" /\ work' = [work EXCEPT ![r] = "free"]
        /\ queue' = queue \ batch[r]
        /\ UNCHANGED <<row, recv, cur, sender, batch, poller, polled, dbLock, closing>>
    BY <1>5 DEF DiscardSent, Discard, pollVars
  <2>2. ManagerTypes' /\ ShutIsEmpty' /\ FreeIsIdle' /\ SenderNotNeeded'
    BY <1>t, <2>1 DEF ManagerTypes, ShutIsEmpty, FreeIsIdle, SenderNotNeeded, Steps
  <2>3. /\ \A w \in Writers : work[w] \in {"commit", "update"} <=> work'[w] \in {"commit", "update"}
        /\ \A w \in Writers : work[w] = "update" <=> work'[w] = "update"
    BY <1>t, <2>1 DEF ManagerTypes
  <2>l. \A m \in queue' : Left(m) => Left(m)'
    BY <1>t, <2>1 DEF ManagerTypes, Left
  <2> QED BY <2>1, <2>2, <2>3, <2>l, ReceiverKeeps DEF pollVars
<1>6. CASE FreeReceiver(r)
  <2>1. /\ work[r] = "free" /\ work' = [work EXCEPT ![r] = "none"]
        /\ recv' = [recv EXCEPT ![r] = IF @ = "busy" THEN "free" ELSE @]
        /\ IF cur = NoOne THEN RescanReceivers ELSE UNCHANGED <<cur, sender>>
        /\ batch' = [batch EXCEPT ![r] = {}]
        /\ UNCHANGED <<row, queue, poller, polled, dbLock, closing>>
    BY <1>6 DEF FreeReceiver, cacheVars, pollVars
  <2>2. ManagerTypes' /\ FreeIsIdle'
    BY <1>t, <2>1 DEF ManagerTypes, FreeIsIdle, Steps
  <2>3. ShutIsEmpty'
    <3>1. sender = "ended" => sender' = "ended"
      BY <2>1 DEF RescanReceivers, Broadcast
    <3> QED BY <1>t, <2>1, <3>1 DEF ManagerTypes, ShutIsEmpty
  <2>4. SenderNotNeeded'
    <3>1. CASE cur = NoOne
      BY <2>1, <3>1, RescanKeeps
    <3>2. CASE cur # NoOne /\ closing \in {"none", "ticks"}
      <4>1. cur \in Receivers /\ recv[cur] = "free" /\ (sender = "wait" => queue = {})
        BY <1>t, <3>2 DEF SenderNotNeeded
      <4>2. recv'[cur] = "free"
        BY <1>t, <2>1, <4>1 DEF ManagerTypes
      <4> QED BY <2>1, <3>2, <4>1, <4>2 DEF SenderNotNeeded
    <3>3. CASE closing \notin {"none", "ticks"}
      BY <2>1, <3>3 DEF SenderNotNeeded
    <3> QED BY <3>1, <3>2, <3>3
  <2>5. /\ \A w \in Writers : work[w] \in {"commit", "update"} <=> work'[w] \in {"commit", "update"}
        /\ \A w \in Writers : work[w] = "update" <=> work'[w] = "update"
        /\ \A q \in Receivers : work[q] = "update" => batch'[q] = batch[q]
    BY <1>t, <2>1 DEF ManagerTypes
  <2>l. \A m \in queue' : Left(m) => Left(m)'
    BY <1>t, <2>1 DEF ManagerTypes, Left
  <2> QED BY <2>1, <2>2, <2>3, <2>4, <2>5, <2>l, ReceiverKeeps DEF pollVars
<1> QED BY <1>1, <1>2, <1>3, <1>4, <1>5, <1>6 DEF SendStep

(* runSend.                                                                *)
LEMMA SenderKeeps ==
  ASSUME ManagerInv, RunSend
  PROVE  ManagerInv'
<1> USE MessagerAssumption DEF Writers
<1>t. ManagerTypes /\ ShutIsEmpty /\ FreeIsIdle /\ SenderNotNeeded
  BY DEF ManagerInv
<1>0. sender = "run" /\ UNCHANGED <<row, poller, polled, dbLock, closing>>
  BY DEF RunSend, pollVars
<1>1. CASE UNCHANGED <<queue, recv, cur, work, batch>> /\ closing = "wait" /\ sender' = "ended"
  <2>1. ManagerTypes' /\ ShutIsEmpty' /\ FreeIsIdle' /\ SenderNotNeeded'
    BY <1>t, <1>0, <1>1 DEF ManagerTypes, ShutIsEmpty, FreeIsIdle, SenderNotNeeded
  <2>l. \A m \in queue' : Left(m) => Left(m)'
    BY <1>1 DEF ManagerTypes, Left
  <2> QED BY <1>0, <1>1, <2>1, <2>l, ReceiverKeeps DEF pollVars
<1>2. ASSUME UNCHANGED <<recv, cur, work, batch>>, queue' \subseteq queue, closing # "wait",
             sender' = "wait", cur = NoOne \/ queue' = {}
      PROVE  ManagerInv'
  <2>1. ManagerTypes' /\ ShutIsEmpty' /\ FreeIsIdle'
    BY <1>t, <1>0, <1>2 DEF ManagerTypes, ShutIsEmpty, FreeIsIdle
  <2>2. SenderNotNeeded'
    BY <1>t, <1>0, <1>2 DEF SenderNotNeeded
  <2>l. \A m \in queue' : Left(m) => Left(m)'
    BY <1>2 DEF ManagerTypes, Left
  <2> QED BY <1>0, <1>2, <2>1, <2>2, <2>l, ReceiverKeeps DEF pollVars
<1>3. ASSUME closing # "wait", cur # NoOne, NEW B \in SUBSET queue, PopBatch(B),
             IF B = {} THEN sender' = "wait" /\ UNCHANGED <<recv, cur, work, batch>>
             ELSE /\ recv' = [recv EXCEPT ![cur] = "busy"]
                  /\ RescanReceivers
                  /\ work' = [work EXCEPT ![cur] = "send"]
                  /\ batch' = [batch EXCEPT ![cur] = B]
      PROVE  ManagerInv'
  <2>1. CASE B = {}
    <3>1. Cardinality({}) = 0
      BY FS_EmptySet
    <3>2. queue = {} /\ queue' = {}
      BY <1>3, <2>1, <3>1 DEF PopBatch
    <3> QED BY <1>2, <1>3, <2>1, <3>2
  <2>2. CASE B # {}
    <3>1. closing \in {"none", "ticks"}
      BY <1>t, <1>0, <1>3 DEF ShutIsEmpty, ManagerTypes
    <3>2. cur \in Receivers /\ recv[cur] = "free" /\ work[cur] = "none"
      BY <1>t, <1>3, <3>1 DEF SenderNotNeeded, FreeIsIdle
    <3>3. queue' \subseteq queue /\ B \subseteq Messages
      BY <1>t, <1>3 DEF PopBatch, ManagerTypes
    <3>4. ManagerTypes' /\ ShutIsEmpty' /\ FreeIsIdle'
      BY <1>t, <1>0, <1>3, <2>2, <3>1, <3>2, <3>3, SMT DEF ManagerTypes, ShutIsEmpty, FreeIsIdle, Steps
    <3>5. SenderNotNeeded'
      BY <1>0, <1>3, <2>2, <3>3, RescanKeeps
    <3>6. /\ \A w \in Writers : work[w] \in {"commit", "update"} <=> work'[w] \in {"commit", "update"}
          /\ \A w \in Writers : work[w] = "update" <=> work'[w] = "update"
          /\ \A r \in Receivers : work[r] = "update" => batch'[r] = batch[r]
      BY <1>t, <1>3, <2>2, <3>2 DEF ManagerTypes
    <3>7. \A m \in queue' : Left(m) => Left(m)'
      BY <1>t, <1>3, <2>2, <3>2, <3>3 DEF ManagerTypes, Left
    <3> QED BY <1>0, <3>3, <3>4, <3>5, <3>6, <3>7, ReceiverKeeps DEF pollVars
  <2> QED BY <2>1, <2>2
<1> QED BY <1>1, <1>2, <1>3 DEF RunSend, cacheVars

(* Two transactions do not commit and update the cache at the same time,   *)
(* nor does one while the poller has rows to add.                          *)
LEMMA OneUpdates ==
  ASSUME ManagerInv, closing # "done", NEW w \in Writers, work[w] \in {"commit", "update"}
  PROVE  /\ dbLock = w /\ poller # "read"
         /\ \A v \in Writers : v # w => work[v] \notin {"commit", "update"}
BY MessagerAssumption DEF ManagerInv, LockInv, Writers

(* A transaction commits, or fails to.                                     *)
LEMMA CommitKeeps ==
  ASSUME ManagerInv, NEW w \in Writers, Commit(w)
  PROVE  ManagerInv'
<1> USE MessagerAssumption DEF Writers
<1>t. ManagerTypes /\ ShutIsEmpty /\ FreeIsIdle /\ SenderNotNeeded
  BY DEF ManagerInv
<1>0. /\ UNCHANGED <<queue, recv, cur, sender, batch, poller, polled, closing>>
      /\ work[w] = "commit" /\ work' = [work EXCEPT ![w] = work'[w]]
      /\ work'[w] \in {"update", "failed", "none", "discard"}
  BY <1>t DEF Commit, Advance, After, cacheVars, pollVars, ManagerTypes
<1>1. FreeIsIdle' /\ SenderNotNeeded' /\ ShutIsEmpty'
  BY <1>t, <1>0 DEF ManagerTypes, FreeIsIdle, SenderNotNeeded, ShutIsEmpty
<1>2. \A v \in Writers : v # w => work'[v] = work[v]
  BY <1>t, <1>0 DEF ManagerTypes
<1>3. \A m \in Messages : Left(m) => Left(m)'
  BY <1>0, <1>2 DEF Left
<1>4. CASE UNCHANGED row /\ ReleaseDBLock(w) /\ work'[w] # "update"
  <2>1. ManagerTypes'
    BY <1>t, <1>0, <1>4 DEF ManagerTypes, Steps
  <2>2. LockInv'
    <3>1. CASE closing = "done"
      BY <1>t, <1>0, <1>4, <3>1 DEF LockInv, ShutIsEmpty
    <3>2. CASE closing # "done"
      BY <1>0, <1>2, <1>4, <3>2, OneUpdates DEF LockInv
    <3> QED BY <3>1, <3>2
  <2>3. RowsInv'
    BY <1>0, <1>2, <1>4 DEF ManagerInv, RowsInv
  <2>4. QueuedIsDue'
    BY <1>t, <1>0, <1>2, <1>3, <1>4
    DEF ManagerInv, ManagerTypes, QueuedIsDue, Left, Changed, Client
  <2> QED BY <1>1, <2>1, <2>2, <2>3, <2>4 DEF ManagerInv
<1>5. CASE /\ Apply(w)
           /\ \/ work'[w] = "update" /\ dbLock' = dbLock
              \/ /\ ReleaseDBLock(w)
                 /\ work'[w] = IF Client(w) /\ row[w] # "none" THEN "failed" ELSE After(w)
  <2>1. PICK new \in [Changed(w) -> {"due", "later", "acked"}] :
          /\ \A m \in Changed(w) : new[m] \in NewRow(w, m)
          /\ row' = [m \in Messages |-> IF m \in Changed(w) THEN new[m] ELSE row[m]]
    BY <1>5 DEF Apply
  <2>2. \A m \in Messages :
          /\ m \notin Changed(w) => row'[m] = row[m]
          /\ m \in Changed(w) => row'[m] \in NewRow(w, m) /\ row'[m] \in {"due", "later", "acked"}
    BY <2>1
  <2>3. ManagerTypes'
    BY <1>t, <1>0, <1>5, <2>1, <2>2, SMT DEF ManagerTypes, ReleaseDBLock, Steps
  <2>4. LockInv'
    <3>1. CASE closing = "done"
      BY <1>t, <1>0, <1>5, <3>1 DEF LockInv, ShutIsEmpty
    <3>2. CASE closing # "done"
      BY <1>0, <1>2, <1>5, <3>2, OneUpdates DEF ManagerInv, LockInv, ReleaseDBLock, After
    <3> QED BY <3>1, <3>2
  <2>5. \A m \in Messages : row'[m] # "none" \/ row'[m] = row[m]
    BY <2>2
  <2>6. CASE queue = {}
    <3>1. QueuedIsDue' /\ (poller = "read" => closing # "done")
      BY <1>t, <1>0, <2>6 DEF QueuedIsDue, ShutIsEmpty
    <3>2. RowsInv'
      BY <1>0, <2>6, <3>1, OneUpdates DEF RowsInv
    <3> QED BY <1>1, <2>3, <2>4, <3>1, <3>2 DEF ManagerInv
  <2>7. CASE queue # {}
    <3>0. closing # "done"
      BY <1>t, <2>7 DEF ShutIsEmpty
    <3>1. poller # "read" /\ \A v \in Writers : v # w => work[v] # "update"
      BY <1>0, <3>0, OneUpdates
    <3>2. \A m \in queue : row[m] # "none" /\ (row[m] = "due" \/ Left(m))
      BY <1>0, <3>1 DEF ManagerInv, RowsInv, QueuedIsDue, Left
    <3>3. \A m \in Messages : m \in Changed(w) => m \in Changed(w)'
      BY <1>0, <2>2 DEF Changed, Client, NewRow
    <3>4. ASSUME NEW m \in queue, m \in Changed(w), work'[w] # "update"
          PROVE  Left(m)'
      <4>1. CASE Client(w)
        BY <1>5, <3>2, <3>4, <4>1 DEF Changed, Left
      <4>2. CASE ~Client(w)
        BY <1>0, <1>5, <3>4, <4>2 DEF Changed, Client, After, Left
      <4> QED BY <4>1, <4>2
    <3>5. QueuedIsDue'
      <4> SUFFICES ASSUME NEW m \in queue
                   PROVE  \/ row'[m] = "due" \/ Left(m)'
                          \/ \E v \in Writers : work'[v] = "update" /\ m \in Changed(v)'
        BY <1>0 DEF QueuedIsDue, Left
      <4>1. m \in Messages
        BY <1>t DEF ManagerTypes
      <4>2. CASE m \in Changed(w)
        BY <3>3, <3>4, <4>1, <4>2
      <4>3. CASE m \notin Changed(w)
        BY <1>3, <2>2, <3>2, <4>1, <4>3
      <4> QED BY <4>2, <4>3
    <3>6. ASSUME NEW m \in Messages, work'[m] = "update", row'[m] = "later", m \in queue
          PROVE  FALSE
      <4>1. m = w /\ row[m] # "none"
        BY <1>2, <3>1, <3>2, <3>6
      <4>2. m \in Changed(w) /\ NewRow(w, m) = {"acked"}
        BY <4>1 DEF Changed, Client, NewRow
      <4> QED BY <2>2, <3>6, <4>2
    <3>7. RowsInv'
      BY <1>t, <1>0, <2>5, <3>1, <3>2, <3>6 DEF RowsInv, ManagerTypes
    <3> QED BY <1>1, <2>3, <2>4, <3>5, <3>7 DEF ManagerInv
  <2> QED BY <2>6, <2>7
<1> QED BY <1>4, <1>5, <1>t DEF Commit, Advance, After, ManagerTypes

(* The cache is brought up to date, and DBLock released.                   *)
LEMMA UpdateKeeps ==
  ASSUME ManagerInv, NEW w \in Writers, UpdateCaches(w)
  PROVE  ManagerInv'
<1> USE MessagerAssumption DEF Writers
<1>t. ManagerTypes /\ ShutIsEmpty /\ FreeIsIdle /\ SenderNotNeeded
  BY DEF ManagerInv
<1>0. /\ UNCHANGED <<row, recv, cur, batch, poller, polled, closing>>
      /\ work[w] = "update" /\ work' = [work EXCEPT ![w] = After(w)]
      /\ After(w) \in {"none", "discard"} /\ ReleaseDBLock(w) /\ MuFree
  BY DEF UpdateCaches, Advance, After, pollVars
<1>1. work'[w] # "update" /\ \A v \in Writers : v # w => work'[v] = work[v]
  BY <1>t, <1>0 DEF ManagerTypes
<1>2. FreeIsIdle'
  BY <1>t, <1>0, <1>1 DEF FreeIsIdle
<1>3. \A v \in Writers : Changed(v)' = Changed(v)
  BY <1>0 DEF Changed, Client
<1>4. CASE closing = "done"
  <2>1. UNCHANGED <<queue, sender>>
    BY <1>4 DEF UpdateCaches, cacheVars
  <2>2. ManagerTypes'
    BY <1>t, <1>0, <2>1 DEF ManagerTypes, Steps
  <2>3. ShutIsEmpty' /\ SenderNotNeeded' /\ LockInv' /\ RowsInv' /\ QueuedIsDue'
    BY <1>t, <1>0, <1>4, <2>1 DEF ShutIsEmpty, SenderNotNeeded, LockInv, RowsInv, QueuedIsDue
  <2> QED BY <1>2, <2>2, <2>3 DEF ManagerInv
<1>5. CASE closing # "done"
  <2>1. dbLock = w /\ poller # "read" /\ \A v \in Writers : v # w => work[v] \notin {"commit", "update"}
    BY <1>0, <1>5, OneUpdates
  <2>2. LockInv'
    BY <1>0, <1>1, <2>1, SMT DEF LockInv
  <2>3. closing = "none"
    BY <1>0, <1>5 DEF MuFree
  <2>4. \A v \in Writers : work'[v] # "update"
    BY <1>1, <2>1
  <2>5. /\ queue' \subseteq queue \cup (IF w \in Messages /\ row[w] = "due" THEN {w} ELSE {})
        /\ queue' \subseteq queue \/ sender' # "wait"
        /\ sender' = "wait" => sender = "wait"
        /\ \A m \in Changed(w) : m \in queue' => row[m] = "due"
    <3>1. CASE Client(w) /\ row[w] = "due"
      <4>1. AddMessage(w)
        BY <1>5, <3>1 DEF UpdateCaches
      <4> QED BY <3>1, <4>1 DEF AddMessage, cacheVars, Broadcast, Client, Changed
    <3>2. CASE Client(w) /\ row[w] = "later"
      <4>1. UNCHANGED <<queue, sender>>
        BY <1>5, <3>2 DEF UpdateCaches, cacheVars
      <4>2. w \notin queue
        BY <1>0, <3>2 DEF ManagerInv, RowsInv, Client
      <4> QED BY <3>2, <4>1, <4>2 DEF Changed
    <3>3. CASE ~(Client(w) /\ row[w] \in {"due", "later"})
      <4>1. Discard(Changed(w)) /\ UNCHANGED sender
        BY <1>5, <3>3 DEF UpdateCaches
      <4> QED BY <4>1 DEF Discard
    <3> QED BY <3>1, <3>2, <3>3
  <2>6. ManagerTypes'
    BY <1>t, <1>0, <2>5 DEF ManagerTypes, Steps
  <2>7. ShutIsEmpty'
    BY <1>0, <2>3 DEF ShutIsEmpty
  <2>8. SenderNotNeeded'
    BY <1>t, <1>0, <2>5 DEF SenderNotNeeded
  <2>9. QueuedIsDue'
    <3>1. ASSUME NEW m \in queue' PROVE row[m] = "due" \/ Left(m)
      <4>1. CASE m \in queue /\ m \notin Changed(w)
        BY <2>1, <4>1 DEF ManagerInv, QueuedIsDue, Left
      <4>2. CASE m \in Changed(w)
        BY <2>5, <3>1, <4>2
      <4>3. CASE m \notin queue
        BY <2>5, <3>1, <4>3
      <4> QED BY <4>1, <4>2, <4>3
    <3>2. \A m \in queue' : Left(m) => Left(m)'
      BY <1>t, <1>0, <1>1, <2>6 DEF ManagerTypes, Left
    <3> QED BY <1>0, <3>1, <3>2 DEF QueuedIsDue, Left
  <2>10. RowsInv'
    <3>1. \A m \in queue' : row[m] # "none"
      BY <2>5 DEF ManagerInv, RowsInv
    <3> QED BY <1>0, <2>1, <2>4, <3>1 DEF RowsInv
  <2> QED BY <1>2, <2>2, <2>6, <2>7, <2>8, <2>9, <2>10 DEF ManagerInv
<1> QED BY <1>4, <1>5

(* The transactions of clients and of the receivers, and the clock.        *)
LEMMA WritersKeep ==
  ASSUME ManagerInv,
         \/ \E w \in Writers : WriteStep(w)
         \/ \E m \in Messages : ClientBegins(m) \/ Elapse(m)
  PROVE  ManagerInv'
<1> USE MessagerAssumption DEF Writers, Advance
<1>1. ASSUME NEW w \in Writers, Generate(w) \/ Write(w) \/ LockDB(w) \/ TakeDBLock(w)
      PROVE  ManagerInv'
  <2>1. PICK to \in Steps \ {"update"} :
          /\ work' = [work EXCEPT ![w] = to]
          /\ work[w] \in {"generate", "write", "lockdb", "dblock"}
          /\ \/ dbLock' = dbLock /\ (to = "commit" => closing = "done")
             \/ dbLock = NoOne /\ dbLock' = w
    BY <1>1 DEF Generate, Write, LockDB, TakeDBLock, After, Steps
  <2>2. UNCHANGED <<row, cacheVars, recv, cur, sender, batch, pollVars, closing>>
    BY <1>1 DEF Generate, Write, LockDB, TakeDBLock
  <2>3. work[w] \notin {"commit", "update", "failed", "discard"} /\ work[w] # "none"
    BY <2>1
  <2> QED BY <1>1, <2>1, <2>2, <2>3, ApproachKeeps
<1>2. ASSUME NEW m \in Messages, ClientBegins(m) PROVE ManagerInv'
  <2>1. "generate" \in Steps \ {"update"} /\ m \in Writers
    BY DEF Steps
  <2>2. /\ work[m] = "none" /\ work' = [work EXCEPT ![m] = "generate"] /\ dbLock' = dbLock
        /\ UNCHANGED <<row, cacheVars, recv, cur, sender, batch, pollVars, closing>>
    BY <1>2 DEF ClientBegins
  <2> QED BY <1>2, <2>1, <2>2, ApproachKeeps
<1>3. ASSUME NEW m \in Messages, Elapse(m) PROVE ManagerInv'
  <2>t. ManagerTypes /\ ShutIsEmpty /\ FreeIsIdle /\ SenderNotNeeded /\ LockInv /\ RowsInv /\ QueuedIsDue
    BY DEF ManagerInv
  <2>1. /\ row[m] = "later" /\ row' = [row EXCEPT ![m] = "due"]
        /\ UNCHANGED <<queue, recv, cur, sender, work, batch, poller, polled, dbLock, closing>>
    BY <1>3 DEF Elapse, cacheVars, pollVars
  <2>2. row'[m] = "due" /\ \A q \in Messages : q # m => row'[q] = row[q]
    BY <2>t, <2>1 DEF ManagerTypes
  <2>3. ManagerTypes' /\ ShutIsEmpty' /\ FreeIsIdle' /\ SenderNotNeeded' /\ LockInv'
    BY <2>t, <2>1 DEF ManagerTypes, ShutIsEmpty, FreeIsIdle, SenderNotNeeded, LockInv
  <2>4. RowsInv'
    BY <2>t, <2>1, <2>2 DEF ManagerTypes, RowsInv
  <2>5. \A w \in Writers, q \in Messages : q \in Changed(w) => q \in Changed(w)'
    BY <2>1, <2>2 DEF Changed, Client
  <2>6. QueuedIsDue'
    BY <2>t, <2>1, <2>2, <2>5 DEF ManagerTypes, QueuedIsDue
  <2> QED BY <2>3, <2>4, <2>6 DEF ManagerInv
<1> QED BY <1>1, <1>2, <1>3, CommitKeeps, UpdateKeeps DEF WriteStep

(* runPoller.                                                              *)
LEMMA PollerKeeps ==
  ASSUME ManagerInv, PollStep
  PROVE  ManagerInv'
<1> USE MessagerAssumption DEF Writers
<1>t. ManagerTypes /\ ShutIsEmpty /\ FreeIsIdle /\ SenderNotNeeded /\ LockInv /\ RowsInv /\ QueuedIsDue
  BY DEF ManagerInv
<1>0. UNCHANGED <<row, recv, cur, work, batch, closing>>
  BY DEF PollStep, PollTick, PollRead, PollFails, PollAdd
<1>f. FreeIsIdle' /\ \A w \in Writers : Changed(w)' = Changed(w)
  BY <1>t, <1>0 DEF FreeIsIdle, Changed, Client
<1>1. CASE PollTick \/ PollFails
  <2>1. /\ UNCHANGED <<queue, sender, polled, dbLock>> /\ poller' \in {"idle", "poll"}
        /\ closing \in {"wait", "done"} => poller' = "idle"
    BY <1>t, <1>1 DEF PollTick, PollFails, cacheVars, ShutIsEmpty
  <2>2. ManagerTypes' /\ ShutIsEmpty' /\ SenderNotNeeded' /\ LockInv' /\ RowsInv'
    BY <1>t, <1>0, <2>1 DEF ManagerTypes, ShutIsEmpty, SenderNotNeeded, LockInv, RowsInv
  <2>3. QueuedIsDue'
    BY <1>t, <1>0, <1>f, <2>1 DEF QueuedIsDue
  <2> QED BY <1>f, <2>2, <2>3 DEF ManagerInv
<1>2. CASE PollRead
  <2>1. /\ UNCHANGED <<queue, sender>> /\ polled' \subseteq {m \in Messages : row[m] = "due"}
        /\ poller = "poll" /\ poller' = "read" /\ dbLock = NoOne /\ dbLock' = Poller
    BY <1>2 DEF PollRead, cacheVars
  <2>2. ManagerTypes' /\ ShutIsEmpty' /\ SenderNotNeeded' /\ LockInv'
    BY <1>t, <1>0, <2>1 DEF ManagerTypes, ShutIsEmpty, SenderNotNeeded, LockInv
  <2>3. RowsInv' /\ QueuedIsDue'
    BY <1>t, <1>0, <1>f, <2>1 DEF QueuedIsDue, RowsInv
  <2> QED BY <1>f, <2>2, <2>3 DEF ManagerInv
<1>3. CASE PollAdd
  <2>0. poller = "read" /\ poller' = "idle" /\ polled' = {} /\ dbLock' = NoOne /\ dbLock = Poller
    BY <1>t, <1>3 DEF PollAdd, LockInv
  <2>1. /\ queue' \subseteq queue \cup polled /\ (queue' = queue \/ sender' # "wait")
        /\ sender' = "wait" => sender = "wait"
    <3>1. CASE UNCHANGED <<queue, sender>>
      BY <3>1
    <3>2. CASE AddPolled /\ IF polled # {} THEN Broadcast ELSE UNCHANGED sender
      <4>1. PICK A \in SUBSET polled : queue' = queue \cup A
        BY <3>2 DEF AddPolled
      <4> QED BY <3>2, <4>1 DEF Broadcast
    <3> QED BY <1>3, <3>1, <3>2 DEF PollAdd
  <2>2. closing \in {"none", "ticks"} /\ \A w \in Writers : work[w] \notin {"commit", "update"}
    BY <1>t, <2>0 DEF ShutIsEmpty, LockInv, ManagerTypes
  <2>3. ManagerTypes' /\ ShutIsEmpty' /\ LockInv'
    BY <1>t, <1>0, <2>0, <2>1, <2>2 DEF ManagerTypes, ShutIsEmpty, LockInv
  <2>4. SenderNotNeeded'
    BY <1>t, <1>0, <2>1 DEF SenderNotNeeded
  <2>5. \A m \in queue' : row[m] # "none" /\ (row[m] = "due" \/ Left(m))
    BY <1>t, <2>0, <2>1, <2>2 DEF QueuedIsDue, RowsInv, Left
  <2>6. QueuedIsDue' /\ RowsInv'
    BY <1>0, <2>0, <2>2, <2>5 DEF QueuedIsDue, RowsInv, Left
  <2> QED BY <1>f, <2>3, <2>4, <2>6 DEF ManagerInv
<1> QED BY <1>1, <1>2, <1>3 DEF PollStep

(* Engine.Close.                                                           *)
LEMMA CloserKeeps ==
  ASSUME ManagerInv, StartClosing \/ ClosingStep
  PROVE  ManagerInv'
<1> USE MessagerAssumption DEF Writers
<1>t. ManagerTypes /\ ShutIsEmpty /\ FreeIsIdle /\ SenderNotNeeded /\ LockInv /\ RowsInv /\ QueuedIsDue
  BY DEF ManagerInv
<1>0. UNCHANGED <<row, work, batch, poller, polled, dbLock>>
  BY DEF StartClosing, ClosingStep, ShutManager, CloseReturns, pollVars
<1>f. \A w \in Writers : Changed(w)' = Changed(w)
  BY <1>0 DEF Changed, Client
<1>1. CASE StartClosing \/ CloseReturns
  <2>1. /\ UNCHANGED <<queue, recv, cur, sender>>
        /\ \/ closing = "none" /\ closing' = "ticks"
           \/ closing = "wait" /\ closing' = "done" /\ sender = "ended"
    BY <1>1 DEF StartClosing, CloseReturns, cacheVars
  <2>2. ManagerTypes' /\ ShutIsEmpty' /\ FreeIsIdle' /\ SenderNotNeeded' /\ LockInv' /\ RowsInv'
    BY <1>t, <1>0, <2>1 DEF ManagerTypes, ShutIsEmpty, FreeIsIdle, SenderNotNeeded, LockInv, RowsInv
  <2>3. QueuedIsDue'
    BY <1>t, <1>0, <1>f, <2>1 DEF QueuedIsDue
  <2> QED BY <2>2, <2>3 DEF ManagerInv
<1>2. CASE ShutManager
  <2>1. /\ queue' = {} /\ recv' = [r \in Receivers |-> "gone"] /\ poller = "idle"
        /\ closing = "ticks" /\ closing' = "wait"
    BY <1>2 DEF ShutManager, Clear
  <2>2. ManagerTypes' /\ ShutIsEmpty' /\ FreeIsIdle' /\ SenderNotNeeded' /\ LockInv'
    BY <1>t, <1>0, <2>1 DEF ManagerTypes, ShutIsEmpty, FreeIsIdle, SenderNotNeeded, LockInv
  <2>3. RowsInv' /\ QueuedIsDue'
    BY <1>0, <2>1 DEF RowsInv, QueuedIsDue
  <2> QED BY <2>2, <2>3 DEF ManagerInv
<1> QED BY <1>1, <1>2 DEF ClosingStep

(* ManagerInv is an invariant of the message manager, from Open to Close.  *)
THEOREM ManagerInvariant == MessagerSpec => []ManagerInv
<1>1. MessagerInit => ManagerInv
  BY ManagerInit
<1>2. ASSUME ManagerInv, [MessagerNext]_messagerVars PROVE ManagerInv'
  <2>1. CASE UNCHANGED messagerVars
    <3>1. UNCHANGED <<row, queue, recv, cur, sender, work, batch, poller, polled, dbLock, closing>>
      BY <2>1 DEF messagerVars, cacheVars, pollVars
    <3>2. \A w \in Writers : Changed(w)' = Changed(w)
      BY <3>1 DEF Changed, Client
    <3> QED BY <1>2, <3>1, <3>2, SMT DEF ManagerInv, ManagerTypes, ShutIsEmpty, FreeIsIdle,
        SenderNotNeeded, LockInv, RowsInv, QueuedIsDue
  <2>2. CASE MessagerNext
    BY <1>2, <2>2, BatchKeeps, WritersKeep, SenderKeeps, PollerKeeps, CloserKeeps DEF MessagerNext
  <2> QED BY <1>2, <2>1, <2>2
<1> QED BY <1>1, <1>2, PTL DEF MessagerSpec

(* SenderNotNeeded: no wakeup of the sender is lost.                       *)
THEOREM NoLostWakeup == MessagerSpec => []SenderNotNeeded
<1>1. ManagerInv => SenderNotNeeded
  BY DEF ManagerInv
<1> QED BY <1>1, ManagerInvariant, PTL

(* QueuedIsDue: DBLock keeps the cache in step with the table.             *)
THEOREM CacheFollowsTable == MessagerSpec => []QueuedIsDue
<1>1. ManagerInv => QueuedIsDue
  BY DEF ManagerInv
<1> QED BY <1>1, ManagerInvariant, PTL
=============================================================================
