---------------------------- MODULE VReplication ----------------------------
(***************************************************************************)
(* One VReplication stream (tabletmanager/vreplication): a controller that *)
(* runs and retries the replicator, the copier that copies the tables of   *)
(* the source one after the other in batches of rows ordered by primary    *)
(* key, and the player that replays the source's row events, before a copy *)
(* (catchup), up to a copy's snapshot (fastForward) and for good (play).   *)
(* What survives a restart is in the target database: the rows, the        *)
(* position, the state of the stream and the copy state.                   *)
(*                                                                         *)
(* The source is a log of transactions; a transaction is a DDL statement   *)
(* or a sequence of row changes, each giving a table, a primary key and    *)
(* the value the row then has, Absent when it is deleted.                  *)
(***************************************************************************)
EXTENDS Naturals, Sequences

CONSTANTS
  CopiedTables,  \* the tables the filter matches
  MaxPK,         \* primary keys are 1 .. MaxPK
  Log,           \* what the source executes
  Streams        \* the streams that may be created, as records:
                 \*   stopPos    stop_pos, 0 when there is none
                 \*   stopOnDdl  OnDdl is STOP, and IGNORE otherwise
                 \*   star       the filter selects *, or names its columns

ASSUME VReplicationAssumption ==
  /\ MaxPK \in Nat /\ Len(Log) > 0
  /\ Log \in Seq([ddl : BOOLEAN,
                  rows : Seq([table : CopiedTables, pk : 1..MaxPK, value : Nat])])
  /\ \A p \in DOMAIN Log : Log[p].ddl => Log[p].rows = <<>>
  /\ Streams \subseteq [stopPos : Nat, stopOnDdl : BOOLEAN, star : BOOLEAN]

VARIABLES
  stream,   \* what the row of _vt.vreplication asks for
  srcPos,   \* how much of Log the source has executed
  rows,     \* the target's tables
  vpos,     \* pos of _vt.vreplication, 0 when it is empty
  vstate,   \* state of _vt.vreplication
  lastpk,   \* _vt.copy_state: the last key copied, 0 for none, Copied: no row
  inTx,     \* dbClient.InTransaction
  txRows,   \* what dbClient sees while in a transaction
  at,       \* where the controller's goroutine is
  player,   \* the vplayer
  copying,  \* the table being copied
  snap,     \* the position of its snapshot
  dangling, \* the position of a transaction catchup left open, 0 for none
  tainted   \* something was saved with a position that is not its own

sourceVars == <<stream, srcPos>>
targetVars == <<rows, vpos, vstate, lastpk>>
txVars == <<inTx, txRows, dangling>>
copyVars == <<copying, snap>>
vreplicationVars ==
  <<sourceVars, targetVars, txVars, at, player, copyVars, tainted>>

Absent == 0
Copied == MaxPK + 1
PKs == 1..MaxPK
Places == {"off", "read", "catchup", "open", "ff", "copy", "play", "retry"}
NoTable == "none"

EmptyTables == [t \in CopiedTables |-> [k \in PKs |-> Absent]]

Put(tables, c) == [tables EXCEPT ![c.table][c.pk] = c.value]

\* The places of the row changes in the log: transaction and number.
ChangePlaces == UNION {{p} \X DOMAIN Log[p].rows : p \in DOMAIN Log}
Change(x) == Log[x[1]].rows[x[2]]
UpTo(x, p, i) == x[1] < p \/ (x[1] = p /\ x[2] <= i)

\* The changes of a row up to the i-th one of the p-th transaction.
RowChanges(t, k, p, i) ==
  {x \in ChangePlaces : Change(x).table = t /\ Change(x).pk = k /\ UpTo(x, p, i)}

LastChange(t, k, p, i) ==
  {x \in RowChanges(t, k, p, i) : \A y \in RowChanges(t, k, p, i) : UpTo(y, x[1], x[2])}

\* What the source's tables are after it: a row is as its last change left it.
SourceAfter(p, i) ==
  [t \in CopiedTables |-> [k \in PKs |->
     IF LastChange(t, k, p, i) = {} THEN Absent
     ELSE Change(CHOOSE x \in LastChange(t, k, p, i) : TRUE).value]]

\* And at each position.
SourceAt == [p \in 0..Len(Log) |-> SourceAfter(p + 1, 0)]

NewPlayer(pos) ==
  [pos |-> pos, idx |-> 0, open |-> FALSE, unsaved |-> FALSE, behind |-> FALSE]

VReplicationTypeOK ==
  /\ stream \in Streams
  /\ srcPos \in 1..Len(Log)
  /\ rows \in [CopiedTables -> [PKs -> Nat]]
  /\ vpos \in 0..Len(Log)
  /\ vstate \in {"Init", "Copying", "Running", "Stopped"}
  /\ lastpk \in [CopiedTables -> 0..Copied]
  /\ inTx \in BOOLEAN /\ txRows \in [CopiedTables -> [PKs -> Nat]]
  /\ at \in Places
  /\ player.pos \in 0..Len(Log) /\ player.idx \in Nat
  /\ {player.open, player.unsaved, player.behind} \subseteq BOOLEAN
  /\ copying \in CopiedTables \cup {NoTable} /\ snap \in 0..Len(Log)
  /\ dangling \in 0..Len(Log) /\ tainted \in BOOLEAN

\* A stream is created without a position, to copy the tables first, or with
\* one, over tables that are already those of the source at that position.
\* It may be created stopped.
VReplicationInit ==
  /\ stream \in Streams
  /\ srcPos = 1
  /\ \/ vpos = 0 /\ vstate \in {"Init", "Stopped"} /\ rows = EmptyTables
     \/ vpos = 1 /\ vstate \in {"Running", "Stopped"} /\ rows = SourceAt[1]
  /\ lastpk = [t \in CopiedTables |-> Copied]
  /\ inTx = FALSE /\ txRows = EmptyTables
  /\ at = (IF vstate = "Stopped" THEN "off" ELSE "read")
  /\ player = NewPlayer(0)
  /\ copying = NoTable /\ snap = 0 /\ dangling = 0 /\ tainted = FALSE

-----------------------------------------------------------------------------
(* The source, the database connection, and the ways a pass can end.       *)

SourceExecutes ==
  /\ srcPos < Len(Log)
  /\ srcPos' = srcPos + 1
  /\ UNCHANGED <<stream, targetVars, txVars, at, player, copyVars, tainted>>

\* What the next statement of dbClient works on.
View == IF inTx THEN txRows ELSE rows

Rollback == inTx' = FALSE /\ txRows' = EmptyTables /\ dangling' = 0

\* A commit of rows that belong to position pos.
CommitAt(pos) ==
  /\ inTx' = FALSE /\ txRows' = EmptyTables /\ dangling' = 0
  /\ tainted' = (tainted \/ dangling > pos)

\* The replicator returns an error, its connection is closed, and the
\* controller will retry.
Errs ==
  /\ at' = "retry"
  /\ Rollback
  /\ UNCHANGED <<sourceVars, targetVars, player, copyVars, tainted>>

Retry ==
  /\ at = "retry"
  /\ at' = "read"
  /\ UNCHANGED <<sourceVars, targetVars, txVars, player, copyVars, tainted>>

\* The process crashes, or the engine closes and waits for the controller.
StopController ==
  /\ at # "off"
  /\ at' = "off"
  /\ Rollback
  /\ UNCHANGED <<sourceVars, targetVars, player, copyVars, tainted>>

\* Faulty variant: only a stream that was running is started again.
NewControllerRunning ==
  /\ at = "off" /\ vstate = "Running"
  /\ at' = "read"
  /\ UNCHANGED <<sourceVars, targetVars, txVars, player, copyVars, tainted>>

\* The engine opens: a stream that is not stopped gets a running controller.
NewController ==
  /\ at = "off" /\ vstate # "Stopped"
  /\ at' = "read"
  /\ UNCHANGED <<sourceVars, targetVars, txVars, player, copyVars, tainted>>

\* Exec of an update: the controller is stopped, the row is changed, and a
\* new controller takes its place.
ExecUpdate(s) ==
  /\ s # vstate
  /\ vstate' = s
  /\ at' = IF s = "Stopped" THEN "off" ELSE "read"
  /\ Rollback
  /\ UNCHANGED <<sourceVars, rows, vpos, lastpk, player, copyVars, tainted>>

-----------------------------------------------------------------------------
(* The player.                                                             *)

\* stopPos of the vplayer; fastForward pauses at the snapshot instead.
PlayUntil == IF at = "ff" THEN snap ELSE stream.stopPos

Playing == at \in {"catchup", "ff", "play"}

\* play has returned to catchup, which reports it as io.EOF, unless it looks at
\* the lag first: then it drops the result and the copy goes on.
CatchupReturns == at' = "retry" \/ (~player.behind /\ at' = "open")

\* play returns: a pause resumes the copy, and otherwise the stream is over.
PlayReturns ==
  \/ at = "ff" /\ at' = "copy"
  \/ at = "play" /\ at' = "off"
  \/ at = "catchup" /\ CatchupReturns

\* The events of a table that is not copied yet are not asked for.
Streamed(t) == lastpk[t] # 0

\* Faulty variant: the constraint leaves the last key out.
SelectedBefore(c) == stream.star \/ c.pk < lastpk[c.table]

\* The plan for a partly copied table constrains the key, unless the columns
\* were not known when it was built.
Selected(c) == stream.star \/ c.pk <= lastpk[c.table]

\* Inserting over a row is an error; updating or deleting no row is not.
Inserts(c) == SourceAfter(player.pos, player.idx)[c.table][c.pk] = Absent

NextChange == Change(<<player.pos, player.idx + 1>>)

InOpenTransaction == Playing /\ player.open /\ ~Log[player.pos].ddl

NextIsRow == InOpenTransaction /\ player.idx < Len(Log[player.pos].rows)

\* The row event is applied to a table, and its insert finds the key there.
Applied(c) == Streamed(c.table) /\ Selected(c)
Duplicate(c) ==
  c.value # Absent /\ Inserts(c) /\ View[c.table][c.pk] # Absent

\* GTID: the position is known, and not to be saved before the commit.  It is
\* never beyond the stop position, as the code says (StopNotPassed).
PlayGTID ==
  /\ Playing /\ ~player.open /\ player.pos < srcPos
  /\ player' = [player EXCEPT !.pos = @ + 1, !.idx = 0, !.open = TRUE,
                              !.unsaved = FALSE]
  /\ UNCHANGED <<sourceVars, targetVars, txVars, at, copyVars, tainted>>

\* ROW: begin if need be, and execute the statements of the change.
PlayRow ==
  /\ NextIsRow
  /\ LET c == NextChange
         missing == c.value # Absent /\ ~Inserts(c)
                      /\ View[c.table][c.pk] = Absent
     IN  /\ Applied(c) => ~Duplicate(c)
         /\ inTx' = (inTx \/ Streamed(c.table)) /\ UNCHANGED dangling
         /\ txRows' = IF Applied(c) /\ ~missing
                        THEN Put(View, c)
                        ELSE IF inTx' THEN View ELSE txRows
  /\ player' = [player EXCEPT !.idx = @ + 1]
  /\ UNCHANGED <<sourceVars, targetVars, at, copyVars, tainted>>

CommitReached ==
  InOpenTransaction /\ player.idx = Len(Log[player.pos].rows)

\* Faulty variant: a commit beyond a DDL counts as another one.
PlayMergeOverDDL ==
  /\ CommitReached /\ player.pos # PlayUntil /\ player.pos < srcPos
  /\ player' = [player EXCEPT !.open = FALSE]
  /\ UNCHANGED <<sourceVars, targetVars, txVars, at, copyVars, tainted>>

\* Faulty variant: the commit at the stop position is merged too.
PlayMergeOverStop ==
  /\ CommitReached /\ player.pos < srcPos /\ ~Log[player.pos + 1].ddl
  /\ player' = [player EXCEPT !.open = FALSE]
  /\ UNCHANGED <<sourceVars, targetVars, txVars, at, copyVars, tainted>>

\* COMMIT with another one in what was fetched: the two are merged.
PlayMerge ==
  /\ CommitReached /\ player.pos # PlayUntil
  /\ player.pos < srcPos /\ ~Log[player.pos + 1].ddl
  /\ player' = [player EXCEPT !.open = FALSE]
  /\ UNCHANGED <<sourceVars, targetVars, txVars, at, copyVars, tainted>>

\* COMMIT of an empty transaction: the position is saved later, if at all.
PlayEmpty ==
  /\ CommitReached /\ player.pos # PlayUntil /\ ~inTx
  /\ player' = [player EXCEPT !.open = FALSE, !.unsaved = TRUE]
  /\ UNCHANGED <<sourceVars, targetVars, txVars, at, copyVars, tainted>>

\* updatePos, and the state that goes with reaching the stop position.
UpdatePos ==
  /\ vpos' = player.pos
  /\ vstate' = IF player.pos = PlayUntil /\ at # "ff" THEN "Stopped"
               ELSE vstate

Reached == player.pos = PlayUntil

\* COMMIT: the rows and the position are saved together.  The reply of the
\* database may be lost.
PlayCommit ==
  /\ CommitReached /\ (inTx \/ Reached)
  /\ rows' = View
  /\ UpdatePos
  /\ CommitAt(player.pos)
  /\ \/ IF Reached THEN PlayReturns ELSE UNCHANGED at
     \/ at' = "retry"
  /\ player' = [player EXCEPT !.open = FALSE]
  /\ UNCHANGED <<sourceVars, lastpk, copyVars>>

\* Inactivity: the position of the last empty transaction is saved.
PlayIdle ==
  /\ Playing /\ player.unsaved
  /\ UpdatePos
  /\ player' = [player EXCEPT !.unsaved = FALSE]
  /\ UNCHANGED <<sourceVars, rows, lastpk, txVars, at, copyVars, tainted>>

\* DDL, which must not be met in a transaction: the position is saved.  With
\* OnDdl STOP the stream stops, in the same transaction; at the stop position
\* it stops by another statement, which may fail.
PlayDDL ==
  /\ Playing /\ player.open /\ Log[player.pos].ddl /\ ~inTx
  /\ vpos' = player.pos
  /\ \/ /\ vstate' = IF stream.stopOnDdl \/ (Reached /\ at # "ff")
                      THEN "Stopped" ELSE vstate
        /\ IF stream.stopOnDdl \/ Reached THEN PlayReturns ELSE UNCHANGED at
     \/ ~stream.stopOnDdl /\ at' = "retry" /\ UNCHANGED vstate
  /\ player' = [player EXCEPT !.open = FALSE]
  /\ UNCHANGED <<sourceVars, rows, lastpk, txVars, copyVars, tainted>>

PlayStep ==
  \/ PlayGTID \/ PlayRow \/ PlayMerge \/ PlayEmpty \/ PlayCommit \/ PlayIdle
  \/ PlayDDL

-----------------------------------------------------------------------------
(* Replicate and the copier.                                               *)

ToCopy == {t \in CopiedTables : lastpk[t] # Copied}

\* play's first test.
AlreadyStopped == stream.stopPos # 0 /\ vpos >= stream.stopPos

\* initTablesForCopy, in one transaction.
InitTables ==
  /\ at = "read" /\ vstate # "Stopped" /\ ToCopy = {} /\ vpos = 0
  /\ lastpk' = [t \in CopiedTables |-> 0]
  /\ vstate' = IF CopiedTables = {} THEN "Stopped" ELSE "Copying"
  /\ UNCHANGED <<sourceVars, rows, vpos, txVars, at, player, copyVars, tainted>>

\* The stream is stopped, or there is nothing left to do but to play.
StartPlaying ==
  /\ at = "read"
  /\ \/ /\ vstate = "Stopped"
        /\ at' = "off" /\ UNCHANGED <<vstate, player>>
     \/ /\ vstate # "Stopped" /\ ToCopy = {} /\ vpos # 0
        /\ vstate' = IF AlreadyStopped THEN "Stopped" ELSE "Running"
        /\ at' = IF AlreadyStopped THEN "off" ELSE "play"
        /\ player' = NewPlayer(vpos)
  /\ UNCHANGED <<sourceVars, rows, vpos, lastpk, txVars, copyVars, tainted>>

\* copyNext: catch up with what was copied so far, if anything was.
CopyNext ==
  /\ at = "read" /\ vstate # "Stopped"
  /\ copying' \in ToCopy
  /\ player' = NewPlayer(vpos)
  /\ \/ vpos = 0 /\ at' = "open" /\ UNCHANGED vstate
     \/ vpos # 0 /\ ~AlreadyStopped /\ at' = "catchup" /\ UNCHANGED vstate
     \/ vpos # 0 /\ AlreadyStopped /\ at' \in {"retry", "open"} /\ vstate' = "Stopped"
  /\ UNCHANGED <<sourceVars, rows, vpos, lastpk, txVars, snap, tainted>>

\* The timer of catchup fires, and the lag is still too large.  Nothing sets
\* the timer again, so the lag is not looked at any more.
StillBehind ==
  /\ at = "catchup" /\ ~player.behind
  /\ player' = [player EXCEPT !.behind = TRUE]
  /\ UNCHANGED <<sourceVars, targetVars, txVars, at, copyVars, tainted>>

\* The lag is small enough: the player is cancelled between two packets of
\* events, or while it waits to retry a statement it rolled back, or it has
\* failed already, which is not looked at.
CaughtUp ==
  /\ at = "catchup" /\ ~player.behind
  /\ at' = "open"
  /\ \/ /\ dangling' = IF inTx THEN player.pos ELSE 0
        /\ UNCHANGED <<inTx, txRows>>
     \/ Rollback
  /\ UNCHANGED <<sourceVars, targetVars, player, copyVars, tainted>>

\* copyTable asks for the rows; the first response brings the position of
\* the snapshot, to which the tables copied so far are fast-forwarded.
OpenRows ==
  /\ at = "open"
  /\ snap' = srcPos
  /\ player' = NewPlayer(vpos)
  /\ \/ vpos = 0 /\ vpos' = srcPos /\ at' = "copy"
     \/ vpos # 0 /\ vpos >= srcPos /\ at' = "copy" /\ UNCHANGED vpos
     \/ vpos # 0 /\ vpos < srcPos /\ at' = "ff" /\ UNCHANGED vpos
  /\ UNCHANGED <<sourceVars, rows, vstate, lastpk, txVars, copying, tainted>>

Remaining(k) ==
  {i \in PKs : lastpk[copying] < i /\ i <= k
               /\ SourceAt[snap][copying][i] # Absent}

\* One response: its rows and the last key, in one transaction.
CopyBatch ==
  /\ at = "copy"
  /\ \E k \in Remaining(MaxPK) :
       /\ \A i \in Remaining(k) : View[copying][i] = Absent
       /\ rows' = [View EXCEPT ![copying] = [i \in PKs |->
                     IF i \in Remaining(k) THEN SourceAt[snap][copying][i]
                                           ELSE @[i]]]
       /\ lastpk' = [lastpk EXCEPT ![copying] = k]
  /\ inTx' = FALSE /\ txRows' = EmptyTables /\ dangling' = 0
  /\ tainted' = (tainted \/ dangling > vpos \/ vpos # snap)
  /\ at' \in {"copy", "retry"}
  /\ UNCHANGED <<sourceVars, vpos, vstate, player, copyVars>>

\* All rows were received; what is left of a transaction is rolled back.
CopyDone ==
  /\ at = "copy" /\ Remaining(MaxPK) = {}
  /\ lastpk' = IF inTx THEN lastpk ELSE [lastpk EXCEPT ![copying] = Copied]
  /\ at' = "read"
  /\ Rollback
  /\ tainted' = (tainted \/ vpos # snap)
  /\ UNCHANGED <<sourceVars, rows, vpos, vstate, player, copyVars>>

\* copyTimeout: the copy is resumed by another pass.
CopyTimeout ==
  /\ at \in {"ff", "copy"}
  /\ at' = "read"
  /\ Rollback
  /\ UNCHANGED <<sourceVars, targetVars, player, copyVars, tainted>>

CopyStep ==
  \/ InitTables \/ StartPlaying \/ CopyNext \/ StillBehind \/ CaughtUp
  \/ OpenRows \/ CopyBatch \/ CopyDone

\* An insert over a row, and a DDL met in a transaction, are refused.
Refused ==
  \/ NextIsRow /\ Applied(NextChange) /\ Duplicate(NextChange)
  \/ Playing /\ player.open /\ Log[player.pos].ddl /\ inTx
  \/ at = "copy" /\ \E i \in Remaining(MaxPK) : View[copying][i] # Absent
Refuse == Refused /\ Errs

\* Any other statement, or the stream from the source, fails.
Fail == at \notin {"off", "retry"} /\ ~Refused /\ Errs

Disturbance ==
  \/ Fail \/ CopyTimeout \/ StopController
  \/ \E s \in {"Stopped", "Running"} : ExecUpdate(s)

VReplicationNext ==
  \/ SourceExecutes \/ PlayStep \/ CopyStep
  \/ Refuse \/ Retry \/ NewController \/ Disturbance

VReplicationSpec ==
  VReplicationInit /\ [][VReplicationNext]_vreplicationVars

\* The goroutines run, the controller retries, and a closed engine is opened.
VReplicationFairness ==
  /\ WF_vreplicationVars(PlayStep) /\ WF_vreplicationVars(CopyStep)
  /\ WF_vreplicationVars(Refuse) /\ WF_vreplicationVars(Retry)
  /\ WF_vreplicationVars(NewController)

VReplicationFairSpec == VReplicationSpec /\ VReplicationFairness

-----------------------------------------------------------------------------
(* Properties.                                                             *)

\* TestPlayerCopyTableContinuation: of a partly copied table the events up to
\* the last copied key are applied, and those beyond it are left to the copy.
\* So the target holds what the source had at the saved position.
CopiedRowsMatch ==
  \A t \in CopiedTables, k \in PKs :
    rows[t][k] = IF vpos # 0 /\ k <= lastpk[t] THEN SourceAt[vpos][t][k]
                 ELSE Absent

\* At every moment a crash could happen, the target holds what the source
\* had at the saved position: all of a copied table, the rows up to the last
\* copied key of a table being copied, and nothing of the others.  There are
\* two exceptions.  The catchup of a copy leaves a transaction open when it is
\* cancelled between two packets of it, and the part that was played may then
\* be committed with the position of an earlier, empty one.  And a DDL met by
\* fastForward with OnDdl STOP lets the copy go on before the snapshot.
TargetMatchesSource == tainted \/ CopiedRowsMatch

\* A DDL statement is never met in the middle of a transaction, which is what
\* applyEvent calls an unexpected state.
DDLOutsideTransaction ==
  Playing /\ player.open /\ Log[player.pos].ddl => ~inTx

\* The player saves nothing past its stop position, nor past the position of
\* the snapshot that a copy fast-forwards to.
StopIsRespected ==
  [][Playing /\ PlayUntil # 0 /\ vpos' # vpos => vpos' <= PlayUntil]_vreplicationVars

\* The catchup was behind when the timer fired, and does not end by itself.
LeftCatchingUp == at = "catchup" /\ player.behind

\* Once failures stop, and no catchup is cancelled in the middle of a
\* transaction of the source any more, a stream copies its tables and catches
\* up with its source, unless it is stopped, or stays in a catchup that was
\* behind when its timer fired: nothing else keeps it from catching up.
StreamCatchesUp ==
  <>[][~Disturbance /\ dangling' = 0]_vreplicationVars =>
    ((srcPos = Len(Log)) ~> \/ vpos = Len(Log) /\ ToCopy = {}
                            \/ vstate = "Stopped" \/ tainted \/ []LeftCatchingUp)
=============================================================================
