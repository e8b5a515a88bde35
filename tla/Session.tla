------------------------------- MODULE Session -------------------------------
(***************************************************************************)
(* The transaction of a client of vtgate in the MULTI and SINGLE modes:    *)
(* Executor.execute, the SafeSession, the calls of the ScatterConn and the *)
(* best effort commit of the TxConn (TwoPC has the two phase commit).      *)
(*                                                                         *)
(* A DML runs a plan: the statements of its lookup vindexes, which execute *)
(* recursively with the commit order PRE, NORMAL or POST, then its own on  *)
(* a set of shards.  The calls of one scatter share only the session, so a *)
(* call and its Append are one step, in any order.  A transaction that its *)
(* tablet ended, by its killer or a restart, is one whose next call fails. *)
(***************************************************************************)
EXTENDS Naturals, Sequences, FiniteSets

CONSTANTS
  Plans,        \* sequences of [order, shards], the last one NORMAL
  SingleModes,  \* the values of isSingleDB
  MaxCommands,  \* bound on the commands of the client
  MaxDMLs,      \* and on the DMLs among them
  MaxLost       \* bound on the lost answers

ASSUME SessionAssumption ==
  /\ SingleModes \subseteq BOOLEAN
  /\ \A plan \in Plans :
       /\ Len(plan) \in Nat \ {0} /\ DOMAIN plan = 1..Len(plan)
       /\ \A k \in DOMAIN plan : plan[k].order \in {"PRE", "NORMAL", "POST"}
       /\ plan[Len(plan)].order = "NORMAL"

VARIABLES
  session,   \* SafeSession without the lists of shard sessions
  held,      \* the transaction ids of PreSessions, ShardSessions, PostSessions,
             \* each list in the order of its ids
  opened,    \* the transactions of the tablets
  cmd,       \* the command that runs
  commands,  \* commands so far
  losses,    \* lost answers so far
  made,      \* history: the plans of the DMLs
  round,     \* history: the number of the transaction
  acked,     \* history: DMLs acknowledged in the transaction
  promised,  \* history: DMLs whose commit was acknowledged
  failed,    \* history: DMLs that returned an error
  partial    \* history: those that may be done in part

historyVars == <<made, round, acked, promised, failed, partial>>
sessionVars == <<session, held, opened, cmd, commands, losses, historyVars>>

Orders == {"PRE", "NORMAL", "POST"}
NoSessions == [o \in Orders |-> {}]
Rest == [step |-> "idle"]

\* TransactionIds that are not zero.
Ids == UNION {held[o] : o \in Orders}

SessionTypeOK ==
  /\ session \in [inTx : BOOLEAN, autocommit : BOOLEAN, mustRollback : BOOLEAN,
                  approval : {"no", "yes", "used"}, single : BOOLEAN]
  /\ held \in [Orders -> SUBSET DOMAIN opened]
  /\ \A i \in DOMAIN opened :
       /\ opened[i].state \in {"open", "stray", "lost", "committed", "undone"}
       /\ opened[i].order \in Orders /\ opened[i].did \subseteq DOMAIN made
  /\ cmd.step \in {"idle", "scatter", "calls", "commit"}
  /\ commands \in 0..MaxCommands /\ losses \in 0..MaxLost
  /\ promised \cup failed \cup partial \cup acked \subseteq DOMAIN made

SessionInit ==
  /\ session \in [inTx : {FALSE}, autocommit : BOOLEAN, mustRollback : {FALSE},
                  approval : {"no"}, single : SingleModes]
  /\ held = NoSessions /\ opened = <<>> /\ cmd = Rest /\ commands = 0 /\ losses = 0
  /\ made = <<>> /\ round = 1
  /\ acked = {} /\ promised = {} /\ failed = {} /\ partial = {}
-----------------------------------------------------------------------------
Reset(s) == [s EXCEPT !.inTx = FALSE, !.mustRollback = FALSE, !.approval = "no"]

\* Answers of the tablets that are lost in a step.
Lose(n) == losses + n <= MaxLost /\ losses' = losses + n

(* TxConn.Rollback of the transactions that still have an id; the request  *)
(* is lost for some.  Reset.                                               *)
RollbackSession ==
  \E L \in SUBSET Ids :
    /\ Lose(Cardinality(L))
    /\ opened' = [i \in DOMAIN opened |->
         IF i \in Ids
         THEN [opened[i] EXCEPT !.state = IF i \in L THEN "lost" ELSE "undone", !.did = {}]
         ELSE opened[i]]
    /\ session' = Reset(session) /\ held' = NoSessions
    /\ acked' = {} /\ round' = round + 1

Command == cmd.step = "idle" /\ commands < MaxCommands /\ commands' = commands + 1

\* The start of execute: an implicit transaction unless autocommit is on.
Implicit == session.inTx \/ ~session.autocommit

Statement(plan, at, dml, mustCommit) ==
  [step |-> "scatter", plan |-> plan, at |-> at, dml |-> dml, mustCommit |-> mustCommit]

(* A DML: a transaction for the statement if there is none. *)
StartDML(plan) ==
  /\ Command /\ Len(made) < MaxDMLs
  /\ session' = [session EXCEPT !.inTx = TRUE, !.approval = IF Implicit THEN "no" ELSE "yes"]
  /\ cmd' = Statement(plan, 1, TRUE, ~Implicit)
  /\ made' = Append(made, plan)
  /\ UNCHANGED <<held, opened, losses, round, acked, promised, failed, partial>>

(* A SELECT runs in the transaction or, with autocommit, outside of any. *)
StartSelect(plan) ==
  /\ Command /\ Len(plan) = 1
  /\ session' = [session EXCEPT !.inTx = Implicit]
  /\ cmd' = Statement(plan, 1, FALSE, FALSE)
  /\ UNCHANGED <<held, opened, losses, historyVars>>

(* The next statement of the plan.  That of a vindex is executed from the  *)
(* start, in the transaction: SetAutocommittable(false).  The last one     *)
(* asks for the approval to commit in the same call.                       *)
Scatter ==
  /\ cmd.step = "scatter"
  /\ \E multiShardAutocommit \in BOOLEAN :
       LET shards == cmd.plan[cmd.at].shards
           last == cmd.at = Len(cmd.plan)
           auto == /\ last /\ cmd.dml /\ session.approval = "yes"
                   /\ Cardinality(shards) = 1 \/ multiShardAutocommit
       IN  /\ session' = [session EXCEPT !.approval =
                            IF ~last THEN "no" ELSE IF auto THEN "used" ELSE @]
           /\ cmd' = [step |-> "calls", plan |-> cmd.plan, at |-> cmd.at, dml |-> cmd.dml,
                      mustCommit |-> cmd.mustCommit, auto |-> auto, left |-> shards,
                      ok |-> 0, err |-> FALSE]
  /\ UNCHANGED <<held, opened, commands, losses, historyVars>>
-----------------------------------------------------------------------------
Order == cmd.plan[cmd.at].order
Work == IF cmd.dml THEN {Len(made)} ELSE {}

\* Find
Found(s) == {i \in held[Order] : opened[i].shard = s}

\* The call of shard s is over.  fatal: ABORTED or RESOURCE_EXHAUSTED, upon
\* which endAction calls SetRollback, or an Append that is refused.
Answer(s, ok, fatal) ==
  /\ cmd' = [cmd EXCEPT !.left = @ \ {s}, !.ok = IF ok THEN @ + 1 ELSE @,
                        !.err = @ \/ ~ok]
  /\ session' = [session EXCEPT !.mustRollback = @ \/ (fatal /\ session.inTx)]
  /\ UNCHANGED <<commands, made, round, acked, promised, failed>>

OpenedTx(s, state, did) ==
  [shard |-> s, order |-> Order, round |-> round, state |-> state, did |-> did]

(* ExecuteBatch as a transaction, in the same call. *)
CallAutocommit(s) ==
  /\ cmd.auto /\ UNCHANGED held
  /\ \/ /\ Answer(s, TRUE, FALSE)
        /\ opened' = Append(opened, OpenedTx(s, "committed", Work))
        /\ UNCHANGED <<losses, partial>>
     \/ /\ \E fatal \in BOOLEAN : Answer(s, FALSE, fatal)
        /\ UNCHANGED <<opened, losses, partial>>
     \/ /\ Answer(s, FALSE, FALSE) /\ Lose(1)
        /\ opened' = Append(opened, OpenedTx(s, "committed", Work))
        /\ partial' = partial \cup Work

(* Execute outside of any transaction. *)
CallPlain(s) ==
  /\ ~session.inTx
  /\ \E ok \in BOOLEAN : Answer(s, ok, FALSE)
  /\ UNCHANGED <<held, opened, losses, partial>>

(* Execute in the transaction i that the session has of the shard.  After  *)
(* a deadlock, or if the tablet ended it, ABORTED, what it did is gone.    *)
CallInTx(s, i) ==
  /\ ~cmd.auto /\ session.inTx /\ i \in Found(s) /\ UNCHANGED held
  /\ \/ /\ Answer(s, TRUE, FALSE)
        /\ opened' = [opened EXCEPT ![i].did = @ \cup Work]
        /\ UNCHANGED <<losses, partial>>
     \/ /\ Answer(s, FALSE, FALSE)
        /\ UNCHANGED <<opened, losses, partial>>
     \/ /\ Answer(s, FALSE, TRUE)
        /\ opened' = [opened EXCEPT ![i].did = {}]
        /\ UNCHANGED <<losses, partial>>
     \/ /\ Answer(s, FALSE, FALSE) /\ Lose(1)
        /\ opened' = [opened EXCEPT ![i].did = @ \cup Work]
        /\ partial' = partial \cup Work

(* BeginExecute and, if there is a transaction, Append.  The second shard  *)
(* of a transaction in the SINGLE mode is refused once it is in the list.  *)
CallBegin(s) ==
  /\ ~cmd.auto /\ session.inTx /\ Found(s) = {}
  /\ \/ \E ok, fatal \in BOOLEAN :
          LET refused == session.single /\ Order = "NORMAL" /\ held[Order] # {}
          IN  /\ ok => ~fatal
              /\ Answer(s, ok /\ ~refused, fatal \/ refused)
              /\ opened' = Append(opened, OpenedTx(s, "open", IF ok THEN Work ELSE {}))
              /\ held' = [held EXCEPT ![Order] = @ \cup {Len(opened) + 1}]
              /\ UNCHANGED <<losses, partial>>
     \/ /\ \E fatal \in BOOLEAN : Answer(s, FALSE, fatal)
        /\ UNCHANGED <<held, opened, losses, partial>>
     \/ /\ Answer(s, FALSE, FALSE) /\ Lose(1)
        /\ opened' = Append(opened, OpenedTx(s, "stray", {}))
        /\ UNCHANGED <<held, partial>>

CallShard(s) ==
  /\ cmd.step = "calls" /\ s \in cmd.left
  /\ CallAutocommit(s) \/ CallPlain(s) \/ CallBegin(s) \/ \E i \in Found(s) : CallInTx(s, i)
-----------------------------------------------------------------------------
\* Faulty variant: what the vindexes did before the error stays.
UndoneScatter == session.mustRollback \/ cmd.mustCommit

\* After an error: the rollback of the ScatterConn, that of handleExec after a
\* partial DML, or the deferred one of the statement's own transaction.
Undone == session.mustRollback \/ cmd.mustCommit \/ (cmd.dml /\ cmd.at > 1)

(* The end of a scatter with an error, and of the command. *)
ScatterFails ==
  /\ cmd.step = "calls" /\ cmd.left = {} /\ cmd.err
  /\ IF session.inTx /\ Undone THEN RollbackSession
     ELSE UNCHANGED <<session, held, opened, losses, acked, round>>
  /\ failed' = failed \cup Work
  /\ partial' = IF cmd.ok > 0 /\ (cmd.auto \/ ~Undone) THEN partial \cup Work ELSE partial
  /\ cmd' = Rest
  /\ UNCHANGED <<commands, made, promised>>

Committing(n, then) == [step |-> "commit", stage |-> "PRE", err |-> FALSE, n |-> n, then |-> then]

(* The end of a scatter without an error: the next one, the commit of the  *)
(* statement's own transaction, or the end.                                *)
Proceed ==
  /\ cmd.step = "calls" /\ cmd.left = {} /\ ~cmd.err
  /\ IF cmd.at < Len(cmd.plan)
     THEN /\ cmd' = Statement(cmd.plan, cmd.at + 1, cmd.dml, cmd.mustCommit)
          /\ UNCHANGED acked
     ELSE /\ cmd' = IF cmd.mustCommit THEN Committing(Len(made), "end") ELSE Rest
          /\ acked' = IF cmd.mustCommit THEN acked ELSE acked \cup Work
  /\ UNCHANGED <<session, held, opened, commands, losses, made, round, promised, failed, partial>>
-----------------------------------------------------------------------------
(* COMMIT, BEGIN in a transaction, and SET autocommit = 1 in one. *)
CommitSession(then) ==
  /\ Command /\ session.inTx
  /\ cmd' = Committing(0, then)
  /\ UNCHANGED <<session, held, opened, losses, historyVars>>

(* BEGIN *)
StartBegin ==
  /\ Command /\ ~session.inTx
  /\ session' = [session EXCEPT !.inTx = TRUE]
  /\ UNCHANGED <<held, opened, cmd, losses, historyVars>>

(* SET autocommit outside of a transaction; to 0 in one, too. *)
SetAutocommit(on) ==
  /\ Command /\ (on => ~session.inTx)
  /\ session' = [session EXCEPT !.autocommit = on, !.inTx = ~on /\ Implicit]
  /\ UNCHANGED <<held, opened, cmd, losses, historyVars>>

StartRollback ==
  /\ Command /\ session.inTx /\ RollbackSession
  /\ UNCHANGED <<cmd, made, promised, failed, partial>>

(* A Commit of commitNormal: those of a stage at once, those of the        *)
(* ShardSessions one by one until one fails.  The id is zeroed.  A commit  *)
(* ends the transaction of the tablet whatever MySQL says.                 *)
CommitShard(i) ==
  /\ cmd.step = "commit" /\ i \in held[cmd.stage]
  /\ cmd.stage = "NORMAL" => ~cmd.err /\ \A j \in held["NORMAL"] : i <= j
  /\ held' = [held EXCEPT ![cmd.stage] = @ \ {i}]
  /\ \/ /\ opened' = [opened EXCEPT ![i].state = "committed"]
        /\ UNCHANGED <<cmd, losses>>
     \/ /\ opened' = [opened EXCEPT ![i].state = "undone", ![i].did = {}]
        /\ cmd' = [cmd EXCEPT !.err = TRUE] /\ UNCHANGED losses
     \/ /\ Lose(1)
        /\ \E state \in {"committed", "lost"} : opened' = [opened EXCEPT ![i].state = state]
        /\ cmd' = [cmd EXCEPT !.err = TRUE]
  /\ UNCHANGED <<session, commands, historyVars>>

(* The commits of a stage went well. *)
CommitStage ==
  /\ cmd.step = "commit" /\ ~cmd.err /\ cmd.stage # "POST" /\ held[cmd.stage] = {}
  /\ cmd' = [cmd EXCEPT !.stage = IF @ = "PRE" THEN "NORMAL" ELSE "POST"]
  /\ UNCHANGED <<session, held, opened, commands, losses, historyVars>>

(* A commit before the last stage failed: roll back the rest. *)
CommitFails ==
  /\ cmd.step = "commit" /\ cmd.err /\ cmd.stage # "POST"
  /\ cmd.stage = "PRE" => held["PRE"] = {}
  /\ RollbackSession
  /\ failed' = IF cmd.n = 0 THEN failed ELSE failed \cup {cmd.n}
  /\ partial' = IF cmd.n = 0 THEN partial ELSE partial \cup {cmd.n}
  /\ cmd' = Rest
  /\ UNCHANGED <<commands, made, promised>>

(* Commit returns no error, although one of the last stage is a warning. *)
CommitReturns ==
  /\ cmd.step = "commit" /\ cmd.stage = "POST" /\ held["POST"] = {}
  /\ session' = [Reset(session) EXCEPT !.inTx = cmd.then = "begin",
                                       !.autocommit = @ \/ cmd.then = "autocommit"]
  /\ promised' = promised \cup acked \cup ({cmd.n} \ {0})
  /\ acked' = {} /\ round' = round + 1 /\ cmd' = Rest
  /\ UNCHANGED <<held, opened, commands, losses, made, failed, partial>>

SessionNext ==
  \/ \E plan \in Plans : StartDML(plan) \/ StartSelect(plan)
  \/ \E then \in {"end", "begin", "autocommit"} : CommitSession(then)
  \/ StartBegin \/ StartRollback \/ \E on \in BOOLEAN : SetAutocommit(on)
  \/ Scatter \/ ScatterFails \/ Proceed
  \/ cmd.step = "calls" /\ \E s \in cmd.left : CallShard(s)
  \/ \E i \in DOMAIN opened : CommitShard(i)
  \/ CommitStage \/ CommitFails \/ CommitReturns

SessionSpec == SessionInit /\ [][SessionNext]_sessionVars
-----------------------------------------------------------------------------
Rank == [PRE |-> 1, NORMAL |-> 2, POST |-> 3]
Committed == {i \in DOMAIN opened : opened[i].state = "committed"}

\* A DML whose commit was acknowledged is committed on every shard and in
\* every vindex it wrote to, except for the deletions that commit last.
AckedIsDurable ==
  \A n \in promised : \A k \in DOMAIN made[n] : made[n][k].order # "POST" =>
    \A s \in made[n][k].shards : \E i \in Committed :
      opened[i].shard = s /\ opened[i].order = made[n][k].order /\ n \in opened[i].did

\* What commits early commits whenever something that commits later does:
\* no row without its lookup row, no lookup row deleted before its row.
CommitsInOrder ==
  \A i \in Committed, j \in DOMAIN opened :
    /\ opened[i].round = opened[j].round
    /\ \/ Rank[opened[j].order] < Rank[opened[i].order]
       \/ opened[i].order = "NORMAL" /\ opened[j].order = "NORMAL" /\ j < i
    => opened[j].state \in {"committed", "stray"}

\* The session has every transaction that is open on a tablet for it, so that
\* they end with the transaction, unless an answer was lost.
NothingLeaks ==
  /\ \A i \in DOMAIN opened : opened[i].state = "open" => i \in Ids
  /\ Ids # {} => session.inTx

\* A DML that returned an error has no effect in the end, unless an answer was
\* lost, a best effort commit failed half way or, in a transaction that goes
\* on, it failed on some of its shards only.
FailedIsUndone ==
  \A n \in failed \ partial, i \in Committed : n \notin opened[i].did

SessionAgrees == AckedIsDurable /\ CommitsInOrder /\ NothingLeaks /\ FailedIsUndone
=============================================================================
