# TLA+ models of Vitess

This directory is a verification project for the Go code of Vitess under
`src/`: TLA+ modules translated from the source, TLC configurations that
check them on small instances, and proofs that TLAPS checks for every value of
the constants. `PROJECT.json` maps each definition to the lines it models and
lists the runs, the mutants that show that each property can fail, the
hazards, the findings and the theorems.

* [The system and its modules](#the-system-and-its-modules)
* [Two phase commit](#two-phase-commit)
* [The request buffer of vtgate](#the-request-buffer-of-vtgate)
* [A tablet: states, transactions, pools, hot rows](#the-tablet)
* [Streams: messages, VReplication, the binlog player](#streams)
* [Discovery, the lag filter, sessions, reparenting](#discovery-sessions-and-reparenting)
* [Runs and bounds](#runs-and-bounds), [Fairness](#fairness), [Proofs](#proofs)
* [What the models say about the code](#what-the-models-say-about-the-code)
* [What is not modelled](#what-is-not-modelled)

## The system and its modules

A client talks to **vtgate**, which routes a statement to the **vttablet**
servers of the shards it touches; a vttablet guards one MySQL server. The
topology service says which tablets exist and who is master of a shard; the
**wrangler** changes that.

| Part | Source | Module | Proofs |
| --- | --- | --- | --- |
| Distributed commit | `vt/vtgate/tx_conn.go`, `tabletserver/tx_executor.go`, `twopc.go`, `tx_prep_pool.go` | `TwoPC`, `AtomicCommit` | `TwoPCProofs` |
| Failover buffering | `vt/vtgate/buffer/` | `ShardBuffer`, `Queues` | `GateProofs`, `QueueLemmas` |
| Tablet states and requests | `tabletserver/tabletserver.go` | `TabletServer` | `TabletServerProofs` |
| Transaction engine | `tabletserver/tx_engine.go` | `TxEngine` | `TabletServerProofs` |
| Transaction pool, limiter | `tx_pool.go`, `pools/numbered.go`, `txlimiter/` | `TxPool` | `TabletServerProofs` |
| Connection pool | `connpool/pool.go`, `pools/resource_pool.go` | `ConnPool` | `AdmissionProofs` |
| Hot row protection | `txserializer/` | `TxSerializer`, `Queues` | `AdmissionProofs`, `QueueLemmas` |
| Messages | `tabletserver/messager/` | `Messager` | `StreamProofs` |
| VReplication | `tabletmanager/vreplication/` | `VReplication` | `StreamProofs` |
| Binlog player | `vt/binlog/binlogplayer/` | `BinlogPlayer` | `StreamProofs` |
| Tablet discovery | `vt/discovery/` | `Discovery` | `DiscoveryProofs` |
| Replication lag filter | `vt/discovery/replicationlag.go` | `LagFilter` | `DiscoveryProofs` |
| Sessions, best effort commit | `vt/vtgate/executor.go`, `safe_session.go`, `scatter_conn.go`, `tx_conn.go` | `Session` | `GateProofs` |
| Reparenting | `vt/wrangler/reparent.go`, `tabletmanager/rpc_replication.go` | `Reparent` | `ReparentProofs` |

`TxPool`, `TxEngine` and `TabletServer` are composed by extension: each adds
its state and its actions to those of the one below, as the code embeds one in
the other. `TwoPC` composes the coordinator, the watchdog and the tablets. The
others interact through what they leave as choices to their environment: the
`RecordReparented` of `ShardBuffer` is what the discovery reports, the request
that `ShardBuffer` holds back is one of a session, the `Open` of a participant
in `TwoPC` is the restore that `TxEngine` takes step by step.

`PROJECT.json` lists every part of the repository with its status; most of the
lines of the repository are parsing, planning, generated code, adapters and
command line tools, which are not modelled.

In every module a step is what a thread does between two points where another
thread can see or change what it uses: a critical section, a MySQL statement, a
channel operation, a call. Data is abstracted to what the properties tell
apart; timers may fire at any time, calls may fail or be lost where the code
handles it.

## Two phase commit

`TxConn.commit2PC` creates a `dt_state` row at the *metadata manager* (MM, the
first shard of the session), prepares the other shards (*participants*) in
parallel, and calls `StartCommit` at MM, which commits MM's own transaction
together with the change of the row from PREPARE to COMMIT. It then sends
`CommitPrepared` to the participants and `ConcludeTransaction` to MM. If a
Prepare fails, `Resolve` is called; the watchdog of MM's tablet also calls it
for every row older than `abandonAge`. `Resolve` reads the row and rolls
forward or back; a row in state PREPARE is first changed to ROLLBACK. A
participant keeps a prepared transaction twice: as an open connection in the
in-memory `TxPreparedPool`, and as a row of the redo log in MySQL. After a
restart `prepareFromRedo` builds the pool from the redo log.

**`TwoPC`** models one distributed transaction. The state is MM's row (`dt`)
and MM's transaction (`mmTx`), for each participant its connection (`tx`), redo
log row (`redo`), pool reservation (`reserved`), whether MySQL committed it
(`committed`) and whether its tablet serves (`live`), and the calls in flight
(`calls`) with the replies their callers hold (`got`). `decision` is a history
variable: the last state the row was changed to.

* Callers are the vtgate that commits (`Gate`) and the Resolve calls of the
  watchdog (`Resolvers`). A caller is in one operation (`pc`); it sends the
  operation to all its targets at once and continues when all have answered,
  as `runSessions` does. `Commit2PC`, `AfterCreate`, `AfterPrepare`,
  `AfterStartCommit` are the steps of `commit2PC`; `AfterRead`,
  `AfterSetRollback`, `AfterParticipants`, `AfterConclude` those of `Resolve`.
* A handler on a tablet is split at each access to the prepared pool (one mutex
  section) and at each MySQL commit. `Prepare` is `PrepareGet`, `PreparePut`,
  `PrepareSaveRedo`; `CommitPrepared` is `CommitPreparedFetch`,
  `CommitPreparedCommit`, then `CommitPreparedForget` or `SetFailed` and
  `MarkFailed`; and so on.
* Faults, at most `MaxFaults` of them: a caller stops waiting although the
  request or its handler goes on (`Timeout`: the call becomes `Late`'s); a MySQL
  commit fails, or is applied while the handler sees an error (`LocalTx`); a
  tablet crashes (`Crash`, `RestartMM`); the transaction killer rolls an idle
  transaction back (`KillTx`, `KillMMTx`); with `MayStop` a participant is shut
  down gracefully (`StopGently`, `StopDone`), with `RedoMayFail` the restore of
  a redo log fails on `Open`.

Abstractions: one dtid (dtids are unique, distributed transactions share only
the capacity of the prepared pool, whose exhaustion is a fault of `PreparePut`);
of the redo log only whether the row exists; no `/twopcz` page; calls are not
duplicated, since no client retries them (Resolve itself is what is repeated).

**`AtomicCommit`** is what the protocol promises: each shard's part is pending,
committed or aborted; a decision is made once; a part commits only after the
decision to commit, and is given up only without one. `TwoPC` implements it
under the mapping `Part` (`ImplementsAtomicCommit`).

Properties: `CommitIsDecided`, `CommitIsRecoverable`, `DecisionIsFinal`, the
refinement, `AckedIsCommitted` (an ok answer to CommitPrepared is true) and
`ConcludedIsCommitted` (the row goes only when everyone has committed),
`AllResolved` (every transaction is resolved, or left to the operator with a
failed participant).

## The request buffer of vtgate

While the master of a shard fails over, vtgate holds back the requests to it:
`Buffer.WaitForFailoverEnd` blocks the request and returns when it should be
retried. A `shardBuffer` is IDLE, BUFFERING or DRAINING. The first request
that comes with an error caused by a failover starts the buffering and a
*timeout thread*, which evicts the oldest entry when its window
(`-buffer_window`) is over and ends the buffering after
`-buffer_max_failover_duration`. The health check ends it when it reports a
master with a newer reparent timestamp. A *drain thread* then stops the timeout
thread, unblocks the entries one after the other, each when the retry of the
one before is done, and makes the shard IDLE again. All shards share the
`-buffer_size` slots of a semaphore.

**`ShardBuffer`**:

* A request (`req`, with its shard `at` and whether it has `detected` a
  failover) takes the steps of the code: the lookup and the first test under
  the read lock (`WaitForFailoverEnd`); under the lock, everything up to the
  wait (`Skip`, `BufferDryRun`, `BufferFull`, `BufferEvict`, `BufferAcquire`,
  which include the start of the buffering and the notification of the timeout
  thread); the select of `wait` (`WaitDone`, `WaitCancelled`), `RemoveEntry`,
  and the gateway's `RetryDone`.
* Per shard: `state`, `queue`, the timeout thread `tt` (where it is and the
  entry it waits for), the drain thread `drain` with the entries it still has
  (`rest`). The timeout thread is split at every place where it does not hold
  a lock.
* Per entry: `unblocked` (its channel and the error), `ctxDone` (its context)
  and `finisher`, the goroutine that waits for an evicted request and gives its
  slot back.
* Timers may fire at any time. `recent` stands for the two comparisons with
  `minTimeBetweenFailovers`; `Elapse` ends it.

Left out: statistics, `causedByFailover` (which errors are failovers:
`detected`), the flags that choose the mode of a shard (`DryRun` is a set of
shards; a disabled shard returns before any state), and the split of Shutdown's
loops over the shards.

Properties: `IdleIsQuiet` (nothing of a failover is left when the shard is idle
again), `SlotsAccounted` (a slot is free or held by one entry),
`DryRunHoldsNothing`, `ClosedOnce` (a second close of a channel would panic),
`BufferedReturns`, `ShutdownEnds` (unless Shutdown waits for ever for the
goroutine of an evicted request whose context never ends: `LeftBehind`).

## The tablet

**`TxPool`** is the transaction pool with the numbered pool, the per user
limiter, the connection pool as far as it counts, and the transaction killer.
`stage` says where each transaction is: in the four steps of Begin, in the
numbered pool (idle, busy, prepared, stray, or doomed, locked by a thread that
will roll it back), ending or over. `usage` is the limiter's map and `leaked`
what nobody will release; `pool` and `drained` are the connection pool's state
and what a close has taken back; `ticking` is the killer's timer.

**`TxEngine`** adds the calls that move the engine between NotServing,
ReadWrite and ReadOnly. A controller's `pc` walks through `transitionTo` and
`close`: `beginRequests.Wait`, `stateLock`, the rollback goroutine,
`WaitForEmpty`, the join, the three parts of `TxPool.Close`, and
`transitionSignal`, which is closed and read outside the lock. `wanted` (what
the last caller asked for) and `overtook` (the begins that came between a
caller's wait and its lock) are history variables. Called by any number of
threads at any time it has the specification `EngineSpec`.

**`TabletServer`** adds the state of the tablet, the requests it admits and the
two threads that change the state: the manager (`SetServingType`) and the
goroutine of `CheckMySQL`. `thread` says where they are in `fullStart`,
`serveNewType`, `waitForShutdown` and `closeAll`, each of which calls the engine
and waits for it. Left out: the other engines of the tablet, `alsoAllow`, lame
duck mode, the time bomb of a long shutdown.

Properties: `LastRequestWins` (the engine ends in the state the last caller
asked for), `NoWritesInReadOnly` (a ReadOnly engine has no read-write
transaction, except one whose Begin overtook the wait), `LimiterAccounts`,
`TabletAgrees` (a transition has one owner, a serving tablet has its engine in
the mode of its type, a closed pool lends nothing, a serving engine has an open
pool and a running killer), `StopIsClean`, `TransitionEnds`.

**`ConnPool`** is the resource pool inside the connection pool of a tablet. The
channel is the number of empty wrappers and of wrappers with a connection;
borrowers, a resizer, a closer and the idle timer take the steps of `get`,
`Put`, `SetCapacity`, `Close` and `closeIdleResources`, with `cp.mu`. A thread
counts what it received or sent in a step of its own, after the one on the
channel. `PoolAccounts` is `WrappersConserved`, `CountersAgree` (up to what is not
counted yet) and `PutFits` (Put never finds the channel full, where it would
panic); `CloseWaits` says when Close may close the channel; `PoolSettles` that
resizes and closes end, unless a Put stays blocked for ever by the lock that
`SetCapacity` holds (`PutBlocked`).

**`TxSerializer`**: `BeginExecute` calls `Wait` with a key, the table and WHERE
clause of its first statement, and calls the function it returns when it is
done. The first call of a key goes through; the second creates the channel of
slots with one element, for the first; it and all later ones are counted under
`mu`, release it, and send to the channel. `tx` says where a call is; `size`,
`hot`, `slots`, `globalSize`, `dryRun` are the fields; `sendq` is Go's queue of
blocked senders: a receive hands the place to its head. Counting and sending are
separate steps because the lock is released in between. `ahead` is a history
variable that only `ArrivalOrder` reads. A rejected call changes nothing, so it
is no step. `RowsProtected` is the purpose of the component (at most
`concurrentTransactions` calls of a row are let through); `QueuesAgree` has the
counters, the limits and why the receive under the lock "should never block";
`EveryoneServed` that a queued call has its turn.

## Streams

**`Messager`** is one message table from `Open` to `Close`. Rows of the table
(`row`) wait in a bounded cache (`queue`, `inFlight`, `defunct`); `RunSend`
hands batches to subscribed receivers, each batch with a goroutine (`work`,
`batch`) that sends it and postpones what it sent; the poller refills the cache;
client transactions insert and acknowledge; a commit may be applied and still
return an error, and the cache is then not updated. The three locks are modelled: the
engine's `mu`, the manager's `mu` (a step that touches the manager is one
critical section) and `DBLock`. `SenderNotNeeded` says that no wakeup of the
sender is lost, `QueuedIsDue` what `DBLock` is for; `DueIsSent` and
`CloseCompletes` are liveness, the latter up to those that need `mu` for ever
(`NeedsMu`). Left out: the purge of old rows, the schema
notifications, the order of priority.

**`VReplication`** is one stream: the controller, the copier (`copyNext`,
`catchup`, `copyTable`, `fastForward`) and the player with merged commits, stop
position and DDL, over a source that is a log of row changes (`Log`); a row of
the source is as its last change up to a position left it (`SourceAt`). What is in
the target database survives a failure: `rows`, `vpos`, `vstate`, `lastpk`. A
failure may come before every statement. `TargetMatchesSource` says that the
target holds what the source had at the saved position, `DDLOutsideTransaction`
that the state `applyEvent` calls unexpected does not occur, `StopIsRespected`
that the player saves no position beyond its stop position or beyond the snapshot
a copy fast-forwards to; `StreamCatchesUp` is liveness, up to a catchup that was
behind when its timer fired and stays so (`LeftCatchingUp`). The exit of
`applyEvent` for a position beyond the stop position has no action: the code
calls it unreachable, and `StopNotPassed` proves it. `tainted` and `dangling` are history variables
for the two exceptions described below.

**`BinlogPlayer`** is the statement based player and its controller: each
transaction is executed together with the update of the position; a deadlock
makes it execute the transaction again, other errors end the player and the
controller starts another. `AppliedOnce` and `StopPositionHolds`.

## Discovery, sessions and reparenting

**`Discovery`**: the topology watcher compares what it knows with the topology
and calls the health check, whose `AddTablet` and `deleteConn` may overlap
(`tasks`, the set of calls under way); a `checkConn` goroutine per tablet
updates `health` under the lock and reports to the `TabletStatsCache` after it
(`lockHealth`, `sendDown`, `sendUpdate`). `DiscoveryAgrees`: a tablet the
watcher knows is checked and no other, the cache has a tablet under the type it
last reported, the master to route to is one the cache has and none that
reported since there is one is later (`reported`), no update follows the return
of Close. `crossed` and `raced` are the histories of the exceptions.

**`LagFilter`** is `FilterByReplicationLag` in integers (the means are those of
the code, which divides integers) and the cache entry that applies it to the
updates it does not find trivial. The sum of the lags is the number of pairs of a
replica and a second of its lag. The products with 0.7 and 1.1 are exact but for
the seconds where a float64 rounds them to the other side of an integer: these
are constants (`RoundedDown`, `RoundedUp`), any sets in the proofs and empty for
the lags of the runs (the first such seconds are 90 and 50). `LeastLagServes`: no replica is routed to while
one that lags less is not, up to what trivial updates hide, and enough are kept.

**`Session`** is the transaction of a client in the MULTI and SINGLE modes:
autocommit, BEGIN, COMMIT, ROLLBACK, DML on several shards with lookup vindexes
that commit before or after it, lost answers, and the best effort commit. A
session holds its transactions in sets of ids: ids grow, so that the order of
the ids is the order in which the code appended them.
`SessionAgrees`: an acknowledged commit is durable, what commits early commits
whenever something later does, no transaction leaks, a failed DML has no effect,
each with its exceptions.

**`Reparent`** is PlannedReparentShard and EmergencyReparentShard with the
handlers of the tablets they call; the wrangler may give up on any call while
the handler goes on, with a context that ends then, later or never. A tablet
works on one call at a time: one that is busy, or died in a call, is ignored by an
emergency and counted as an error by the calls of SetMaster. DemoteMaster is
three steps (the query service, read-only, the position), between which the
others go on. `ReparentAgrees`: one writer, no acknowledged write lost,
followers of the master of the shard record after a reparent without error.

## Runs and bounds

| Run | Instance | Checks |
| --- | --- | --- |
| `twopc_stop` | 2 writers and a read-only participant, 1 resolver, 2 faults, shutdowns and failing restores | `CommitIsDecided`, `CommitIsRecoverable`, `DecisionIsFinal`, `ImplementsAtomicCommit` |
| `twopc_live` | 2 writers, 1 resolver, 2 faults, `FairSpec` | `AckedIsCommitted`, `ConcludedIsCommitted`, `AllResolved` |
| `buffer_two` | 2 requests, 2 shards and a third in dry-run mode, 1 slot | `IdleIsQuiet`, `SlotsAccounted`, `DryRunHoldsNothing` |
| `buffer_live` | 2 requests, 1 shard, 1 slot or 2, `AnySizeSpec`, 229,298 states | `ClosedOnce`, `BufferedReturns`, `ShutdownEnds` |
| `parts` | the scenes of `MCParts` and `MCGate`, 753,902 states | the safety of the other components |
| `parts_live` | six of the scenes, fair, 63,911 states | their liveness |
| `twopc_stopack` | 2 writers, shutdowns, 1 fault | `AckedIsCommitted` fails (finding) |
| `twopc_orphan` | 2 writers, no fault | `ConcludedIsClean` fails (finding) |
| `buffer_watch` | 2 requests, 1 shard | `OldestIsWatched` fails (finding) |
| `buffer_shutdown` | 2 requests, 1 shard | `ShutdownIsComplete` fails (finding) |
| `serializer_order` | 3 calls, 1 key, 1 slot | `ArrivalOrder` fails (finding) |
| `vrepl_star` | a stream that selects * | `CopiedRowsMatch` fails (finding) |

*Two phase commit.* Two participants with changes give partial failures (one
prepares, one does not); participants interact only through the coordinator. One
resolver besides the vtgate gives the race between `StartCommit` and
`SetRollback` and between two `CommitPrepared` calls. Two faults reach "commit
lost, then restart".

*Buffer.* Two shards on one slot give the buffer that is full because of another
shard, and an eviction; two requests of one shard on two slots the drain that
waits for a retry while the next failover starts, and on one slot the eviction of
the first by the second (`Size` only bounds the free slots of the initial state,
so that `AnySizeSpec` starts with either). A request is used once: the
same client's next attempt is another request. `MaxTimestamp` bounds the
reparents the health check reports; one is enough to end a failover.

*The scenes.* Each behaviour of `parts` is one of one component, named by
`part`; the variables of the others do not move. Where a component has too many
states with all its actors, several scenes leave one out each: `tablet` has both
controllers and a client, `manager` one controller with a client and a redo
transaction; `engine` both controllers calling the engine at any time, `limiter`
one with two clients, `redo` one with two redo transactions on a prepared pool
for one; `messager` has Close, `receivers` two receivers, `queue` two messages
on a cache of one, and `pair`, for liveness, two messages that compete for one
receiver; `watcher`, `cache`, `again` and `stopping` are four
environments of Discovery; `planned` and `emergency` the two reparents. In
`connpool` three borrowers (two for liveness) share a capacity of two that is set
to 1 and 2; in
`serializer` five calls meet two slots and both limits of 4; `vreplication` has
two streams, one with a stop position and one that stops at a DDL, over a log of
three transactions and a DDL; `binlog` three transactions of two statements;
`lag` four replicas with lags on both sides of the two thresholds; `session` three
commands with a lost answer, over a scatter DML and one with lookup rows.

The system may stop where every request has returned and nobody has to come
back, so deadlock is checked only in `serializer_order`.
Symmetry (participants and resolvers, requests) is used for safety only.

Larger instances were checked by hand and hold. The tablet with a redo
transaction 173,424 states; the engine alone with clients and two controllers
2,182,012; the limiter with two redo transactions 162,558; the connection pool's
liveness with three borrowers 16,121; the messager's liveness with two receivers
55,098 and with two messages on a cache of two 109,671; VReplication with every stop
position and both kinds of OnDdl 340,137; Discovery's watcher without
restrictions 1,835,651, `cache` 404,858, `again` 809,257, a scene with
replacements 1,505,993, and its inductive invariant with a tablet that comes and
goes 2,230,013; the lag filter with more lags 14,649; sessions with five plans
and three DMLs 4,668,834; two reparents of either kind with a crash, up to a
doubt, 2,263,202, and with two writes 7,411,448; the buffer's liveness with two
tablets and two reparents 657,361.

## Fairness

*Two phase commit* (`FairSpec`): handlers of a tablet run on, a tablet that is
down is started again, the watchdog's timer ticks. The vtgate that started the
commit has no fairness: it may die at any step. Faults are finitely many.

*Buffer*: requests, drain threads and timeout threads run on, the timer of the
maximum duration fires. Nobody has to cancel a request, end a failover or fire a
window timer early, and the context of a refused request need not end: that of a
MySQL client is `context.Background()`, without a timeout by default.

*Tablet*: the threads, handlers and the killer run on; strong fairness of
`Finish`, since a request that uses a transaction gives it back whenever it
can. *Connection pool*: a channel operation that is enabled again and again is
taken (Go's queue of a channel is first come, first served): strong fairness for
the resizer and the closer. *Hot rows*: a goroutine that can take a step of the
`select` takes it, a call let through finishes; nobody is cancelled by
assumption. *Messager*: the goroutines run on; strong fairness for a receiver's
goroutine and the poller at `DBLock`, a Go mutex, which is not starved, and for
Close against the passes of the poller. *VReplication*: the
controller retries; `StreamCatchesUp` itself says what must stop (failures).

## Proofs

TLAPS checks the following for every value of the constants that the named
assumptions allow. The assumptions are those of the code's configuration: sets
that must be told apart are disjoint, what is counted is finite, sizes are
natural numbers, and positive where `VerifyConfig` or the code requires it
(`ConstantsAssumption`, `BufferAssumption`, `TxPoolAssumption`,
`TxEngineAssumption`, `TabletServerAssumption`, `ConnPoolAssumption`,
`SerializerAssumption`, `MessagerAssumption`, `VReplicationAssumption`,
`BinlogPlayerAssumption`, `DiscoveryAssumption`, `LagFilterAssumption`,
`SessionAssumption`, `ReparentAssumption`); TLC evaluates each of them in the
runs. The theorems are about the specifications that the runs use, with all
their interleavings and faults; for the fair ones fairness is not used. Each
inductive invariant was checked by TLC before it was proved.

| Module | Theorem | Property |
| --- | --- | --- |
| `TwoPCProofs` | `TypeCorrect`, `CommitDecided`, `DecisionFinal`, `CommitRecoverable` | `TypeOK`, `CommitIsDecided`, `DecisionIsFinal`, `CommitIsRecoverable` |
| | `TwoPCImplementsAtomicCommit`, `PartsAreAtomic` | `ImplementsAtomicCommit`, `AtomicCommit!Atomic` |
| | `AckCommitted`, `ConcludedCommitted` | `AckedIsCommitted`, `ConcludedIsCommitted` |
| `GateProofs` | `BufferTypeCorrect`, `SlotsAreAccounted`, `IdleBufferIsQuiet`, `ChannelsClosedOnce`, `DryRunIsFree` | `TypeOK`, `SlotsAccounted`, `IdleIsQuiet`, `ClosedOnce`, `DryRunHoldsNothing` |
| | `TransactionPromises` | `SessionAgrees` |
| `TabletServerProofs` | `OneOwner`, `LimiterIsExact`, `ModeMatches` | `LimiterAccounts`, parts of `TabletAgrees` |
| | `LastRequestIsServed`, `ReadOnlyHoldsNoWrites` (the engine alone) | `LastRequestWins`, `NoWritesInReadOnly` |
| | `TabletServesLastRequest`, `TabletHoldsNoWrites` (in the tablet) | the same |
| | `TabletAlwaysAgrees`, `StopLeavesNothing` | `TabletAgrees`, `StopIsClean` |
| `AdmissionProofs` | `PoolIsExact`, `CloseIsLast` | `PoolAccounts`, `CloseWaits` |
| | `SerializerTypeCorrect`, `RowsAreProtected`, `QueuesAlwaysAgree` | `TypeOK`, `RowsProtected`, `QueuesAgree` |
| `StreamProofs` | `EveryStatementOnce`, `NeverPastStop` | `AppliedOnce`, `StopPositionHolds` |
| | `TargetFollowsSource`, `CopiedRowsFollowSource` | `TargetMatchesSource`, and its part about copied rows for every filter |
| | `DDLNeverInTransaction`, `StreamStops` | `DDLOutsideTransaction`, `StopIsRespected` |
| | `StopNotPassed` | the unreachable exit of `applyEvent` |
| | `NoLostWakeup`, `CacheFollowsTable` | `SenderNotNeeded`, `QueuedIsDue` |
| `DiscoveryProofs` | `DiscoveryPromises` | `DiscoveryAgrees` |
| | `LeastLagRouted` | `LeastLagServes` |
| `ReparentProofs` | `ReparentsAgree` | `ReparentAgrees` |

`QueueLemmas` has the facts about queues that `GateProofs` and
`AdmissionProofs` share. Each module names the backends its leaves use: Zenon
first, and the SMT solver for what needs arithmetic or tells strings apart.

### Two phase commit

`CallInv` is the bookkeeping of calls: a call somebody waits for belongs to the
operation its caller is in, there is one per target, and its reply slot says
"wait"; so a caller continues only when none of its calls is in flight.
`DecisionInv` says what each piece of state knows of the decision: the row's
state, the replies held by callers, the operations they are in and the calls in
flight (even late ones) agree with `decision`, and MM's transaction is busy
exactly while the one StartCommit holds it. Without the clauses about calls in
flight the property is not inductive: a late `CommitPrepared` could commit after
a rollback. `RedoInv` says that an ok answer to Prepare makes a participant
*safe* (committed, in the redo log, or the decision is to roll back) and that
StartCommit is only in flight when all are safe.

*Refinement.* A step changes the part of at most one shard. MM's `StartCommit`
is the abstract `DecideCommit`, `SetRollback` is `DecideRollback`. A
participant's part goes from pending to aborted only without a decision to
commit (`RedoInv`), to committed only with one (`DecisionInv`), and never back
from aborted to pending: `ConnectionInv` says that only the one Prepare that
holds the connection as busy puts it into the pool, that a tablet that is down
runs no handler, and that nobody gets a connection back that CommitPrepared has
taken out.

*Acknowledged and concluded.* `CommitPrepared` answers ok when the dtid is
neither reserved nor in the pool. That is true only if such a participant has
committed: `HeldInv` says that a participant that is up, has a redo log row or
is writing one and has not committed holds the connection in the pool, unless
the dtid is reserved or the decision is to roll back, and that a handler that
has taken the connection keeps the dtid reserved until MySQL has committed. It
needs `MayStop = FALSE` and `RedoMayFail = FALSE`, which the two theorems
assume: a graceful stop empties the pool while requests are still admitted, and
`twopc_stopack` shows that the property fails then. `ConcludeInv` carries it to
the conclusion: nobody concludes a committed transaction before every
`CommitPrepared` was answered ok.

### Request buffer

`PhaseInv` ties the threads and queues of a shard to its state: no drain thread
while it buffers, and entries are drained only after the timeout thread has
returned. `EntryInv` says that an entry is in one place: queues have no
duplicates, an entry is in the queue of its request's shard, has an open channel
and no finishing goroutine while it is queued. With `SlotsAccounted` itself they
are inductive (`IInv`); the bound on the free slots in `TypeOK` follows from it,
which is why the types without it (`Types`) come first. Each step moves a slot
together with an entry (`SlotChange`), the rest is arithmetic on cardinalities.
`DryRunIsFree` adds `DryInv`: an entry queued on a shard belongs to a request of
that shard, so nothing that serves another shard blocks or unblocks a request of
one in dry-run mode.

### Tablet

`OwnInv` says that the two threads never both own a transition. `LimiterInv`
counts the slots by the stages of the clients' transactions. `EngineInv` says
that, in the tablet, one thread at a time calls the engine, and ties the
engine's state to where that thread is. `PoolInv` is `CountInv` (what is lent
and what a close has taken back fit the capacity, a closed pool has lent
nothing) and `RunInv` (a serving engine has an open pool and a killer).

`LastRequestWins` and `NoWritesInReadOnly` are proved twice. For the engine
alone any number of threads call it at any time: `RequestInv` says that one
close runs at a time, under the lock of a ReadOnly engine or in a transition,
that a transition is headed to what was asked for last, and that without one
that state has been reached; `WriteInv` that whoever waited for the begins finds
only those that overtook it, so that after `WaitForEmpty` only those can be in
the pool. In the tablet, where `StopGently` does not wait for the begins,
`WantedInv` replaces `RequestInv`, and `EngineInv` and `PoolInv` supply what it
loses: there is one caller, and a closed pool has lent nothing.

### Connection pool and hot rows

`ConnInv` is the three accounts of `PoolAccounts`, the types, and
`ThreadsAgree`: what the resizer and the closer still have to do fits the
capacity the pool was opened with.

The properties of the serializer are not inductive alone. `IInv` adds that
blocked senders are waiting calls of the channel's key, each once (`Senders`),
so that a receive exchanges one call of the row for another; that the only call
of a key without a channel is let through, so that the element put in for it is
right; and that a channel exists only while its queue does (`SlotOK`).

### Streams

`PlayerInv`: while the player receives or processes, its position is the saved
one and short of the stop position; each statement of the open transaction was
executed at most once; at the commit all were, and the position is one further.

`StreamInv`: a stream that plays is short of its stop position or in the
transaction that reaches it (`ShortOfStop`); a transaction of the target stays
open from one source transaction to the next only if the next is no DDL
(`MergedBeforeDDL`); and the transaction that a cancelled catchup leaves open is
met again before any DDL (`CatchupLeaves`), since what catchup played and did not
save begins with no DDL. No bound on the log is used.

`MatchInv` is what `TargetMatchesSource` needs: not only the committed rows but
also those the open transaction sees (`PlayedMatch`) are those of the source
where the player is, in the middle of a transaction of the source too, up to the
last copied key. The difficult case is the transaction that a cancelled catchup
left open: a row it changed is as that transaction left it until the player
comes past the change again (`AheadOf`), so that each row is in one of two
states. `SourceAfter` is defined by the last change of a row and not by recursion
over the log, so that what one more change does to it (`Put`) follows without
induction.

`ManagerInv`: `curReceiver` is a free receiver whenever there is one, every
step that could make the sender needed broadcasts to it (`BatchSize` of at least
1 is needed: a receiver that is handed nothing would be free again without an
event), and a manager that is shut has an empty queue (`ShutIsEmpty`); `DBLock`
is held from before a commit until the cache is updated and by the poller from
its read until it adds, so a row read as due is due when it is queued
(`LockInv`, `RowsInv`).

### Discovery and the lag filter

`WatchInv` says, for each key that was not crossed, what the calls under way are
about to do: a call that will only delete means that the watcher does not know
the key and nobody is about to add it, and so on, so that when no call is left
the entry is there exactly if the key is known. `ConnInv`: an entry has a
goroutine that is not cancelled and every such goroutine has its entry.
`CacheInv` names the one type under which the cache may have a tablet at each
step of `updateHealth` (`Base`): before the lock that of the entry, then the old
one until the event for it is sent, then the new one. It needs that a key has one
goroutine, which is why `raced` is excepted. `MasterInv` is `MasterIsLatest` and
that nobody has reported while there is no master; that a tablet's timestamps
never decrease comes from `CacheInv`.

For the lag filter, the mean of the others is larger for the replica that lags
less (the sums are cardinalities of sets of pairs, so that no induction is
needed), hence `NearMean`, `Least` and the second round keep a set that is closed
towards smaller lags. `LagInv` says that the list is a result of the filter for
what is remembered, and what was reported differs from that by a trivial update.

### Sessions

`SessionHeld`: the session holds exactly what is open for it, and a commit has
emptied the stages before its own. `OrderInv` adds to `CommitsInOrder` what is
true of the transactions of the current round (`RoundInv`): nothing is committed
before the commit runs or the last statement was sent with autocommit, and
nothing is undone or lost but in the stage that failed. `FailInv` says where the
DML that runs may have left something (`DidInv`), so that a failure without
`mustRollback` leaves nothing. `AckInv`: unless something made the session roll
back, what is to be acknowledged is done on all its shards.

### Reparenting

`CallInv` is the bookkeeping of the RPCs: the wrangler waits exactly for those
that are heard, and what they have come to fits its step. The rest holds while
there is no doubt (`Undoubted`); that a handler goes on after it was given up on
sets `doubt` in the step in which it does. `WriterInv` and `MasterInv`: only the master of
the record and the tablet that is being promoted may be writable, and not both.
`PosInv` and `LogInv` are about data: the position the demoted master answered is
all it has; until the promotion the master of the record has what any tablet has
(`HasMost`), from the moment it caught up or was elected the new one has, so that
the two overlap for the length of the promotion. `LeftInv`, `DoneFollowing` and
`SettledInv` are about the tablets that follow.

### Only model-checked

* Liveness under fairness (`AllResolved`, `BufferedReturns`, `ShutdownEnds` and
  those of `parts_live`), which is out of the prover's reach.
* `PartsTypeOK`, as far as it is not part of an invariant above.
* What the violation runs show.

## What the models say about the code

Six runs show a disagreement between the code and what a comment, a flag or a
test says of it; `PROJECT.json` quotes them under "findings". Other observations
are in the exact form in which the properties hold:

* **Buffer.** The gateway drops the `RetryDoneFunc` that comes with an error, so
  the goroutine of a request evicted from a full buffer ends only with the
  request's own context, and Shutdown waits for it. The context of a request from
  the MySQL protocol has no end by default: `ShutdownEnds` excepts this.
* **Limiter.** A Begin refused at `waiterCap` never releases its slot of the
  per user limiter; `LimiterAccounts` counts these as `leaked`.
* **Begin against AcceptReadOnly.** A Begin between `beginRequests.Wait` and the
  lock is not waited for; its transaction may be in the pool of a ReadOnly
  engine (`overtook`). `StopGently` does not wait for begins at all.
* **Transition signal.** `transitionSignal` may be replaced while another caller
  is about to read it.
* **Restore from the redo log.** A transaction that cannot be put into the
  prepared pool stays in use by nobody (stage "stray"), and a close that waits
  for the pool to become empty waits for it: `TransitionEnds` excepts it.
* **Connection pool.** `SetCapacity` holds `cp.mu` while it waits for
  connections, so a Put through `connpool` blocks behind it; a Close that races
  a shrink closes the channel although the other still waits.
* **Messages.** `Engine.Close` waits for the manager under the engine's `mu`,
  which a goroutine that postpones or a transaction that updates the cache may
  need: `CloseCompletes` says who is then waited for. A commit that is applied
  and returns an error leaves an acknowledged row in the cache. The poller reads
  at most the size of the cache, "order by time_next desc": with more due rows
  than that, the oldest may never be read while newer ones keep coming, so
  `DueIsSent` is checked with a cache that holds all rows.
* **VReplication.** A catchup that is cancelled leaves its transaction open, and
  the next statement may commit it with the position of an earlier, empty one; a
  DDL met by `fastForward` with OnDdl STOP lets the copy go on before its
  snapshot (`tainted`). The timer of the catchup is never reset. A catchup that
  looks at the lag after `play` has ended drops its result, an error or a stop.
* **Binlog player.** An error of `SetVReplicationState` is only logged.
* **Discovery.** `RemoveTablet` runs in a goroutine: a tablet that comes back
  before it has run is never checked again (`crossed`). A tablet removed in the
  middle of an update that changes its type, or added again before the goroutine
  of its key was gone, may stay in the cache (`raced`). The comment of
  `updateHealthyMapForMaster`'s caller says of masters that "we only keep the
  most recent one". When the one that is kept goes, none is, and the next master
  that reports is kept although the cache may know a later one that has not
  reported since: `MasterIsLatest` compares only those that have (`reported`).
* **Lag filter.** A replica of low lag may drop out, in favour of others that lag
  no more: if the mean of the others is at most 0.7 of the mean, or rounds down
  to zero.
* **Sessions.** `hasPartialDML` is set only by a call in which no shard failed.
  A DML that fails on some of its shards in its only call is not rolled back
  ("Check if there was partial DML execution. If so, rollback the transaction."),
  and the transaction may still be committed with the other shards' part.
* **Reparenting.** A promotion the wrangler gave up on may still complete, even
  from its wait for the position if the context ends too late, and
  `UndoDemoteMaster` then makes two writable masters (`doubt`); an error after
  the promotion leaves the shard record stale; an emergency loses what no
  answering replica had applied (`forgone`); a replica whose answer to
  `StopReplication` is lost stays stopped; a lost answer to `DemoteMaster` leaves
  the shard without a writer.

## What is not modelled

The components of `PROJECT.json` name every part with the reason it is left
out. In short: parsing, planning, the wire protocol, values and generated code
have no state between requests; the topology back ends, mysqld control and
backups are adapters to external services whose guarantees would have to be
assumed; RPC and command line glue repeats what the components below it do;
throttlers, the heartbeat and the resilient serving graph are about rates and
clocks; the resharding workers and the wrangler's resharding are sequential jobs
over MySQL data. Of the modelled components, what is left out is named in the
sections above and in the module comments: a second wrangler after a lost lock,
InitShardMaster, external reparents and semi-synchronous replication
(`Reparent`); OnDdl EXEC, aggregates and expressions (`VReplication`); DDL,
streaming and the batch interfaces (`Session`); several distributed transactions
that share a prepared pool (`TwoPC`).
