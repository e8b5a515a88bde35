----------------------------- MODULE ShardBuffer -----------------------------
(***************************************************************************)
(* vtgate's request buffer: the requests to a shard whose master fails     *)
(* over are held back and retried when the failover is over.               *)
(*                                                                         *)
(* Each shard has a shardBuffer (IDLE, BUFFERING, DRAINING) with a queue   *)
(* of entries, a timeout thread while it is buffering and a drain thread   *)
(* while it is draining.  All shards share the slots of one semaphore.     *)
(* A call of WaitForFailoverEnd is a member of Requests; its entry has a   *)
(* channel "done" and a context bufferCtx, derived from the request's own. *)
(*                                                                         *)
(* A timer may fire at any time after it was started.  The two lists of    *)
(* recent events (last failover, last reparent) are one flag that is set   *)
(* by the event and falls when minTimeBetweenFailovers has passed.         *)
(***************************************************************************)
EXTENDS Naturals, FiniteSets, Sequences, Functions, Queues

CONSTANTS Requests,      \* the calls of WaitForFailoverEnd
          Shards,        \* the shards they are addressed to
          DryRun,        \* the shards whose buffer is in dry-run mode
          Tablets,       \* the aliases of the masters the health check reports
          None,          \* no master is known yet, or no entry
          Size,          \* -buffer_size, the slots of bufferSizeSema
          MaxTimestamp   \* bound on the externally reparented timestamps

ASSUME BufferAssumption ==
  /\ DryRun \subseteq Shards /\ IsFiniteSet(Requests)
  /\ None \notin Tablets \cup Requests
  /\ Size \in Nat \ {0} /\ MaxTimestamp \in Nat

VARIABLES
  at,          \* the shard of each request
  detected,    \* TRUE if the request comes with an error caused by a failover
  state,       \* shardBuffer.state
  queue,       \* shardBuffer.queue, empty where the code has nil
  recent,      \* lastEnd or lastReparent is less than minTimeBetweenFailovers ago
  reparented,  \* shardBuffer.externallyReparented
  master,      \* shardBuffer.currentMaster
  tt,          \* the timeout thread: what it does and the entry it waits for
  drain,       \* what the drain thread does
  rest,        \* the entries it has not finished
  free,        \* the free slots of bufferSizeSema
  req,         \* where each request is
  unblocked,   \* "no": e.done is open; else it is closed and this is e.err
  ctxDone,     \* the requests whose bufferCtx is done: bufferCancel was called,
               \* or the request's own context is done
  finisher,    \* the goroutine waitForRequestFinish of an evicted entry
  shut         \* Buffer.Shutdown

reqVars   == <<at, detected, req, unblocked, ctxDone, finisher>>
shardVars == <<state, queue, recent, reparented, master, tt, drain, rest>>
vars      == <<reqVars, shardVars, free, shut>>

Threads == [pc : {"none", "look", "entry", "evict", "pick", "empty", "woken", "expire"},
            e : Requests \cup {None}]
Thread(p, e) == [pc |-> p, e |-> e]
(* Every variable has the type its Go counterpart allows. *)
TypeOK ==
  /\ at \in [Requests -> Shards] /\ detected \in [Requests -> BOOLEAN]
  /\ state \in [Shards -> {"IDLE", "BUFFERING", "DRAINING"}]
  /\ queue \in [Shards -> Seq(Requests)] /\ rest \in [Shards -> Seq(Requests)]
  /\ recent \in [Shards -> BOOLEAN]
  /\ reparented \in [Shards -> Nat] /\ master \in [Shards -> Tablets \cup {None}]
  /\ tt \in [Shards -> Threads]
  /\ drain \in [Shards -> {"none", "start", "stopping", "loop", "wait"}]
  /\ free \in 0..Size
  /\ req \in [Requests -> {"new", "checked", "waiting", "removing", "retrying", "failed", "returned"}]
  /\ unblocked \in [Requests -> {"no", "nil", "evicted"}]
  /\ ctxDone \subseteq Requests
  /\ finisher \in [Requests -> {"none", "keep", "release"}]
  /\ shut \in {"up", "waiting", "returned"}

Init ==
  /\ at \in [Requests -> Shards] /\ detected \in [Requests -> BOOLEAN]
  /\ state = [s \in Shards |-> "IDLE"]
  /\ queue = [s \in Shards |-> << >>] /\ rest = [s \in Shards |-> << >>]
  /\ recent = [s \in Shards |-> FALSE]
  /\ reparented = [s \in Shards |-> 0] /\ master = [s \in Shards |-> None]
  /\ tt = [s \in Shards |-> Thread("none", None)]
  /\ drain = [s \in Shards |-> "none"]
  /\ free = Size
  /\ req = [r \in Requests |-> "new"] /\ unblocked = [r \in Requests |-> "no"]
  /\ ctxDone = {}
  /\ finisher = [r \in Requests |-> "none"]
  /\ shut = "up"
-----------------------------------------------------------------------------
Goto(r, p) == req' = [req EXCEPT ![r] = p]

ShouldBuffer(r) ==
  \/ state[at[r]] = "IDLE" /\ detected[r]
  \/ state[at[r]] = "BUFFERING"

(* Buffer.WaitForFailoverEnd and the first test of waitForFailoverEnd,     *)
(* under the read lock.  getOrCreateBuffer returns nil once the buffer is  *)
(* shut down.                                                              *)
WaitForFailoverEnd(r) ==
  /\ req[r] = "new"
  /\ Goto(r, IF shut = "up" /\ ShouldBuffer(r) THEN "checked" ELSE "returned")
  /\ UNCHANGED <<at, detected, unblocked, ctxDone, finisher, shardVars, free, shut>>

(* The second test, under the lock, and the tests on recent failovers.     *)
MayBuffer(r) == ShouldBuffer(r) /\ ~(state[at[r]] = "IDLE" /\ recent[at[r]])

Skip(r) ==
  /\ req[r] = "checked" /\ ~MayBuffer(r)
  /\ Goto(r, "returned")
  /\ UNCHANGED <<at, detected, unblocked, ctxDone, finisher, shardVars, free, shut>>

(* startBufferingLocked when the shard is idle: the timeout thread starts. *)
(* Otherwise, with the queue q of one entry, notifyQueueNotEmpty closes    *)
(* the channel the thread may be waiting on.                               *)
Notified(t) == IF t.pc = "empty" THEN Thread("woken", None) ELSE t

ThreadAfter(s, q) ==
  IF state[s] = "IDLE" THEN Thread("look", None)
  ELSE IF Len(q) = 1 THEN Notified(tt[s]) ELSE tt[s]

Buffering(s, q) ==
  /\ state' = [state EXCEPT ![s] = "BUFFERING"]
  /\ queue' = [queue EXCEPT ![s] = q]
  /\ tt' = [tt EXCEPT ![s] = ThreadAfter(s, q)]
  /\ UNCHANGED <<at, detected, recent, reparented, master, drain, rest, shut>>

(* Dry-run: buffering starts, but the request goes on. *)
BufferDryRun(r) ==
  /\ req[r] = "checked" /\ MayBuffer(r) /\ at[r] \in DryRun
  /\ Buffering(at[r], queue[at[r]])
  /\ Goto(r, "returned")
  /\ UNCHANGED <<unblocked, ctxDone, finisher, free>>

(* bufferRequestLocked: the slots are used up by other shards. *)
BufferFull(r) ==
  /\ req[r] = "checked" /\ MayBuffer(r) /\ at[r] \notin DryRun
  /\ free = 0 /\ queue[at[r]] = << >>
  /\ Buffering(at[r], << >>)
  /\ Goto(r, "returned")
  /\ UNCHANGED <<unblocked, ctxDone, finisher, free>>

(* unblockAndWait without blocking: close e.done and leave the wait for    *)
(* bufferCtx, and the slot if release, to a goroutine.                     *)
Unblock(e, err, release) ==
  /\ unblocked' = [unblocked EXCEPT ![e] = err]
  /\ finisher' = [finisher EXCEPT ![e] = IF release THEN "release" ELSE "keep"]

(* Faulty variant: the evicted entry gives its slot back as well. *)
BufferEvictReleasing(r) ==
  LET s == at[r] IN
  /\ req[r] = "checked" /\ MayBuffer(r) /\ s \notin DryRun
  /\ free = 0 /\ queue[s] # << >>
  /\ Unblock(Head(queue[s]), "evicted", TRUE)
  /\ Buffering(s, Append(Tail(queue[s]), r))
  /\ Goto(r, "waiting")
  /\ UNCHANGED <<ctxDone, free>>

(* The oldest entry of the shard makes room; its slot passes to the new one. *)
BufferEvict(r) ==
  LET s == at[r] IN
  /\ req[r] = "checked" /\ MayBuffer(r) /\ s \notin DryRun
  /\ free = 0 /\ queue[s] # << >>
  /\ Unblock(Head(queue[s]), "evicted", FALSE)
  /\ Buffering(s, Append(Tail(queue[s]), r))
  /\ Goto(r, "waiting")
  /\ UNCHANGED <<ctxDone, free>>

(* Faulty variant: dry-run mode is not looked at. *)
BufferAcquireAlways(r) ==
  /\ req[r] = "checked" /\ MayBuffer(r)
  /\ free > 0 /\ free' = free - 1
  /\ Buffering(at[r], Append(queue[at[r]], r))
  /\ Goto(r, "waiting")
  /\ UNCHANGED <<unblocked, ctxDone, finisher>>

BufferAcquire(r) ==
  /\ req[r] = "checked" /\ MayBuffer(r) /\ at[r] \notin DryRun
  /\ free > 0 /\ free' = free - 1
  /\ Buffering(at[r], Append(queue[at[r]], r))
  /\ Goto(r, "waiting")
  /\ UNCHANGED <<unblocked, ctxDone, finisher>>
-----------------------------------------------------------------------------
(* wait: the select of the request, and what its caller does next.         *)
WaitDone(r) ==
  /\ req[r] = "waiting" /\ unblocked[r] # "no"
  /\ Goto(r, IF unblocked[r] = "nil" THEN "retrying" ELSE "failed")
  /\ UNCHANGED <<at, detected, unblocked, ctxDone, finisher, shardVars, free, shut>>

WaitCancelled(r) ==
  /\ req[r] = "waiting" /\ r \in ctxDone
  /\ Goto(r, "removing")
  /\ UNCHANGED <<at, detected, unblocked, ctxDone, finisher, shardVars, free, shut>>

(* Faulty variant: remove unblocks an entry it did not find. *)
RemoveEntryUnchecked(r) ==
  /\ req[r] = "removing" /\ Goto(r, "returned")
  /\ \/ /\ r \notin Range(queue[at[r]])
        /\ Unblock(r, "nil", TRUE)
        /\ UNCHANGED <<queue, ctxDone>>
     \/ \E i \in 1..Len(queue[at[r]]) :
        /\ queue[at[r]][i] = r
        /\ queue' = [queue EXCEPT ![at[r]] = Without(@, i)]
        /\ ctxDone' = ctxDone \cup {r}
        /\ Unblock(r, "nil", TRUE)
  /\ UNCHANGED <<at, detected, state, recent, reparented, master, tt, drain, rest, free, shut>>

(* remove: only an entry that is still queued is cancelled and unblocked.  *)
RemoveEntry(r) ==
  /\ req[r] = "removing" /\ Goto(r, "returned")
  /\ \/ /\ r \notin Range(queue[at[r]])
        /\ UNCHANGED <<queue, ctxDone, unblocked, finisher>>
     \/ \E i \in 1..Len(queue[at[r]]) :
        /\ queue[at[r]][i] = r
        /\ queue' = [queue EXCEPT ![at[r]] = Without(@, i)]
        /\ ctxDone' = ctxDone \cup {r}
        /\ Unblock(r, "nil", TRUE)
  /\ UNCHANGED <<at, detected, state, recent, reparented, master, tt, drain, rest, free, shut>>

(* Faulty variant: the retry ends without a call of RetryDoneFunc. *)
RetryDoneUncalled(r) ==
  /\ req[r] = "retrying"
  /\ Goto(r, "returned")
  /\ UNCHANGED <<at, detected, unblocked, ctxDone, finisher, shardVars, free, shut>>

(* RetryDoneFunc, called by the gateway after the retry. *)
RetryDone(r) ==
  /\ req[r] = "retrying"
  /\ Goto(r, "returned")
  /\ ctxDone' = ctxDone \cup {r}
  /\ UNCHANGED <<at, detected, unblocked, finisher, shardVars, free, shut>>

(* The client gives up, or the request's RPC has ended.  Only the context  *)
(* of a buffered request matters; a request cancelled earlier finds its    *)
(* context done as soon as it is queued.                                   *)
Cancel(r) ==
  /\ req[r] \in {"waiting", "retrying", "failed"} /\ r \notin ctxDone
  /\ ctxDone' = ctxDone \cup {r}
  /\ UNCHANGED <<at, detected, req, unblocked, finisher, shardVars, free, shut>>

(* waitForRequestFinish, in a goroutine of its own. *)
RequestFinish(r) ==
  /\ finisher[r] # "none" /\ r \in ctxDone
  /\ free' = IF finisher[r] = "release" THEN free + 1 ELSE free
  /\ finisher' = [finisher EXCEPT ![r] = "none"]
  /\ UNCHANGED <<at, detected, req, unblocked, ctxDone, shardVars, shut>>
-----------------------------------------------------------------------------
(* Faulty variant: the queue is cleared before the drain thread gets it. *)
StopBufferingCleared(S) ==
  LET stopped == {s \in S : state[s] = "BUFFERING"} IN
  /\ state' = [s \in Shards |-> IF s \in stopped THEN "DRAINING" ELSE state[s]]
  /\ rest' = [s \in Shards |-> IF s \in stopped THEN << >> ELSE rest[s]]
  /\ queue' = [s \in Shards |-> IF s \in stopped THEN << >> ELSE queue[s]]
  /\ drain' = [s \in Shards |-> IF s \in stopped THEN "start" ELSE drain[s]]

(* stopBufferingLocked: the drain thread takes over the queue. *)
StopBuffering(S) ==
  LET stopped == {s \in S : state[s] = "BUFFERING"} IN
  /\ state' = [s \in Shards |-> IF s \in stopped THEN "DRAINING" ELSE state[s]]
  /\ rest' = [s \in Shards |-> IF s \in stopped THEN queue[s] ELSE rest[s]]
  /\ queue' = [s \in Shards |-> IF s \in stopped THEN << >> ELSE queue[s]]
  /\ drain' = [s \in Shards |-> IF s \in stopped THEN "start" ELSE drain[s]]

StoppedRecently(s) == recent[s] \/ state[s] = "BUFFERING"

(* recordExternallyReparentedTimestamp: only a newer timestamp counts.  An *)
(* update may have looked up the buffer before it was shut down.           *)
RecordReparented(s, ts, alias) ==
  /\ ts > reparented[s]
  /\ reparented' = [reparented EXCEPT ![s] = ts]
  /\ master' = [master EXCEPT ![s] = alias]
  /\ recent' = [recent EXCEPT ![s] = StoppedRecently(s) \/ master[s] \notin {None, alias}]
  /\ StopBuffering({s})
  /\ UNCHANGED <<reqVars, tt, free, shut>>

(* minTimeBetweenFailovers has passed. *)
Elapse(s) ==
  /\ recent[s] /\ recent' = [recent EXCEPT ![s] = FALSE]
  /\ UNCHANGED <<reqVars, state, queue, reparented, master, tt, drain, rest, free, shut>>

(* Faulty variant: the drain thread does not wait for the timeout thread. *)
DrainStopNoWait(s) ==
  /\ drain[s] = "start"
  /\ drain' = [drain EXCEPT ![s] = "loop"]
  /\ UNCHANGED <<reqVars, state, queue, recent, reparented, master, tt, rest, free, shut>>

(* drain: timeoutThread.stop() closes stopChan and waits for the thread. *)
DrainStop(s) ==
  /\ drain[s] = "start"
  /\ drain' = [drain EXCEPT ![s] = "stopping"]
  /\ UNCHANGED <<reqVars, state, queue, recent, reparented, master, tt, rest, free, shut>>

DrainStopped(s) ==
  /\ drain[s] = "stopping" /\ tt[s].pc = "none"
  /\ drain' = [drain EXCEPT ![s] = "loop"]
  /\ UNCHANGED <<reqVars, state, queue, recent, reparented, master, tt, rest, free, shut>>

(* The entries are unblocked one after the other, each when the retry of   *)
(* the one before is done.                                                 *)
DrainUnblock(s) ==
  /\ drain[s] = "loop" /\ rest[s] # << >>
  /\ unblocked' = [unblocked EXCEPT ![Head(rest[s])] = "nil"]
  /\ drain' = [drain EXCEPT ![s] = "wait"]
  /\ UNCHANGED <<at, detected, req, ctxDone, finisher, state, queue, recent, reparented, master, tt, rest, free, shut>>

(* The request has finished: its slot is free. *)
DrainNext(s) ==
  /\ drain[s] = "wait" /\ Head(rest[s]) \in ctxDone
  /\ free' = free + 1
  /\ rest' = [rest EXCEPT ![s] = Tail(@)]
  /\ drain' = [drain EXCEPT ![s] = "loop"]
  /\ UNCHANGED <<reqVars, state, queue, recent, reparented, master, tt, shut>>

DrainDone(s) ==
  /\ drain[s] = "loop" /\ rest[s] = << >>
  /\ state' = [state EXCEPT ![s] = "IDLE"]
  /\ drain' = [drain EXCEPT ![s] = "none"]
  /\ UNCHANGED <<reqVars, queue, recent, reparented, master, tt, rest, free, shut>>
-----------------------------------------------------------------------------
(* The timeout thread.  oldestEntry() and then the choice of a channel to  *)
(* wait on are separate steps.                                             *)
ThreadLook(s) ==
  /\ tt[s].pc = "look"
  /\ tt' = [tt EXCEPT ![s] = IF queue[s] # << >> THEN Thread("entry", Head(queue[s])) ELSE Thread("pick", None)]
  /\ UNCHANGED <<reqVars, state, queue, recent, reparented, master, drain, rest, free, shut>>

(* waitForNonEmptyQueue picks up the present channel queueNotEmpty. *)
ThreadPick(s) ==
  /\ tt[s].pc = "pick"
  /\ tt' = [tt EXCEPT ![s] = Thread("empty", None)]
  /\ UNCHANGED <<reqVars, state, queue, recent, reparented, master, drain, rest, free, shut>>

Waits(s) == tt[s].pc \in {"entry", "empty", "woken"}

(* The entry was unblocked, or the queue is not empty any more. *)
ThreadNext(s) ==
  /\ \/ tt[s].pc = "entry" /\ unblocked[tt[s].e] # "no"
     \/ tt[s].pc = "woken"
  /\ tt' = [tt EXCEPT ![s] = Thread("look", None)]
  /\ UNCHANGED <<reqVars, state, queue, recent, reparented, master, drain, rest, free, shut>>

WindowExceeded(s) ==
  /\ tt[s].pc = "entry"
  /\ tt' = [tt EXCEPT ![s] = Thread("evict", tt[s].e)]
  /\ UNCHANGED <<reqVars, state, queue, recent, reparented, master, drain, rest, free, shut>>

(* evictOldestEntry: the entry may have left the queue in the meantime. *)
EvictOldest(s) ==
  LET e == tt[s].e IN
  /\ tt[s].pc = "evict"
  /\ IF queue[s] # << >> /\ Head(queue[s]) = e
     THEN Unblock(e, "nil", TRUE) /\ queue' = [queue EXCEPT ![s] = Tail(@)]
     ELSE UNCHANGED <<unblocked, finisher, queue>>
  /\ tt' = [tt EXCEPT ![s] = Thread("look", None)]
  /\ UNCHANGED <<at, detected, req, ctxDone, state, recent, reparented, master, drain, rest, free, shut>>

(* maxDuration: the failover takes too long. *)
MaxDurationUp(s) ==
  /\ Waits(s)
  /\ tt' = [tt EXCEPT ![s] = Thread("expire", None)]
  /\ UNCHANGED <<reqVars, state, queue, recent, reparented, master, drain, rest, free, shut>>

(* stopBufferingDueToMaxDuration, and the thread returns. *)
StopDueToMaxDuration(s) ==
  /\ tt[s].pc = "expire"
  /\ tt' = [tt EXCEPT ![s] = Thread("none", None)]
  /\ StopBuffering({s})
  /\ recent' = [recent EXCEPT ![s] = StoppedRecently(s)]
  /\ UNCHANGED <<reqVars, reparented, master, free, shut>>

(* stopChan is closed. *)
ThreadStop(s) ==
  /\ Waits(s) /\ drain[s] = "stopping"
  /\ tt' = [tt EXCEPT ![s] = Thread("none", None)]
  /\ UNCHANGED <<reqVars, state, queue, recent, reparented, master, drain, rest, free, shut>>
-----------------------------------------------------------------------------
(* Buffer.Shutdown: stop every shard's buffering, then wait for the        *)
(* goroutines each shardBuffer has counted in its wait group.  Both loops  *)
(* over the shards are one step.                                           *)
Shutdown ==
  /\ shut = "up" /\ shut' = "waiting"
  /\ StopBuffering(Shards)
  /\ recent' = [s \in Shards |-> StoppedRecently(s)]
  /\ UNCHANGED <<reqVars, reparented, master, tt, free>>

NoGoroutines ==
  /\ \A s \in Shards : drain[s] = "none" /\ tt[s].pc = "none"
  /\ \A r \in Requests : finisher[r] = "none"

(* The timeout thread is not counted; drain waits for it. *)
ShutdownReturn ==
  /\ shut = "waiting" /\ shut' = "returned"
  /\ \A s \in Shards : drain[s] = "none"
  /\ \A r \in Requests : finisher[r] = "none"
  /\ UNCHANGED <<reqVars, shardVars, free>>

Request(r) ==
  \/ WaitForFailoverEnd(r) \/ Skip(r) \/ BufferDryRun(r) \/ BufferFull(r)
  \/ BufferEvict(r) \/ BufferAcquire(r) \/ WaitDone(r) \/ WaitCancelled(r)
  \/ RemoveEntry(r) \/ RetryDone(r) \/ RequestFinish(r)

Drain(s) == DrainStop(s) \/ DrainStopped(s) \/ DrainUnblock(s) \/ DrainNext(s) \/ DrainDone(s)

TimeoutThread(s) ==
  \/ ThreadLook(s) \/ ThreadPick(s) \/ ThreadNext(s) \/ WindowExceeded(s) \/ EvictOldest(s)
  \/ StopDueToMaxDuration(s) \/ ThreadStop(s)

Next ==
  \/ \E r \in Requests : Request(r) \/ Cancel(r)
  \/ \E s \in Shards : Drain(s) \/ TimeoutThread(s) \/ MaxDurationUp(s) \/ Elapse(s)
  \/ \E s \in Shards, ts \in 1..MaxTimestamp, alias \in Tablets : RecordReparented(s, ts, alias)
  \/ Shutdown \/ ShutdownReturn

Spec == Init /\ [][Next]_vars

(* The goroutines and the requests run, and the maximum duration of a      *)
(* failover comes to its end.  Nobody need cancel a request or end a       *)
(* failover, and the context of a refused request need not end either: a   *)
(* MySQL client's is context.Background() (plugin_mysql_server.go:103).    *)
Fairness ==
  /\ \A r \in Requests : WF_vars(Request(r))
  /\ \A s \in Shards : WF_vars(Drain(s)) /\ WF_vars(TimeoutThread(s)) /\ WF_vars(MaxDurationUp(s))
  /\ WF_vars(ShutdownReturn)

FairSpec == Spec /\ Fairness
-----------------------------------------------------------------------------
Queued   == UNION {Range(queue[s]) : s \in Shards}
Draining == UNION {Range(rest[s]) : s \in Shards}

(* Every slot of the semaphore is free or is held by exactly one entry:    *)
(* one that is queued, one that is drained, or one that was evicted and    *)
(* still retries.  No order of evictions, cancellations, timeouts and      *)
(* drains loses a slot or gives one back twice.                            *)
SlotsAccounted ==
  free + Cardinality(Queued \cup Draining \cup {r \in Requests : finisher[r] = "release"}) = Size

(* A channel is closed once: an entry that is still queued, or that the    *)
(* drain thread has still to unblock, is not unblocked yet, and no entry   *)
(* is in two places (unblockAndWait would panic on the second close).      *)
ClosedOnce ==
  /\ \A s \in Shards : IsInjective(queue[s]) /\ IsInjective(rest[s])
  /\ Queued \cap Draining = {}
  /\ \A r \in Queued : unblocked[r] = "no" /\ finisher[r] = "none"
  /\ \A s \in Shards : \A i \in 1..Len(rest[s]) :
       (i > 1 \/ drain[s] # "wait") => unblocked[rest[s][i]] = "no"

(* A shard is idle only when nothing of the last failover is left: no      *)
(* entry, no drain thread, and no timeout thread that could end or evict   *)
(* from the next one.                                                      *)
IdleIsQuiet ==
  \A s \in Shards : state[s] = "IDLE" =>
     tt[s].pc = "none" /\ drain[s] = "none" /\ queue[s] = << >> /\ rest[s] = << >>

(* In dry-run mode buffering starts and stops, but no request is held      *)
(* back, no slot is used and there is nothing to drain.                    *)
DryRunHoldsNothing ==
  /\ \A s \in DryRun : queue[s] = << >> /\ rest[s] = << >>
  /\ \A r \in Requests : at[r] \in DryRun => req[r] # "waiting" /\ unblocked[r] = "no"

(* Every request that waits in the buffer comes back, even if the failover *)
(* never ends and its client never gives up.                               *)
BufferedReturns == \A r \in Requests : req[r] = "waiting" ~> req[r] \in {"failed", "returned"}

(* The goroutine of an entry that was evicted because the buffer is full   *)
(* waits for bufferCtx, and the gateway drops the RetryDoneFunc that comes *)
(* with the error (discoverygateway.go:270-276): only the end of the       *)
(* request's own context can end it.                                       *)
LeftBehind(r) == req[r] = "failed" /\ finisher[r] = "keep" /\ r \notin ctxDone

(* Shutdown returns, unless it waits for ever for the goroutine of a       *)
(* request that was refused and whose context never ends: no drain, no     *)
(* retry, no timeout thread and no cancelled request holds it up.          *)
ShutdownEnds ==
  shut = "waiting" ~> (shut = "returned" \/ [](\E r \in Requests : LeftBehind(r)))

(* flags.go:33, "Duration for how long a request should be buffered at     *)
(* most": while a request is queued the timeout thread watches the oldest, *)
(* it does not wait for a first entry to arrive.                           *)
OldestIsWatched == \A s \in Shards : tt[s].pc = "empty" => queue[s] = << >>

(* buffer.go:298: Shutdown "guarantees that all launched Go routines are   *)
(* stopped after it returns".                                              *)
ShutdownIsComplete == shut = "returned" => NoGoroutines
=============================================================================
