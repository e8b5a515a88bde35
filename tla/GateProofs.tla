----------------------------- MODULE GateProofs ------------------------------
(***************************************************************************)
(* Proofs about the request buffer of vtgate, for any number of requests,  *)
(* shards, slots and reparents.  The inductive invariant has the types and *)
(* the phases of a shard, that an entry is in one place, and the account   *)
(* of the slots; each has a lemma with one step per action.                *)
(*                                                                         *)
(* Then about its sessions, for any plans of statements over the shards:   *)
(* what a client was told of its transactions is true, and they commit in  *)
(* order.                                                                  *)
(***************************************************************************)
EXTENDS ShardBuffer, Session, QueueLemmas, FiniteSetTheorems, TLAPS

(* The backends that are tried on a leaf, and the time they may take.      *)
USE ZenonT(20), SMTT(30)

(* The phases of a shard: what is there while it is idle, buffers and      *)
(* drains.  The drain thread unblocks entries only after the timeout       *)
(* thread has returned.                                                    *)
PhaseInv ==
  \A s \in Shards :
    /\ state[s] = "IDLE" => tt[s].pc = "none" /\ drain[s] = "none" /\ queue[s] = << >> /\ rest[s] = << >>
    /\ state[s] = "BUFFERING" => drain[s] = "none" /\ rest[s] = << >>
    /\ state[s] = "DRAINING" => drain[s] # "none" /\ queue[s] = << >>
    /\ drain[s] \in {"loop", "wait"} => tt[s].pc = "none"
    /\ drain[s] = "wait" => rest[s] # << >>

(* An entry is in one place at a time, and its channel is open while it is *)
(* queued or has still to be drained.                                      *)
EntryInv ==
  /\ \A s \in Shards : IsInjective(queue[s]) /\ IsInjective(rest[s])
  /\ \A s \in Shards : \A r \in Range(queue[s]) :
       at[r] = s /\ req[r] \in {"waiting", "removing"} /\ unblocked[r] = "no" /\ finisher[r] = "none"
  /\ \A s \in Shards : \A r \in Range(rest[s]) :
       /\ at[r] = s /\ req[r] \notin {"new", "checked"} /\ finisher[r] = "none"
       /\ drain[s] # "wait" \/ r # Head(rest[s]) => unblocked[r] = "no"
  /\ \A r \in Requests : req[r] \in {"new", "checked"} => finisher[r] = "none" /\ unblocked[r] = "no"

IInv == TypeOK /\ PhaseInv /\ EntryInv /\ SlotsAccounted
-----------------------------------------------------------------------------
(* TypeOK without the bound on the free slots, which rests on the account. *)
Types ==
  /\ at \in [Requests -> Shards] /\ detected \in [Requests -> BOOLEAN]
  /\ state \in [Shards -> {"IDLE", "BUFFERING", "DRAINING"}]
  /\ queue \in [Shards -> Seq(Requests)] /\ rest \in [Shards -> Seq(Requests)]
  /\ recent \in [Shards -> BOOLEAN]
  /\ reparented \in [Shards -> Nat] /\ master \in [Shards -> Tablets \cup {None}]
  /\ tt \in [Shards -> Threads]
  /\ drain \in [Shards -> {"none", "start", "stopping", "loop", "wait"}]
  /\ req \in [Requests -> {"new", "checked", "waiting", "removing", "retrying", "failed", "returned"}]
  /\ unblocked \in [Requests -> {"no", "nil", "evicted"}]
  /\ ctxDone \subseteq Requests
  /\ finisher \in [Requests -> {"none", "keep", "release"}]
  /\ shut \in {"up", "waiting", "returned"}

LEMMA TypeSplit == TypeOK <=> Types /\ free \in 0..Size
BY DEF TypeOK, Types

LEMMA ThreadType ==
  /\ \A p \in {"none", "look", "pick", "empty", "woken", "expire"} : Thread(p, None) \in Threads
  /\ \A p \in {"entry", "evict"}, e \in Requests \cup {None} : Thread(p, e) \in Threads
  /\ \A t \in Threads : t.e \in Requests \cup {None}
BY DEF Thread, Threads

(* Every step keeps the types. *)
LEMMA TypesStep ==
  ASSUME Types, PhaseInv, EntryInv, [Next]_vars
  PROVE  Types'
<1>. USE DEF reqVars, shardVars, Goto
<1>1. CASE UNCHANGED vars
  BY <1>1 DEF Types, vars
<1>2. ASSUME NEW r \in Requests, WaitForFailoverEnd(r)  PROVE Types'
  BY <1>2, ThreadType DEF Types, WaitForFailoverEnd
<1>3. ASSUME NEW r \in Requests, Skip(r)  PROVE Types'
  BY <1>3, ThreadType DEF Types, Skip
<1>4. ASSUME NEW r \in Requests, BufferDryRun(r)  PROVE Types'
  BY <1>4, ThreadType DEF Types, BufferDryRun, Buffering, ThreadAfter, Notified
<1>5. ASSUME NEW r \in Requests, BufferFull(r)  PROVE Types'
  BY <1>5, ThreadType DEF Types, BufferFull, Buffering, ThreadAfter, Notified
<1>6. ASSUME NEW r \in Requests, BufferEvict(r)  PROVE Types'
  <2>1. queue[at[r]] \in Seq(Requests) /\ queue[at[r]] # << >>
    BY <1>6 DEF Types, BufferEvict
  <2>2. Head(queue[at[r]]) \in Requests /\ Append(Tail(queue[at[r]]), r) \in Seq(Requests)
    BY <2>1, EndsType, SMT
  <2>. QED  BY <1>6, <2>2, ThreadType DEF Types, BufferEvict, Buffering, ThreadAfter, Notified, Unblock
<1>7. ASSUME NEW r \in Requests, BufferAcquire(r)  PROVE Types'
  BY <1>7, ThreadType, SMT DEF Types, BufferAcquire, Buffering, ThreadAfter, Notified
<1>8. ASSUME NEW r \in Requests, WaitDone(r)  PROVE Types'
  BY <1>8, ThreadType DEF Types, WaitDone
<1>9. ASSUME NEW r \in Requests, WaitCancelled(r)  PROVE Types'
  BY <1>9, ThreadType DEF Types, WaitCancelled
<1>10. ASSUME NEW r \in Requests, RemoveEntry(r)  PROVE Types'
  <2>1. \A i \in 1..Len(queue[at[r]]) : Without(queue[at[r]], i) \in Seq(Requests)
    BY WithoutFacts DEF Types, EntryInv
  <2>2. queue' \in [Shards -> Seq(Requests)]
    <3>1. CASE queue' = queue
      BY <3>1 DEF Types
    <3>2. ASSUME NEW i \in 1..Len(queue[at[r]]), queue' = [queue EXCEPT ![at[r]] = Without(@, i)]
          PROVE  queue' \in [Shards -> Seq(Requests)]
      <4>1. Without(queue[at[r]], i) \in Seq(Requests)
        BY <2>1
      <4>. QED  BY <3>2, <4>1 DEF Types
    <3>. QED  BY <1>10, <3>1, <3>2 DEF RemoveEntry
  <2>3. unblocked' \in [Requests -> {"no", "nil", "evicted"}] /\ finisher' \in [Requests -> {"none", "keep", "release"}]
    BY <1>10 DEF Types, RemoveEntry, Unblock
  <2>4. req' \in [Requests -> {"new", "checked", "waiting", "removing", "retrying", "failed", "returned"}] /\ ctxDone' \subseteq Requests
    BY <1>10 DEF Types, RemoveEntry
  <2>. QED  BY <1>10, <2>2, <2>3, <2>4 DEF Types, RemoveEntry
<1>11. ASSUME NEW r \in Requests, RetryDone(r)  PROVE Types'
  BY <1>11, ThreadType DEF Types, RetryDone
<1>12. ASSUME NEW r \in Requests, RequestFinish(r)  PROVE Types'
  BY <1>12, ThreadType DEF Types, RequestFinish
<1>13. ASSUME NEW r \in Requests, Cancel(r)  PROVE Types'
  BY <1>13, ThreadType DEF Types, Cancel
<1>14. ASSUME NEW s \in Shards, DrainStop(s)  PROVE Types'
  BY <1>14, ThreadType DEF Types, DrainStop
<1>15. ASSUME NEW s \in Shards, DrainStopped(s)  PROVE Types'
  BY <1>15, ThreadType DEF Types, DrainStopped
<1>16. ASSUME NEW s \in Shards, DrainUnblock(s)  PROVE Types'
  BY <1>16, ThreadType DEF Types, DrainUnblock
<1>17. ASSUME NEW s \in Shards, DrainNext(s)  PROVE Types'
  <2>1. rest[s] \in Seq(Requests) /\ rest[s] # << >>
    BY <1>17 DEF Types, PhaseInv, DrainNext
  <2>2. Tail(rest[s]) \in Seq(Requests)
    BY <2>1, EndsType
  <2>. QED  BY <1>17, <2>2 DEF Types, DrainNext
<1>18. ASSUME NEW s \in Shards, DrainDone(s)  PROVE Types'
  BY <1>18, ThreadType DEF Types, DrainDone
<1>19. ASSUME NEW s \in Shards, ThreadLook(s)  PROVE Types'
  BY <1>19, ThreadType, SMT DEF Types, ThreadLook
<1>20. ASSUME NEW s \in Shards, ThreadPick(s)  PROVE Types'
  BY <1>20, ThreadType DEF Types, ThreadPick
<1>21. ASSUME NEW s \in Shards, ThreadNext(s)  PROVE Types'
  BY <1>21, ThreadType DEF Types, ThreadNext
<1>22. ASSUME NEW s \in Shards, WindowExceeded(s)  PROVE Types'
  BY <1>22, ThreadType DEF Types, WindowExceeded
<1>23. ASSUME NEW s \in Shards, EvictOldest(s)  PROVE Types'
  <2>1. queue[s] # << >> => Head(queue[s]) \in Requests /\ Tail(queue[s]) \in Seq(Requests)
    BY EndsType DEF Types
  <2>2. queue' \in [Shards -> Seq(Requests)]
    BY <1>23, <2>1 DEF Types, EvictOldest
  <2>3. unblocked' \in [Requests -> {"no", "nil", "evicted"}] /\ finisher' \in [Requests -> {"none", "keep", "release"}]
    BY <1>23, <2>1 DEF Types, EvictOldest, Unblock
  <2>4. tt' \in [Shards -> Threads]
    BY <1>23, ThreadType DEF Types, EvictOldest
  <2>. QED  BY <1>23, <2>2, <2>3, <2>4 DEF Types, EvictOldest
<1>24. ASSUME NEW s \in Shards, StopDueToMaxDuration(s)  PROVE Types'
  BY <1>24, ThreadType, SMT DEF Types, StopDueToMaxDuration, StopBuffering, StoppedRecently
<1>25. ASSUME NEW s \in Shards, ThreadStop(s)  PROVE Types'
  BY <1>25, ThreadType DEF Types, ThreadStop
<1>26. ASSUME NEW s \in Shards, MaxDurationUp(s)  PROVE Types'
  BY <1>26, ThreadType DEF Types, MaxDurationUp
<1>27. ASSUME NEW s \in Shards, Elapse(s)  PROVE Types'
  BY <1>27, ThreadType DEF Types, Elapse
<1>28. ASSUME NEW s \in Shards, NEW ts \in 1..MaxTimestamp, NEW alias \in Tablets, RecordReparented(s, ts, alias)
      PROVE  Types'
  BY <1>28, SMT DEF Types, RecordReparented, StopBuffering, StoppedRecently
<1>29. CASE Shutdown
  BY <1>29, SMT DEF Types, Shutdown, StopBuffering, StoppedRecently
<1>30. CASE ShutdownReturn
  BY <1>30 DEF Types, ShutdownReturn
<1>31. ASSUME NEW r \in Requests, Request(r) \/ Cancel(r)  PROVE Types'
  BY <1>31, <1>2, <1>3, <1>4, <1>5, <1>6, <1>7, <1>8, <1>9, <1>10, <1>11, <1>12, <1>13 DEF Request
<1>32. ASSUME NEW s \in Shards, Drain(s) \/ TimeoutThread(s) \/ MaxDurationUp(s) \/ Elapse(s)  PROVE Types'
  BY <1>32, <1>14, <1>15, <1>16, <1>17, <1>18, <1>19, <1>20, <1>21, <1>22, <1>23, <1>24, <1>25, <1>26, <1>27 DEF Drain, TimeoutThread
<1>. QED  BY <1>1, <1>28, <1>29, <1>30, <1>31, <1>32 DEF Next
-----------------------------------------------------------------------------
(* A request that is buffered finds its shard idle or buffering. *)
LEMMA BufferingPhase ==
  ASSUME Types, PhaseInv, NEW r \in Requests, MayBuffer(r), NEW q, Buffering(at[r], q)
  PROVE  PhaseInv'
<1>1. at[r] \in Shards /\ state[at[r]] \in {"IDLE", "BUFFERING"}
  BY DEF Types, MayBuffer, ShouldBuffer
<1>2. drain[at[r]] = "none" /\ rest[at[r]] = << >>
  BY <1>1 DEF PhaseInv
<1>3. \A s \in Shards : s # at[r] => state'[s] = state[s] /\ queue'[s] = queue[s] /\ tt'[s] = tt[s]
  BY DEF Types, Buffering
<1>4. state'[at[r]] = "BUFFERING" /\ drain' = drain /\ rest' = rest
  BY <1>1 DEF Types, Buffering
<1>. QED  BY <1>2, <1>3, <1>4 DEF PhaseInv

(* Only a buffering shard has a queue, and losing an entry of it changes   *)
(* no phase.                                                               *)
LEMMA QueuePhase ==
  ASSUME Types, PhaseInv, NEW s \in Shards, queue[s] # << >>, NEW q,
         queue' = [queue EXCEPT ![s] = q], UNCHANGED <<state, drain, rest>>,
         \A u \in Shards : u # s => tt'[u] = tt[u]
  PROVE  PhaseInv'
<1>1. state[s] = "BUFFERING" /\ drain[s] = "none" /\ rest[s] = << >>
  BY DEF Types, PhaseInv
<1>2. \A u \in Shards : u # s => queue'[u] = queue[u]
  BY DEF Types
<1>. QED  BY <1>1, <1>2 DEF PhaseInv

(* Every step keeps the phases. *)
LEMMA PhaseStep ==
  ASSUME Types, PhaseInv, [Next]_vars
  PROVE  PhaseInv'
<1>. USE DEF reqVars, shardVars
<1>1. CASE UNCHANGED vars
  BY <1>1 DEF PhaseInv, vars
<1>2. ASSUME NEW r \in Requests, WaitForFailoverEnd(r)  PROVE PhaseInv'
  BY <1>2 DEF Types, PhaseInv, WaitForFailoverEnd
<1>3. ASSUME NEW r \in Requests, Skip(r)  PROVE PhaseInv'
  BY <1>3 DEF Types, PhaseInv, Skip
<1>4. ASSUME NEW r \in Requests, BufferDryRun(r)  PROVE PhaseInv'
  BY <1>4, BufferingPhase DEF BufferDryRun
<1>5. ASSUME NEW r \in Requests, BufferFull(r)  PROVE PhaseInv'
  BY <1>5, BufferingPhase DEF BufferFull
<1>6. ASSUME NEW r \in Requests, BufferEvict(r)  PROVE PhaseInv'
  BY <1>6, BufferingPhase DEF BufferEvict
<1>7. ASSUME NEW r \in Requests, BufferAcquire(r)  PROVE PhaseInv'
  BY <1>7, BufferingPhase DEF BufferAcquire
<1>8. ASSUME NEW r \in Requests, WaitDone(r)  PROVE PhaseInv'
  BY <1>8 DEF Types, PhaseInv, WaitDone
<1>9. ASSUME NEW r \in Requests, WaitCancelled(r)  PROVE PhaseInv'
  BY <1>9 DEF Types, PhaseInv, WaitCancelled
<1>10. ASSUME NEW r \in Requests, RemoveEntry(r)  PROVE PhaseInv'
  <2>1. CASE queue' = queue
    BY <1>10, <2>1 DEF PhaseInv, RemoveEntry
  <2>2. CASE queue' # queue
    <3>1. PICK i \in 1..Len(queue[at[r]]) : queue' = [queue EXCEPT ![at[r]] = Without(@, i)]
      BY <1>10, <2>2 DEF RemoveEntry
    <3>2. at[r] \in Shards /\ queue[at[r]] # << >>
      BY <3>1, SMT DEF Types
    <3>. QED  BY <1>10, <3>1, <3>2, QueuePhase DEF RemoveEntry
  <2>. QED  BY <2>1, <2>2
<1>11. ASSUME NEW r \in Requests, RetryDone(r)  PROVE PhaseInv'
  BY <1>11 DEF Types, PhaseInv, RetryDone
<1>12. ASSUME NEW r \in Requests, RequestFinish(r)  PROVE PhaseInv'
  BY <1>12 DEF Types, PhaseInv, RequestFinish
<1>13. ASSUME NEW r \in Requests, Cancel(r)  PROVE PhaseInv'
  BY <1>13 DEF Types, PhaseInv, Cancel
<1>14. ASSUME NEW s \in Shards, DrainStop(s)  PROVE PhaseInv'
  BY <1>14 DEF Types, PhaseInv, DrainStop
<1>15. ASSUME NEW s \in Shards, DrainStopped(s)  PROVE PhaseInv'
  BY <1>15 DEF Types, PhaseInv, DrainStopped
<1>16. ASSUME NEW s \in Shards, DrainUnblock(s)  PROVE PhaseInv'
  <2>1. /\ rest[s] # << >> /\ drain[s] = "loop" /\ drain'[s] = "wait" /\ UNCHANGED <<state, tt, queue, rest>>
        /\ \A u \in Shards : u # s => drain'[u] = drain[u]
    BY <1>16 DEF Types, DrainUnblock
  <2>. QED  BY <2>1 DEF PhaseInv
<1>17. ASSUME NEW s \in Shards, DrainNext(s)  PROVE PhaseInv'
  <2>1. \A u \in Shards : u # s => rest'[u] = rest[u] /\ drain'[u] = drain[u]
    BY <1>17 DEF Types, DrainNext
  <2>2. drain'[s] = "loop" /\ state[s] = "DRAINING"
    BY <1>17 DEF Types, PhaseInv, DrainNext
  <2>. QED  BY <1>17, <2>1, <2>2 DEF PhaseInv, DrainNext
<1>18. ASSUME NEW s \in Shards, DrainDone(s)  PROVE PhaseInv'
  BY <1>18 DEF Types, PhaseInv, DrainDone
<1>19. ASSUME NEW s \in Shards, ThreadLook(s)  PROVE PhaseInv'
  BY <1>19 DEF Types, PhaseInv, ThreadLook, Thread
<1>20. ASSUME NEW s \in Shards, ThreadPick(s)  PROVE PhaseInv'
  BY <1>20 DEF Types, PhaseInv, ThreadPick, Thread
<1>21. ASSUME NEW s \in Shards, ThreadNext(s)  PROVE PhaseInv'
  BY <1>21 DEF Types, PhaseInv, ThreadNext, Thread
<1>22. ASSUME NEW s \in Shards, WindowExceeded(s)  PROVE PhaseInv'
  BY <1>22 DEF Types, PhaseInv, WindowExceeded, Thread
<1>23. ASSUME NEW s \in Shards, EvictOldest(s)  PROVE PhaseInv'
  <2>1. CASE queue' = queue
    BY <1>23, <2>1 DEF Types, PhaseInv, EvictOldest, Thread
  <2>2. CASE queue' # queue
    <3>1. queue[s] # << >> /\ queue' = [queue EXCEPT ![s] = Tail(@)]
      BY <1>23, <2>2 DEF EvictOldest
    <3>2. \A u \in Shards : u # s => tt'[u] = tt[u]
      BY <1>23 DEF Types, EvictOldest
    <3>. QED  BY <1>23, <3>1, <3>2, QueuePhase DEF EvictOldest
  <2>. QED  BY <2>1, <2>2
<1>24. ASSUME NEW s \in Shards, StopDueToMaxDuration(s)  PROVE PhaseInv'
  BY <1>24 DEF Types, PhaseInv, StopDueToMaxDuration, StopBuffering, Thread
<1>25. ASSUME NEW s \in Shards, ThreadStop(s)  PROVE PhaseInv'
  BY <1>25 DEF Types, PhaseInv, ThreadStop, Thread, Waits
<1>26. ASSUME NEW s \in Shards, MaxDurationUp(s)  PROVE PhaseInv'
  BY <1>26 DEF Types, PhaseInv, MaxDurationUp, Thread, Waits
<1>27. ASSUME NEW s \in Shards, Elapse(s)  PROVE PhaseInv'
  BY <1>27 DEF Types, PhaseInv, Elapse
<1>28. ASSUME NEW s \in Shards, NEW ts \in 1..MaxTimestamp, NEW alias \in Tablets, RecordReparented(s, ts, alias)
      PROVE  PhaseInv'
  BY <1>28 DEF Types, PhaseInv, RecordReparented, StopBuffering
<1>29. CASE Shutdown
  BY <1>29 DEF Types, PhaseInv, Shutdown, StopBuffering
<1>30. CASE ShutdownReturn
  BY <1>30 DEF Types, PhaseInv, ShutdownReturn
<1>31. ASSUME NEW r \in Requests, Request(r) \/ Cancel(r)  PROVE PhaseInv'
  BY <1>31, <1>2, <1>3, <1>4, <1>5, <1>6, <1>7, <1>8, <1>9, <1>10, <1>11, <1>12, <1>13 DEF Request
<1>32. ASSUME NEW s \in Shards, Drain(s) \/ TimeoutThread(s) \/ MaxDurationUp(s) \/ Elapse(s)  PROVE PhaseInv'
  BY <1>32, <1>14, <1>15, <1>16, <1>17, <1>18, <1>19, <1>20, <1>21, <1>22, <1>23, <1>24, <1>25, <1>26, <1>27 DEF Drain, TimeoutThread
<1>. QED  BY <1>1, <1>28, <1>29, <1>30, <1>31, <1>32 DEF Next
-----------------------------------------------------------------------------
(* The entries that hold a slot. *)
Held == Queued \cup Draining \cup {r \in Requests : finisher[r] = "release"}

LEMMA HeldFacts ==
  ASSUME Types
  PROVE  /\ Held \subseteq Requests
         /\ \A x : x \in Held <=> \/ \E s \in Shards : x \in Range(queue[s]) \/ x \in Range(rest[s])
                                  \/ x \in Requests /\ finisher[x] = "release"
<1>1. \A s \in Shards : Range(queue[s]) \subseteq Requests /\ Range(rest[s]) \subseteq Requests
  BY SMT DEF Types, Range
<1>2. \A x : x \in Queued <=> \E s \in Shards : x \in Range(queue[s])
  BY DEF Queued
<1>3. \A x : x \in Draining <=> \E s \in Shards : x \in Range(rest[s])
  BY DEF Draining
<1>4. Held \subseteq Requests
  BY <1>1, <1>2, <1>3 DEF Held
<1>5. \A x : x \in Held <=> x \in Queued \/ x \in Draining \/ (x \in Requests /\ finisher[x] = "release")
  BY DEF Held
<1>. QED  BY <1>2, <1>3, <1>4, <1>5

(* The same of the next state. *)
LEMMA HeldFactsNext ==
  \A x : x \in Held' <=> \/ \E s \in Shards : x \in Range(queue'[s]) \/ x \in Range(rest'[s])
                         \/ x \in Requests /\ finisher'[x] = "release"
<1>1. \A x : x \in Queued' <=> \E s \in Shards : x \in Range(queue'[s])
  BY DEF Queued
<1>2. \A x : x \in Draining' <=> \E s \in Shards : x \in Range(rest'[s])
  BY DEF Draining
<1>3. \A x : x \in Held' <=> x \in Queued' \/ x \in Draining' \/ (x \in Requests /\ finisher'[x] = "release")
  BY DEF Held
<1>. QED  BY <1>1, <1>2, <1>3

(* How a step changes the free slots, and which entries hold the others. *)
SlotChange ==
  \/ Held' = Held /\ free' = free
  \/ \E r \in Requests \ Held : Held' = Held \cup {r} /\ free > 0 /\ free' = free - 1
  \/ \E r \in Held : Held' = Held \ {r} /\ free' = free + 1
  \/ \E e \in Held, r \in Requests \ Held : Held' = (Held \ {e}) \cup {r} /\ free' = free

(* Most steps leave the queues, the entries and the slots alone. *)
LEMMA EntrySame ==
  ASSUME Types, Types', EntryInv, free \in 0..Size,
         UNCHANGED <<at, queue, rest, unblocked, finisher, free>>,
         \A r \in Requests : req'[r] \in {"new", "checked"} => req[r] \in {"new", "checked"},
         \A s \in Shards : \A r \in Range(queue[s]) : req'[r] \in {"waiting", "removing"},
         \A s \in Shards : drain'[s] = "wait" <=> drain[s] = "wait"
  PROVE  EntryInv' /\ SlotChange
<1>1. \A s \in Shards : Range(queue[s]) \subseteq Requests /\ Range(rest[s]) \subseteq Requests
  <2>1. queue \in [Shards -> Seq(Requests)] /\ rest \in [Shards -> Seq(Requests)]
    BY DEF Types
  <2>. QED  BY <2>1, SMT DEF Range
<1>2. EntryInv'
  BY <1>1, SMT DEF EntryInv
<1>3. Held' = Held
  BY HeldFacts, SMT DEF Held, Queued, Draining
<1>. QED  BY <1>2, <1>3 DEF SlotChange

(* The entries are requests, and no entry is in two places. *)
LEMMA Apart ==
  ASSUME Types, PhaseInv, EntryInv
  PROVE  /\ \A s \in Shards : Range(queue[s]) \subseteq Requests /\ Range(rest[s]) \subseteq Requests
         /\ \A s, u \in Shards, r \in Requests : ~(r \in Range(queue[s]) /\ r \in Range(rest[u]))
<1>1. \A s \in Shards : Range(queue[s]) \subseteq Requests /\ Range(rest[s]) \subseteq Requests
  BY SMT DEF Types, Range
<1>2. ASSUME NEW s \in Shards, NEW u \in Shards, NEW r \in Requests, r \in Range(queue[s]), r \in Range(rest[u])
      PROVE  FALSE
  <2>1. s = u
    BY <1>2, SMT DEF EntryInv
  <2>2. queue[s] # << >> /\ rest[s] # << >>
    BY <1>2, <2>1, SMT DEF Range
  <2>. QED  BY <2>2 DEF Types, PhaseInv
<1>. QED  BY <1>1, <1>2

(* An entry that leaves the queue, unblocked, keeps its slot until its     *)
(* request has finished.                                                   *)
LEMMA LeaveQueue ==
  ASSUME Types, Types', PhaseInv, EntryInv, free \in 0..Size,
         NEW s \in Shards, NEW e \in Range(queue[s]),
         NEW q, IsInjective(q), Range(q) = Range(queue[s]) \ {e},
         queue' = [queue EXCEPT ![s] = q], Unblock(e, "nil", TRUE),
         UNCHANGED <<at, rest, drain, free>>,
         \A x \in Requests : x # e => req'[x] = req[x],
         req'[e] \notin {"new", "checked"}
  PROVE  EntryInv' /\ SlotChange
<1>1. e \in Requests /\ at[e] = s
  BY Apart, SMT DEF EntryInv
<1>2. \A u \in Shards : e \notin Range(rest[u])
  BY <1>1, Apart
<1>3. /\ finisher'[e] = "release"
      /\ \A x \in Requests : x # e => unblocked'[x] = unblocked[x] /\ finisher'[x] = finisher[x]
  BY <1>1, SMT DEF Types, Unblock
<1>4. \A u \in Shards : u # s => queue'[u] = queue[u]
  BY DEF Types
<1>5. queue'[s] = q
  BY DEF Types
<1>6. \A u \in Shards : \A x \in Range(queue'[u]) : x \in Range(queue[u]) /\ x # e
  BY <1>1, <1>4, <1>5, SMT DEF EntryInv
<1>7. \A u \in Shards : \A x \in Range(rest[u]) : x \in Requests /\ x # e
  BY <1>2, Apart
<1>8. \A u \in Shards : \A x \in Range(queue[u]) : x \in Requests
  BY Apart
<1>9. EntryInv'
  <2>1. \A u \in Shards : IsInjective(queue'[u]) /\ IsInjective(rest'[u])
    BY <1>4, <1>5, SMT DEF EntryInv
  <2>2. ASSUME NEW u \in Shards, NEW x \in Range(queue'[u])
        PROVE  at'[x] = u /\ req'[x] \in {"waiting", "removing"} /\ unblocked'[x] = "no" /\ finisher'[x] = "none"
    BY <1>3, <1>6, <1>8, SMT DEF EntryInv
  <2>3. ASSUME NEW u \in Shards, NEW x \in Range(rest'[u])
        PROVE  /\ at'[x] = u /\ req'[x] \notin {"new", "checked"} /\ finisher'[x] = "none"
               /\ drain'[u] # "wait" \/ x # Head(rest'[u]) => unblocked'[x] = "no"
    BY <1>3, <1>7, SMT DEF EntryInv
  <2>4. \A x \in Requests : req'[x] \in {"new", "checked"} => finisher'[x] = "none" /\ unblocked'[x] = "no"
    BY <1>3, SMT DEF EntryInv
  <2>. QED  BY <2>1, <2>2, <2>3, <2>4 DEF EntryInv
<1>10. Held' = Held
  <2>1. ASSUME NEW x  PROVE x \in Held' <=> x \in Held
    <3>1. CASE x = e
      <4>1. e \in Held /\ e \in Held'
        BY <1>1, <1>3, HeldFacts, HeldFactsNext
      <4>. QED  BY <3>1, <4>1
    <3>2. CASE x # e
      <4>1. \A u \in Shards : x \in Range(queue'[u]) <=> x \in Range(queue[u])
        BY <1>4, <1>5, <3>2
      <4>2. x \in Requests => (finisher'[x] = "release" <=> finisher[x] = "release")
        BY <1>3, <3>2
      <4>. QED  BY <4>1, <4>2, HeldFacts, HeldFactsNext
    <3>. QED  BY <3>1, <3>2
  <2>. QED  BY <2>1
<1>. QED  BY <1>9, <1>10 DEF SlotChange

(* A new entry at the end of a queue, whose slot is a free one. *)
LEMMA AcquireEntry ==
  ASSUME Types, Types', PhaseInv, EntryInv, free \in 0..Size,
         NEW r \in Requests, BufferAcquire(r)
  PROVE  EntryInv' /\ SlotChange
<1>t. /\ at \in [Requests -> Shards] /\ queue \in [Shards -> Seq(Requests)]
      /\ req \in [Requests -> {"new", "checked", "waiting", "removing", "retrying", "failed", "returned"}]
  BY DEF Types
<1>. DEFINE s == at[r]
            q == Append(queue[s], r)
<1>1. /\ s \in Shards /\ req[r] = "checked" /\ free > 0 /\ free' = free - 1
      /\ UNCHANGED <<at, rest, drain, unblocked, finisher>>
      /\ queue' = [queue EXCEPT ![s] = q] /\ req' = [req EXCEPT ![r] = "waiting"]
  BY <1>t DEF BufferAcquire, Buffering, Goto
<1>2. \A u \in Shards : r \notin Range(queue[u]) /\ r \notin Range(rest[u])
  BY <1>1, SMT DEF EntryInv
<1>3. finisher[r] = "none" /\ unblocked[r] = "no"
  BY <1>1 DEF EntryInv
<1>4. IsInjective(q) /\ Range(q) = Range(queue[s]) \cup {r}
  <2>1. queue[s] \in Seq(Requests) /\ IsInjective(queue[s])
    BY <1>1, <1>t DEF EntryInv
  <2>. QED  BY <1>1, <1>2, <2>1, AppendFacts, SMT
<1>5. queue'[s] = q /\ \A u \in Shards : u # s => queue'[u] = queue[u]
  BY <1>1, <1>t
<1>6. req'[r] = "waiting" /\ \A x \in Requests : x # r => req'[x] = req[x]
  BY <1>1, <1>t
<1>7. \A u \in Shards : \A x \in Range(queue'[u]) :
        x \in Requests /\ ((x = r /\ u = s) \/ (x # r /\ x \in Range(queue[u])))
  BY <1>1, <1>2, <1>4, <1>5, Apart
<1>8. \A u \in Shards : \A x \in Range(rest[u]) : x \in Requests /\ x # r
  BY <1>2, Apart
<1>. HIDE DEF q
<1>9. EntryInv'
  <2>1. \A u \in Shards : IsInjective(queue'[u]) /\ IsInjective(rest'[u])
    BY <1>1, <1>4, <1>5, SMT DEF EntryInv
  <2>2. ASSUME NEW u \in Shards, NEW x \in Range(queue'[u])
        PROVE  at'[x] = u /\ req'[x] \in {"waiting", "removing"} /\ unblocked'[x] = "no" /\ finisher'[x] = "none"
    BY <1>1, <1>3, <1>6, <1>7, SMT DEF EntryInv
  <2>3. ASSUME NEW u \in Shards, NEW x \in Range(rest'[u])
        PROVE  /\ at'[x] = u /\ req'[x] \notin {"new", "checked"} /\ finisher'[x] = "none"
               /\ drain'[u] # "wait" \/ x # Head(rest'[u]) => unblocked'[x] = "no"
    BY <1>1, <1>6, <1>8, SMT DEF EntryInv
  <2>4. \A x \in Requests : req'[x] \in {"new", "checked"} => finisher'[x] = "none" /\ unblocked'[x] = "no"
    BY <1>1, <1>6 DEF EntryInv
  <2>. QED  BY <2>1, <2>2, <2>3, <2>4 DEF EntryInv
<1>10. r \notin Held
  BY <1>2, <1>3, HeldFacts
<1>11. Held' = Held \cup {r}
  <2>1. ASSUME NEW x  PROVE x \in Held' <=> x \in Held \/ x = r
    <3>1. CASE x = r
      BY <1>1, <1>4, <1>5, <3>1, HeldFactsNext
    <3>2. CASE x # r
      <4>1. \A u \in Shards : x \in Range(queue'[u]) <=> x \in Range(queue[u])
        BY <1>4, <1>5, <3>2
      <4>. QED  BY <1>1, <3>2, <4>1, HeldFacts, HeldFactsNext
    <3>. QED  BY <3>1, <3>2
  <2>. QED  BY <2>1
<1>. QED  BY <1>1, <1>9, <1>10, <1>11 DEF SlotChange

(* A new entry that takes over the slot of the oldest one of its shard. *)
LEMMA EvictEntry ==
  ASSUME Types, Types', PhaseInv, EntryInv, free \in 0..Size,
         NEW r \in Requests, BufferEvict(r)
  PROVE  EntryInv' /\ SlotChange
<1>t. /\ at \in [Requests -> Shards] /\ queue \in [Shards -> Seq(Requests)]
      /\ req \in [Requests -> {"new", "checked", "waiting", "removing", "retrying", "failed", "returned"}]
      /\ unblocked \in [Requests -> {"no", "nil", "evicted"}]
      /\ finisher \in [Requests -> {"none", "keep", "release"}]
  BY DEF Types
<1>. DEFINE s == at[r]
            e == Head(queue[s])
            t == Tail(queue[s])
            q == Append(t, r)
<1>1. /\ s \in Shards /\ req[r] = "checked" /\ free' = free /\ queue[s] # << >>
      /\ UNCHANGED <<at, rest, drain>>
      /\ queue' = [queue EXCEPT ![s] = q] /\ req' = [req EXCEPT ![r] = "waiting"]
      /\ unblocked' = [unblocked EXCEPT ![e] = "evicted"] /\ finisher' = [finisher EXCEPT ![e] = "keep"]
  BY <1>t DEF BufferEvict, Buffering, Goto, Unblock
<1>2. \A u \in Shards : r \notin Range(queue[u]) /\ r \notin Range(rest[u])
  BY <1>1, SMT DEF EntryInv
<1>3. finisher[r] = "none" /\ unblocked[r] = "no"
  BY <1>1 DEF EntryInv
<1>4. /\ e \in Requests /\ e \in Range(queue[s])
      /\ t \in Seq(Requests) /\ IsInjective(t) /\ Range(t) = Range(queue[s]) \ {e}
  <2>1. queue[s] \in Seq(Requests) /\ IsInjective(queue[s])
    BY <1>1, <1>t DEF EntryInv
  <2>. QED  BY <1>1, <2>1, TailFacts
<1>5. IsInjective(q) /\ Range(q) = (Range(queue[s]) \ {e}) \cup {r}
  <2>. HIDE DEF t
  <2>1. r \notin Range(t)
    BY <1>1, <1>2, <1>4
  <2>. QED  BY <1>4, <2>1, AppendFacts, SMT
<1>6. queue'[s] = q /\ \A u \in Shards : u # s => queue'[u] = queue[u]
  BY <1>1, <1>t
<1>. HIDE DEF q, e
<1>7. req'[r] = "waiting" /\ \A x \in Requests : x # r => req'[x] = req[x]
  BY <1>1, <1>t
<1>8. /\ finisher'[e] = "keep"
      /\ \A x \in Requests : x # e => unblocked'[x] = unblocked[x] /\ finisher'[x] = finisher[x]
  BY <1>1, <1>4, <1>t
<1>9. e # r /\ at[e] = s /\ \A u \in Shards : u # s => e \notin Range(queue[u])
  BY <1>1, <1>2, <1>4, SMT DEF EntryInv
<1>10. \A u \in Shards : \A x \in Range(queue'[u]) :
         x \in Requests /\ x # e /\ ((x = r /\ u = s) \/ (x # r /\ x \in Range(queue[u])))
  BY <1>1, <1>2, <1>5, <1>6, <1>9, Apart, SMT
<1>11. \A u \in Shards : \A x \in Range(rest[u]) : x \in Requests /\ x # r /\ x # e
  BY <1>1, <1>2, <1>4, Apart
<1>12. EntryInv'
  <2>1. \A u \in Shards : IsInjective(queue'[u]) /\ IsInjective(rest'[u])
    BY <1>1, <1>5, <1>6, SMT DEF EntryInv
  <2>2. ASSUME NEW u \in Shards, NEW x \in Range(queue'[u])
        PROVE  at'[x] = u /\ req'[x] \in {"waiting", "removing"} /\ unblocked'[x] = "no" /\ finisher'[x] = "none"
    BY <1>1, <1>3, <1>7, <1>8, <1>10, SMT DEF EntryInv
  <2>3. ASSUME NEW u \in Shards, NEW x \in Range(rest'[u])
        PROVE  /\ at'[x] = u /\ req'[x] \notin {"new", "checked"} /\ finisher'[x] = "none"
               /\ drain'[u] # "wait" \/ x # Head(rest'[u]) => unblocked'[x] = "no"
    BY <1>1, <1>7, <1>8, <1>11, SMT DEF EntryInv
  <2>4. req[e] \in {"waiting", "removing"}
    BY <1>1, <1>4 DEF EntryInv
  <2>5. \A x \in Requests : req'[x] \in {"new", "checked"} => finisher'[x] = "none" /\ unblocked'[x] = "no"
    BY <1>7, <1>8, <1>9, <2>4, SMT DEF EntryInv
  <2>. QED  BY <2>1, <2>2, <2>3, <2>5 DEF EntryInv
<1>13. r \notin Held /\ e \in Held
  BY <1>1, <1>2, <1>3, <1>4, HeldFacts
<1>14. Held' = (Held \ {e}) \cup {r}
  <2>1. ASSUME NEW x  PROVE x \in Held' <=> (x \in Held /\ x # e) \/ x = r
    <3>1. CASE x = r
      BY <1>1, <1>5, <1>6, <3>1, HeldFactsNext
    <3>2. CASE x = e
      <4>1. \A u \in Shards : e \notin Range(queue'[u]) /\ e \notin Range(rest'[u])
        BY <1>1, <1>10, <1>11
      <4>. QED  BY <1>8, <1>9, <3>2, <4>1, HeldFactsNext
    <3>3. CASE x # r /\ x # e
      <4>1. \A u \in Shards : x \in Range(queue'[u]) <=> x \in Range(queue[u])
        BY <1>5, <1>6, <3>3
      <4>2. x \in Requests => finisher'[x] = finisher[x]
        BY <1>8, <3>3
      <4>. QED  BY <1>1, <3>3, <4>1, <4>2, HeldFacts, HeldFactsNext
    <3>. QED  BY <3>1, <3>2, <3>3
  <2>. QED  BY <2>1
<1>. QED  BY <1>1, <1>12, <1>13, <1>14 DEF SlotChange

(* A request that has finished gives its slot back. *)
LEMMA FinishEntry ==
  ASSUME Types, Types', PhaseInv, EntryInv, free \in 0..Size,
         NEW r \in Requests, RequestFinish(r)
  PROVE  EntryInv' /\ SlotChange
<1>1. /\ finisher[r] # "none" /\ free' = IF finisher[r] = "release" THEN free + 1 ELSE free
      /\ UNCHANGED <<at, req, unblocked, queue, rest, drain>>
      /\ finisher'[r] = "none" /\ \A x \in Requests : x # r => finisher'[x] = finisher[x]
  <2>1. finisher \in [Requests -> {"none", "keep", "release"}]
    BY DEF Types
  <2>. QED  BY <2>1 DEF RequestFinish, shardVars
<1>2. \A u \in Shards : r \notin Range(queue[u]) /\ r \notin Range(rest[u])
  BY <1>1 DEF EntryInv
<1>3. EntryInv'
  BY <1>1, <1>2, Apart, SMT DEF EntryInv
<1>4. ASSUME NEW x  PROVE x \in Held' <=> x \in Held /\ x # r
  <2>1. CASE x = r
    BY <1>1, <1>2, <2>1, HeldFactsNext
  <2>2. CASE x # r
    <3>1. x \in Requests => finisher'[x] = finisher[x]
      BY <1>1, <2>2
    <3>. QED  BY <1>1, <2>2, <3>1, HeldFacts, HeldFactsNext
  <2>. QED  BY <2>1, <2>2
<1>5. Held' = Held \ {r}
  BY <1>4
<1>6. CASE finisher[r] = "release"
  <2>1. r \in Held
    BY <1>6, HeldFacts
  <2>. QED  BY <1>1, <1>3, <1>5, <1>6, <2>1 DEF SlotChange
<1>7. CASE finisher[r] # "release"
  <2>1. r \notin Held
    BY <1>2, <1>7, HeldFacts
  <2>2. Held' = Held
    BY <1>5, <2>1
  <2>. QED  BY <1>1, <1>3, <1>7, <2>2 DEF SlotChange
<1>. QED  BY <1>6, <1>7

(* The drain thread unblocks the head of its list. *)
LEMMA UnblockEntry ==
  ASSUME Types, Types', PhaseInv, EntryInv, free \in 0..Size,
         NEW s \in Shards, DrainUnblock(s)
  PROVE  EntryInv' /\ SlotChange
<1>. DEFINE e == Head(rest[s])
<1>1. /\ UNCHANGED <<at, req, finisher, queue, rest, free>> /\ rest[s] # << >>
      /\ drain'[s] = "wait" /\ \A u \in Shards : u # s => drain'[u] = drain[u]
      /\ unblocked' = [unblocked EXCEPT ![e] = "nil"] /\ drain[s] = "loop"
  <2>1. drain \in [Shards -> {"none", "start", "stopping", "loop", "wait"}]
    BY DEF Types
  <2>. QED  BY <2>1 DEF DrainUnblock
<1>2. e \in Requests /\ e \in Range(rest[s])
  <2>1. rest[s] \in Seq(Requests) /\ IsInjective(rest[s])
    BY DEF Types, EntryInv
  <2>. QED  BY <1>1, <2>1, TailFacts
<1>3. at[e] = s /\ req[e] \notin {"new", "checked"} /\ \A u \in Shards : e \notin Range(queue[u])
  BY <1>2, Apart DEF EntryInv
<1>. HIDE DEF e
<1>4. \A x \in Requests : x # e => unblocked'[x] = unblocked[x]
  <2>1. unblocked \in [Requests -> {"no", "nil", "evicted"}]
    BY DEF Types
  <2>. QED  BY <1>1, <2>1
<1>5. EntryInv'
  <2>1. \A u \in Shards : IsInjective(queue'[u]) /\ IsInjective(rest'[u])
    BY <1>1 DEF EntryInv
  <2>2. ASSUME NEW u \in Shards, NEW x \in Range(queue'[u])
        PROVE  at'[x] = u /\ req'[x] \in {"waiting", "removing"} /\ unblocked'[x] = "no" /\ finisher'[x] = "none"
    BY <1>1, <1>3, <1>4, Apart, SMT DEF EntryInv
  <2>3. ASSUME NEW u \in Shards, NEW x \in Range(rest'[u])
        PROVE  /\ at'[x] = u /\ req'[x] \notin {"new", "checked"} /\ finisher'[x] = "none"
               /\ drain'[u] # "wait" \/ x # Head(rest'[u]) => unblocked'[x] = "no"
    <3>1. x \in Requests /\ x \in Range(rest[u]) /\ at[x] = u
      BY <1>1, Apart, SMT DEF EntryInv
    <3>2. CASE x = e
      <4>1. u = s
        BY <1>3, <3>1, <3>2
      <4>. QED  BY <1>1, <3>1, <3>2, <4>1 DEF EntryInv, e
    <3>3. CASE x # e
      <4>1. u = s \/ drain'[u] = drain[u]
        BY <1>1
      <4>. QED  BY <1>1, <1>4, <3>1, <3>3, <4>1, SMT DEF EntryInv
    <3>. QED  BY <3>2, <3>3
  <2>4. \A x \in Requests : req'[x] \in {"new", "checked"} => finisher'[x] = "none" /\ unblocked'[x] = "no"
    BY <1>1, <1>3, <1>4, SMT DEF EntryInv
  <2>. QED  BY <2>1, <2>2, <2>3, <2>4 DEF EntryInv
<1>6. Held' = Held
  BY <1>1 DEF Held, Queued, Draining
<1>. QED  BY <1>1, <1>5, <1>6 DEF SlotChange

(* The head of the list is done and its slot is free again. *)
LEMMA DrainEntry ==
  ASSUME Types, Types', PhaseInv, EntryInv, free \in 0..Size,
         NEW s \in Shards, DrainNext(s)
  PROVE  EntryInv' /\ SlotChange
<1>. DEFINE e == Head(rest[s])
            q == Tail(rest[s])
<1>1. /\ UNCHANGED <<at, req, finisher, queue, unblocked>> /\ rest[s] # << >> /\ free' = free + 1
      /\ drain'[s] = "loop" /\ \A u \in Shards : u # s => drain'[u] = drain[u]
      /\ rest'[s] = q /\ \A u \in Shards : u # s => rest'[u] = rest[u]
  <2>1. /\ drain \in [Shards -> {"none", "start", "stopping", "loop", "wait"}]
        /\ rest \in [Shards -> Seq(Requests)]
    BY DEF Types
  <2>. QED  BY <2>1 DEF PhaseInv, DrainNext, reqVars
<1>2. e \in Requests /\ e \in Range(rest[s]) /\ IsInjective(q) /\ Range(q) = Range(rest[s]) \ {e}
  <2>1. rest[s] \in Seq(Requests) /\ IsInjective(rest[s])
    BY DEF Types, EntryInv
  <2>. QED  BY <1>1, <2>1, TailFacts
<1>3. at[e] = s /\ finisher[e] = "none" /\ \A u \in Shards : e \notin Range(queue[u])
  BY <1>2, Apart, SMT DEF EntryInv
<1>4. \A u \in Shards : \A x \in Range(rest'[u]) : x \in Requests /\ x \in Range(rest[u]) /\ x # e
  <2>. HIDE DEF e, q
  <2>. QED  BY <1>1, <1>2, <1>3, Apart, SMT DEF EntryInv
<1>5. \A x \in Range(rest'[s]) : unblocked[x] = "no"
  BY <1>4, SMT DEF EntryInv
<1>. HIDE DEF e, q
<1>6. EntryInv'
  <2>1. \A u \in Shards : IsInjective(queue'[u]) /\ IsInjective(rest'[u])
    BY <1>1, <1>2 DEF EntryInv
  <2>2. ASSUME NEW u \in Shards, NEW x \in Range(rest'[u])
        PROVE  /\ at'[x] = u /\ req'[x] \notin {"new", "checked"} /\ finisher'[x] = "none"
               /\ drain'[u] # "wait" \/ x # Head(rest'[u]) => unblocked'[x] = "no"
    <3>1. CASE u = s
      BY <1>1, <1>4, <1>5, <3>1, SMT DEF EntryInv
    <3>2. CASE u # s
      BY <1>1, <1>4, <3>2, SMT DEF EntryInv
    <3>. QED  BY <3>1, <3>2
  <2>. QED  BY <1>1, <2>1, <2>2, SMT DEF EntryInv
<1>7. e \in Held
  BY <1>2, HeldFacts
<1>8. ASSUME NEW x  PROVE x \in Held' <=> x \in Held /\ x # e
  <2>1. CASE x = e
    <3>1. \A u \in Shards : e \notin Range(rest'[u])
      BY <1>4
    <3>. QED  BY <1>1, <1>3, <2>1, <3>1, HeldFactsNext
  <2>2. CASE x # e
    <3>1. \A u \in Shards : x \in Range(rest'[u]) <=> x \in Range(rest[u])
      BY <1>1, <1>2, <2>2
    <3>. QED  BY <1>1, <2>2, <3>1, HeldFacts, HeldFactsNext
  <2>. QED  BY <2>1, <2>2
<1>9. Held' = Held \ {e}
  BY <1>8
<1>. QED  BY <1>1, <1>6, <1>7, <1>9 DEF SlotChange

(* The drain thread takes over the queue of a shard that stops buffering. *)
LEMMA StopEntry ==
  ASSUME Types, Types', PhaseInv, EntryInv, free \in 0..Size,
         NEW S \in SUBSET Shards, StopBuffering(S),
         UNCHANGED <<at, req, unblocked, finisher, free>>
  PROVE  EntryInv' /\ SlotChange
<1>1. ASSUME NEW u \in Shards
      PROVE  \/ queue'[u] = queue[u] /\ rest'[u] = rest[u] /\ drain'[u] = drain[u]
             \/ queue'[u] = << >> /\ rest'[u] = queue[u] /\ drain'[u] = "start" /\ rest[u] = << >>
  BY DEF StopBuffering, PhaseInv
<1>2. Range(<< >>) = {} /\ IsInjective(<< >>)
  BY SMT DEF Range, IsInjective
<1>3. EntryInv'
  <2>1. \A u \in Shards : IsInjective(queue'[u]) /\ IsInjective(rest'[u])
    BY <1>1, <1>2 DEF EntryInv
  <2>2. ASSUME NEW u \in Shards, NEW x \in Range(queue'[u])
        PROVE  at'[x] = u /\ req'[x] \in {"waiting", "removing"} /\ unblocked'[x] = "no" /\ finisher'[x] = "none"
    BY <1>1, <1>2, SMT DEF EntryInv
  <2>3. ASSUME NEW u \in Shards, NEW x \in Range(rest'[u])
        PROVE  /\ at'[x] = u /\ req'[x] \notin {"new", "checked"} /\ finisher'[x] = "none"
               /\ drain'[u] # "wait" \/ x # Head(rest'[u]) => unblocked'[x] = "no"
    BY <1>1, <1>2, SMT DEF EntryInv
  <2>. QED  BY <2>1, <2>2, <2>3 DEF EntryInv
<1>4. \A u \in Shards : \A x : x \in Range(queue'[u]) \/ x \in Range(rest'[u]) <=>
                              x \in Range(queue[u]) \/ x \in Range(rest[u])
  BY <1>1, <1>2
<1>5. Held' = Held
  <2>1. ASSUME NEW x  PROVE x \in Held' <=> x \in Held
    BY <1>4, HeldFacts, HeldFactsNext
  <2>. QED  BY <2>1
<1>. QED  BY <1>3, <1>5 DEF SlotChange

(* Every step keeps the entries in their places and the account of slots. *)
LEMMA EntryStep ==
  ASSUME Types, Types', PhaseInv, EntryInv, free \in 0..Size, [Next]_vars
  PROVE  EntryInv' /\ SlotChange
<1>. USE DEF reqVars, shardVars, Goto
<1>. DEFINE Goal == EntryInv' /\ SlotChange
            Same == /\ UNCHANGED <<at, queue, rest, unblocked, finisher, free>>
                    /\ \A r \in Requests : req'[r] \in {"new", "checked"} => req[r] \in {"new", "checked"}
                    /\ \A s \in Shards : \A r \in Range(queue[s]) : req'[r] \in {"waiting", "removing"}
                    /\ \A s \in Shards : drain'[s] = "wait" <=> drain[s] = "wait"
<1>0. Same => Goal
  BY EntrySame
<1>q. \A s \in Shards : \A r \in Range(queue[s]) : r \in Requests /\ req[r] \in {"waiting", "removing"} /\ unblocked[r] = "no"
  BY Apart, SMT DEF EntryInv
<1>t. /\ at \in [Requests -> Shards] /\ queue \in [Shards -> Seq(Requests)]
      /\ req \in [Requests -> {"new", "checked", "waiting", "removing", "retrying", "failed", "returned"}]
      /\ drain \in [Shards -> {"none", "start", "stopping", "loop", "wait"}]
  BY DEF Types
<1>1. CASE UNCHANGED vars
  <2>1. Same
    BY <1>1, <1>q DEF vars
  <2>. QED  BY <1>0, <2>1
<1>2. ASSUME NEW r \in Requests, WaitForFailoverEnd(r)  PROVE Goal
  <2>1. Same
    BY <1>2, <1>q, <1>t DEF WaitForFailoverEnd
  <2>. QED  BY <1>0, <2>1
<1>3. ASSUME NEW r \in Requests, Skip(r)  PROVE Goal
  <2>1. Same
    BY <1>3, <1>q, <1>t DEF Skip
  <2>. QED  BY <1>0, <2>1
<1>4. ASSUME NEW r \in Requests, BufferDryRun(r)  PROVE Goal
  <2>1. Same
    BY <1>4, <1>q, <1>t DEF BufferDryRun, Buffering
  <2>. QED  BY <1>0, <2>1
<1>5. ASSUME NEW r \in Requests, BufferFull(r)  PROVE Goal
  <2>1. Same
    BY <1>5, <1>q, <1>t DEF BufferFull, Buffering
  <2>. QED  BY <1>0, <2>1
<1>6. ASSUME NEW r \in Requests, BufferEvict(r)  PROVE Goal
  BY <1>6, EvictEntry
<1>7. ASSUME NEW r \in Requests, BufferAcquire(r)  PROVE Goal
  BY <1>7, AcquireEntry
<1>8. ASSUME NEW r \in Requests, WaitDone(r)  PROVE Goal
  <2>1. Same
    BY <1>8, <1>q, <1>t DEF WaitDone
  <2>. QED  BY <1>0, <2>1
<1>9. ASSUME NEW r \in Requests, WaitCancelled(r)  PROVE Goal
  <2>1. Same
    BY <1>9, <1>q, <1>t DEF WaitCancelled
  <2>. QED  BY <1>0, <2>1
<1>10. ASSUME NEW r \in Requests, RemoveEntry(r)  PROVE Goal
  <2>. DEFINE q == queue[at[r]]
  <2>1. at[r] \in Shards /\ q \in Seq(Requests) /\ IsInjective(q) /\ req'[r] = "returned"
    BY <1>10, <1>t DEF EntryInv, RemoveEntry
  <2>2. \A x \in Requests : x # r => req'[x] = req[x]
    BY <1>10, <1>t DEF RemoveEntry
  <2>3. CASE r \notin Range(q) /\ UNCHANGED <<queue, ctxDone, unblocked, finisher>>
    <3>1. \A s \in Shards : r \notin Range(queue[s])
      BY <2>3, SMT DEF EntryInv
    <3>2. Same
      <4>1. UNCHANGED <<at, queue, rest, drain, unblocked, finisher, free>>
        BY <1>10, <2>3 DEF RemoveEntry
      <4>. QED  BY <1>q, <2>1, <2>2, <3>1, <4>1
    <3>. QED  BY <1>0, <3>2
  <2>4. ASSUME NEW i \in 1..Len(q), q[i] = r, queue' = [queue EXCEPT ![at[r]] = Without(@, i)], Unblock(r, "nil", TRUE)
        PROVE  Goal
    <3>. DEFINE t == Without(q, i)
    <3>1. IsInjective(t) /\ Range(t) = Range(q) \ {r}
      BY <2>1, <2>4, WithoutFacts, SMT
    <3>2. r \in Range(q)
      BY <2>1, <2>4, SMT DEF Range
    <3>3. queue' = [queue EXCEPT ![at[r]] = t] /\ UNCHANGED <<at, rest, drain, free>>
      BY <1>10, <2>4 DEF RemoveEntry
    <3>. HIDE DEF t
    <3>. QED  BY <2>1, <2>2, <2>4, <3>1, <3>2, <3>3, LeaveQueue
  <2>. HIDE DEF Goal
  <2>. QED  BY <1>10, <2>3, <2>4 DEF RemoveEntry
<1>11. ASSUME NEW r \in Requests, RetryDone(r)  PROVE Goal
  <2>1. Same
    BY <1>11, <1>q, <1>t DEF RetryDone
  <2>. QED  BY <1>0, <2>1
<1>12. ASSUME NEW r \in Requests, RequestFinish(r)  PROVE Goal
  BY <1>12, FinishEntry
<1>13. ASSUME NEW r \in Requests, Cancel(r)  PROVE Goal
  <2>1. Same
    BY <1>13, <1>q, <1>t DEF Cancel
  <2>. QED  BY <1>0, <2>1
<1>14. ASSUME NEW s \in Shards, DrainStop(s)  PROVE Goal
  <2>1. Same
    BY <1>14, <1>q, <1>t DEF DrainStop
  <2>. QED  BY <1>0, <2>1
<1>15. ASSUME NEW s \in Shards, DrainStopped(s)  PROVE Goal
  <2>1. Same
    BY <1>15, <1>q, <1>t DEF DrainStopped
  <2>. QED  BY <1>0, <2>1
<1>16. ASSUME NEW s \in Shards, DrainUnblock(s)  PROVE Goal
  BY <1>16, UnblockEntry
<1>17. ASSUME NEW s \in Shards, DrainNext(s)  PROVE Goal
  BY <1>17, DrainEntry
<1>18. ASSUME NEW s \in Shards, DrainDone(s)  PROVE Goal
  <2>1. Same
    BY <1>18, <1>q, <1>t DEF DrainDone
  <2>. QED  BY <1>0, <2>1
<1>19. ASSUME NEW s \in Shards, ThreadLook(s)  PROVE Goal
  <2>1. Same
    BY <1>19, <1>q, <1>t DEF ThreadLook
  <2>. QED  BY <1>0, <2>1
<1>20. ASSUME NEW s \in Shards, ThreadPick(s)  PROVE Goal
  <2>1. Same
    BY <1>20, <1>q, <1>t DEF ThreadPick
  <2>. QED  BY <1>0, <2>1
<1>21. ASSUME NEW s \in Shards, ThreadNext(s)  PROVE Goal
  <2>1. Same
    BY <1>21, <1>q, <1>t DEF ThreadNext
  <2>. QED  BY <1>0, <2>1
<1>22. ASSUME NEW s \in Shards, WindowExceeded(s)  PROVE Goal
  <2>1. Same
    BY <1>22, <1>q, <1>t DEF WindowExceeded
  <2>. QED  BY <1>0, <2>1
<1>23. ASSUME NEW s \in Shards, EvictOldest(s)  PROVE Goal
  <2>1. queue[s] \in Seq(Requests) /\ IsInjective(queue[s]) /\ UNCHANGED <<at, rest, drain, free, req>>
    BY <1>23, <1>t DEF EntryInv, EvictOldest
  <2>2. CASE UNCHANGED <<unblocked, finisher, queue>>
    <3>1. Same
      BY <1>q, <2>1, <2>2
    <3>. QED  BY <1>0, <3>1
  <2>3. ASSUME queue[s] # << >>, Unblock(Head(queue[s]), "nil", TRUE), queue' = [queue EXCEPT ![s] = Tail(@)]
        PROVE  Goal
    <3>. DEFINE t == Tail(queue[s])
                e == Head(queue[s])
    <3>1. e \in Range(queue[s]) /\ IsInjective(t) /\ Range(t) = Range(queue[s]) \ {e}
      BY <2>1, <2>3, TailFacts
    <3>2. queue' = [queue EXCEPT ![s] = t] /\ Unblock(e, "nil", TRUE)
      BY <2>3
    <3>. HIDE DEF t, e
    <3>3. req'[e] \notin {"new", "checked"}
      BY <2>1, <3>1 DEF EntryInv
    <3>. QED  BY <2>1, <3>1, <3>2, <3>3, LeaveQueue
  <2>. HIDE DEF Goal
  <2>. QED  BY <1>23, <2>2, <2>3 DEF EvictOldest
<1>24. ASSUME NEW s \in Shards, StopDueToMaxDuration(s)  PROVE Goal
  BY <1>24, StopEntry DEF StopDueToMaxDuration
<1>25. ASSUME NEW s \in Shards, ThreadStop(s)  PROVE Goal
  <2>1. Same
    BY <1>25, <1>q, <1>t DEF ThreadStop
  <2>. QED  BY <1>0, <2>1
<1>26. ASSUME NEW s \in Shards, MaxDurationUp(s)  PROVE Goal
  <2>1. Same
    BY <1>26, <1>q, <1>t DEF MaxDurationUp
  <2>. QED  BY <1>0, <2>1
<1>27. ASSUME NEW s \in Shards, Elapse(s)  PROVE Goal
  <2>1. Same
    BY <1>27, <1>q, <1>t DEF Elapse
  <2>. QED  BY <1>0, <2>1
<1>28. ASSUME NEW s \in Shards, NEW ts \in 1..MaxTimestamp, NEW alias \in Tablets, RecordReparented(s, ts, alias)
      PROVE  Goal
  BY <1>28, StopEntry DEF RecordReparented
<1>29. CASE Shutdown
  BY <1>29, StopEntry DEF Shutdown
<1>30. CASE ShutdownReturn
  <2>1. Same
    BY <1>30, <1>q DEF ShutdownReturn
  <2>. QED  BY <1>0, <2>1
<1>. HIDE DEF Goal, Same
<1>31. ASSUME NEW r \in Requests, Request(r) \/ Cancel(r)  PROVE Goal
  BY <1>31, <1>2, <1>3, <1>4, <1>5, <1>6, <1>7, <1>8, <1>9, <1>10, <1>11, <1>12, <1>13 DEF Request
<1>32. ASSUME NEW s \in Shards, Drain(s) \/ TimeoutThread(s) \/ MaxDurationUp(s) \/ Elapse(s)  PROVE Goal
  BY <1>32, <1>14, <1>15, <1>16, <1>17, <1>18, <1>19, <1>20, <1>21, <1>22, <1>23, <1>24, <1>25, <1>26, <1>27 DEF Drain, TimeoutThread
<1>. QED  BY <1>1, <1>28, <1>29, <1>30, <1>31, <1>32 DEF Next, Goal
-----------------------------------------------------------------------------
(* The account stays right when the entries that hold a slot change with   *)
(* the free slots.                                                         *)
LEMMA SlotStep ==
  ASSUME Types, free \in 0..Size, SlotsAccounted, SlotChange
  PROVE  SlotsAccounted' /\ free' \in 0..Size
<1>1. IsFiniteSet(Held) /\ Cardinality(Held) \in Nat
  BY HeldFacts, BufferAssumption, FS_Subset, FS_CardinalityType
<1>2. free + Cardinality(Held) = Size /\ Size \in Nat
  BY BufferAssumption DEF SlotsAccounted, Held
<1>3. free' + Cardinality(Held') = Size /\ Cardinality(Held') \in Nat /\ free' \in Nat
  <2>1. CASE Held' = Held /\ free' = free
    BY <1>1, <1>2, <2>1, SMT
  <2>2. ASSUME NEW r \in Requests \ Held, Held' = Held \cup {r}, free > 0, free' = free - 1
        PROVE  free' + Cardinality(Held') = Size /\ Cardinality(Held') \in Nat /\ free' \in Nat
    <3>1. Cardinality(Held \cup {r}) = Cardinality(Held) + 1
      BY <1>1, FS_AddElement
    <3>. QED  BY <1>1, <1>2, <2>2, <3>1, SMT
  <2>3. ASSUME NEW r \in Held, Held' = Held \ {r}, free' = free + 1
        PROVE  free' + Cardinality(Held') = Size /\ Cardinality(Held') \in Nat /\ free' \in Nat
    <3>1. Cardinality(Held \ {r}) = Cardinality(Held) - 1 /\ Cardinality(Held \ {r}) \in Nat
      BY <1>1, FS_RemoveElement, FS_CardinalityType
    <3>. QED  BY <1>1, <1>2, <2>3, <3>1, SMT
  <2>4. ASSUME NEW e \in Held, NEW r \in Requests \ Held, Held' = (Held \ {e}) \cup {r}, free' = free
        PROVE  free' + Cardinality(Held') = Size /\ Cardinality(Held') \in Nat /\ free' \in Nat
    <3>1. IsFiniteSet(Held \ {e}) /\ Cardinality(Held \ {e}) = Cardinality(Held) - 1
      BY <1>1, FS_RemoveElement
    <3>2. Cardinality((Held \ {e}) \cup {r}) = Cardinality(Held \ {e}) + 1
      BY <3>1, FS_AddElement
    <3>. QED  BY <1>1, <1>2, <2>4, <3>1, <3>2, SMT
  <2>. QED  BY <2>1, <2>2, <2>3, <2>4 DEF SlotChange
<1>. QED  BY <1>2, <1>3, SMT DEF SlotsAccounted, Held

(* Initially no entry holds a slot. *)
LEMMA InitInv == Init => IInv
<1>. SUFFICES ASSUME Init PROVE IInv
  OBVIOUS
<1>1. Types /\ free = Size /\ Size \in Nat
  BY BufferAssumption, SMT DEF Init, Types, Threads, Thread
<1>2. PhaseInv
  BY DEF Init, PhaseInv, Thread
<1>3. Range(<< >>) = {} /\ IsInjective(<< >>)
  BY SMT DEF Range, IsInjective
<1>4. EntryInv
  BY <1>3 DEF Init, EntryInv
<1>5. Held = {}
  BY <1>1, <1>3, HeldFacts DEF Init
<1>6. SlotsAccounted
  BY <1>1, <1>5, FS_EmptySet, SMT DEF SlotsAccounted, Held
<1>. QED  BY <1>1, <1>2, <1>4, <1>6, TypeSplit, SMT DEF IInv

(* IInv is inductive: no step of a request, of a timeout thread, of a      *)
(* drain thread, of the health check or of a shutdown leaves it.           *)
THEOREM BufferInvariant == Spec => []IInv
<1>1. Init => IInv
  BY InitInv
<1>2. IInv /\ [Next]_vars => IInv'
  <2>. SUFFICES ASSUME IInv, [Next]_vars PROVE IInv'
    OBVIOUS
  <2>1. Types /\ PhaseInv /\ EntryInv /\ SlotsAccounted /\ free \in 0..Size
    BY TypeSplit DEF IInv
  <2>2. Types' /\ PhaseInv'
    BY <2>1, TypesStep, PhaseStep
  <2>3. EntryInv' /\ SlotsAccounted' /\ free' \in 0..Size
    BY <2>1, <2>2, EntryStep, SlotStep
  <2>4. TypeOK'
    BY <2>2, <2>3 DEF TypeOK, Types
  <2>. QED  BY <2>2, <2>3, <2>4 DEF IInv
<1>. QED  BY <1>1, <1>2, PTL DEF Spec

(* TypeOK: in particular the semaphore never holds more free slots than    *)
(* -buffer_size, so that Release never blocks, and never fewer than none.  *)
THEOREM BufferTypeCorrect == Spec => []TypeOK
<1>1. IInv => TypeOK
  BY DEF IInv
<1>. QED  BY <1>1, BufferInvariant, PTL

(* SlotsAccounted: every slot is free or held by exactly one entry.        *)
THEOREM SlotsAreAccounted == Spec => []SlotsAccounted
<1>1. IInv => SlotsAccounted
  BY DEF IInv
<1>. QED  BY <1>1, BufferInvariant, PTL

(* IdleIsQuiet: nothing of one failover is left when the next may start.   *)
THEOREM IdleBufferIsQuiet == Spec => []IdleIsQuiet
<1>1. IInv => IdleIsQuiet
  BY DEF IInv, PhaseInv, IdleIsQuiet
<1>. QED  BY <1>1, BufferInvariant, PTL

(* ClosedOnce: unblockAndWait never meets a channel that is closed.        *)
THEOREM ChannelsClosedOnce == Spec => []ClosedOnce
<1>1. IInv => ClosedOnce
  <2>. SUFFICES ASSUME IInv PROVE ClosedOnce
    OBVIOUS
  <2>1. Types /\ PhaseInv /\ EntryInv
    BY TypeSplit DEF IInv
  <2>2. \A x : x \in Queued <=> \E s \in Shards : x \in Range(queue[s])
    BY DEF Queued
  <2>3. \A x : x \in Draining <=> \E s \in Shards : x \in Range(rest[s])
    BY DEF Draining
  <2>4. Queued \cap Draining = {}
    BY <2>1, <2>2, <2>3, Apart
  <2>5. \A r \in Queued : unblocked[r] = "no" /\ finisher[r] = "none"
    BY <2>1, <2>2, SMT DEF EntryInv
  <2>6. ASSUME NEW s \in Shards, NEW i \in 1..Len(rest[s]), i > 1 \/ drain[s] # "wait"
        PROVE  unblocked[rest[s][i]] = "no"
    <3>1. rest[s] \in Seq(Requests) /\ IsInjective(rest[s]) /\ DOMAIN rest[s] = 1..Len(rest[s])
      BY <2>1, SMT DEF Types, EntryInv
    <3>2. rest[s][i] \in Range(rest[s])
      BY <3>1 DEF Range
    <3>3. i > 1 => rest[s][i] # Head(rest[s])
      BY <3>1, SMT DEF IsInjective
    <3>. QED  BY <2>1, <2>6, <3>2, <3>3, SMT DEF EntryInv
  <2>. QED  BY <2>1, <2>4, <2>5, <2>6 DEF ClosedOnce, EntryInv
<1>. QED  BY <1>1, BufferInvariant, PTL
-----------------------------------------------------------------------------
(* A shard in dry-run mode queues nothing, and its requests only pass.     *)
DryInv ==
  /\ \A s \in DryRun : queue[s] = << >> /\ rest[s] = << >>
  /\ \A r \in Requests : at[r] \in DryRun =>
       req[r] \in {"new", "checked", "returned"} /\ unblocked[r] = "no"

(* What is left to show of a step: it adds nothing to a queue in dry-run   *)
(* mode, and whom it blocks or unblocks is not a request there.            *)
LEMMA DryFrame ==
  ASSUME Types, DryInv, at' = at,
         \A s \in DryRun : queue'[s] = queue[s] /\ rest'[s] \in {rest[s], queue[s]},
         \A r \in Requests : at[r] \in DryRun =>
           req'[r] \in {req[r], "checked", "returned"} /\ unblocked'[r] = unblocked[r]
  PROVE  DryInv'
BY DEF DryInv

(* DryInv is kept by every step.                                           *)
LEMMA DryStep ==
  ASSUME Types, PhaseInv, EntryInv, DryInv, [Next]_vars
  PROVE  DryInv'
<1>. USE DEF reqVars, shardVars
<1>1. /\ at \in [Requests -> Shards] /\ DryRun \subseteq Shards
      /\ queue \in [Shards -> Seq(Requests)] /\ rest \in [Shards -> Seq(Requests)]
      /\ req \in [Requests -> {"new", "checked", "waiting", "removing", "retrying", "failed", "returned"}]
      /\ unblocked \in [Requests -> {"no", "nil", "evicted"}]
  BY BufferAssumption DEF Types
<1>2. CASE UNCHANGED vars
  BY <1>2 DEF DryInv, vars
<1>3. ASSUME NEW r \in Requests,
             WaitForFailoverEnd(r) \/ Skip(r) \/ WaitDone(r) \/ WaitCancelled(r) \/ RetryDone(r)
      PROVE  DryInv'
  <2>1. UNCHANGED <<at, queue, rest, unblocked>>
    BY <1>3 DEF WaitForFailoverEnd, Skip, WaitDone, WaitCancelled, RetryDone
  <2>2. \A q \in Requests : at[q] \in DryRun => req'[q] \in {req[q], "checked", "returned"}
    BY <1>1, <1>3 DEF DryInv, WaitForFailoverEnd, Skip, WaitDone, WaitCancelled, RetryDone, Goto
  <2>. QED  BY <2>1, <2>2, DryFrame
<1>4. ASSUME NEW r \in Requests, BufferDryRun(r) \/ BufferFull(r)  PROVE DryInv'
  <2>1. UNCHANGED <<at, rest, unblocked>> /\ queue' = queue
    BY <1>1, <1>4, ZenonT(30) DEF BufferDryRun, BufferFull, Buffering
  <2>2. \A q \in Requests : req'[q] \in {req[q], "returned"}
    BY <1>1, <1>4 DEF BufferDryRun, BufferFull, Goto
  <2>. QED  BY <2>1, <2>2, DryFrame
<1>5. ASSUME NEW r \in Requests, BufferEvict(r) \/ BufferAcquire(r)  PROVE DryInv'
  <2>1. /\ at[r] \in Shards \ DryRun /\ UNCHANGED <<at, rest>>
        /\ \A s \in Shards : s # at[r] => queue'[s] = queue[s]
        /\ \A q \in Requests : q # r => req'[q] = req[q]
    BY <1>1, <1>5 DEF BufferEvict, BufferAcquire, Buffering, Goto
  <2>2. ASSUME NEW q \in Requests, at[q] \in DryRun  PROVE unblocked'[q] = unblocked[q]
    <3>1. CASE BufferAcquire(r)
      BY <3>1 DEF BufferAcquire
    <3>2. CASE BufferEvict(r)
      <4>1. queue[at[r]] \in Seq(Requests) /\ queue[at[r]] # << >>
        BY <1>1, <3>2 DEF BufferEvict
      <4>2. Head(queue[at[r]]) \in Range(queue[at[r]])
        BY <4>1, HeadFacts
      <4>3. at[Head(queue[at[r]])] = at[r]
        BY <2>1, <4>2, SMT DEF EntryInv
      <4>. QED  BY <1>1, <2>1, <2>2, <3>2, <4>3 DEF BufferEvict, Unblock
    <3>. QED  BY <1>5, <3>1, <3>2
  <2>3. \A s \in DryRun : queue'[s] = queue[s] /\ rest'[s] = rest[s]
    BY <1>1, <2>1
  <2>4. \A q \in Requests : at[q] \in DryRun => req'[q] = req[q]
    BY <2>1
  <2>. QED  BY <2>1, <2>2, <2>3, <2>4, DryFrame
<1>6. ASSUME NEW r \in Requests, RemoveEntry(r)  PROVE DryInv'
  <2>1. /\ at[r] \in Shards \ DryRun /\ UNCHANGED <<at, rest>>
        /\ \A q \in Requests : q # r => req'[q] = req[q]
    BY <1>1, <1>6 DEF DryInv, RemoveEntry, Goto
  <2>2. \A s \in Shards : s # at[r] => queue'[s] = queue[s]
    BY <1>1, <1>6 DEF RemoveEntry
  <2>3. \A q \in Requests : q # r => unblocked'[q] = unblocked[q]
    BY <1>1, <1>6 DEF RemoveEntry, Unblock
  <2>4. \A s \in DryRun : queue'[s] = queue[s] /\ rest'[s] = rest[s]
    BY <1>1, <2>1, <2>2
  <2>5. \A q \in Requests : at[q] \in DryRun => req'[q] = req[q] /\ unblocked'[q] = unblocked[q]
    BY <2>1, <2>3
  <2>. QED  BY <2>1, <2>4, <2>5, DryFrame
<1>7. ASSUME NEW s \in Shards, DrainUnblock(s)  PROVE DryInv'
  <2>1. rest[s] \in Seq(Requests) /\ rest[s] # << >> /\ UNCHANGED <<at, req, queue, rest>>
    BY <1>1, <1>7 DEF DrainUnblock
  <2>2. Head(rest[s]) \in Range(rest[s])
    BY <2>1, HeadFacts
  <2>3. at[Head(rest[s])] = s /\ s \notin DryRun
    BY <2>1, <2>2 DEF EntryInv, DryInv
  <2>4. \A q \in Requests : at[q] \in DryRun => unblocked'[q] = unblocked[q]
    BY <1>1, <1>7, <2>3 DEF DrainUnblock
  <2>. QED  BY <2>1, <2>4, DryFrame
<1>8. ASSUME NEW s \in Shards, DrainNext(s)  PROVE DryInv'
  <2>1. rest[s] # << >> /\ UNCHANGED <<at, req, queue, unblocked>>
    BY <1>8 DEF DrainNext, PhaseInv
  <2>2. s \notin DryRun /\ \A u \in Shards : u # s => rest'[u] = rest[u]
    BY <1>1, <1>8, <2>1 DEF DrainNext, DryInv
  <2>. QED  BY <1>1, <2>1, <2>2, DryFrame
<1>9. ASSUME NEW s \in Shards, EvictOldest(s)  PROVE DryInv'
  <2>1. CASE UNCHANGED <<unblocked, queue>>
    BY <1>9, <2>1, DryFrame DEF EvictOldest
  <2>2. CASE /\ queue[s] # << >> /\ Head(queue[s]) = tt[s].e
             /\ unblocked' = [unblocked EXCEPT ![Head(queue[s])] = "nil"]
             /\ queue' = [queue EXCEPT ![s] = Tail(@)]
    <3>1. queue[s] \in Seq(Requests) /\ UNCHANGED <<at, req, rest>>
      BY <1>1, <1>9 DEF EvictOldest
    <3>2. Head(queue[s]) \in Range(queue[s])
      BY <2>2, <3>1, HeadFacts
    <3>3. at[Head(queue[s])] = s /\ s \notin DryRun
      BY <2>2, <3>2 DEF EntryInv, DryInv
    <3>4. \A q \in Requests : at[q] \in DryRun => unblocked'[q] = unblocked[q]
      BY <1>1, <2>2, <3>3
    <3>5. \A u \in Shards : u # s => queue'[u] = queue[u]
      BY <1>1, <2>2
    <3>. QED  BY <1>1, <3>1, <3>3, <3>4, <3>5, DryFrame
  <2>. QED  BY <1>9, <2>1, <2>2 DEF EvictOldest, Unblock
<1>10. ASSUME UNCHANGED <<at, req, unblocked>>, NEW S \in SUBSET Shards, StopBuffering(S)
       PROVE  DryInv'
  BY <1>1, <1>10 DEF DryInv, StopBuffering
<1>11. CASE UNCHANGED <<at, req, unblocked, queue, rest>>
  BY <1>11, DryFrame
<1>12. ASSUME NEW r \in Requests, Request(r) \/ Cancel(r)  PROVE DryInv'
  BY <1>12, <1>3, <1>4, <1>5, <1>6, <1>11 DEF Request, Cancel, RequestFinish
<1>13. ASSUME NEW s \in Shards, Drain(s) \/ TimeoutThread(s) \/ MaxDurationUp(s) \/ Elapse(s)
       PROVE  DryInv'
  <2>1. CASE StopDueToMaxDuration(s)
    <3>1. {s} \in SUBSET Shards
      OBVIOUS
    <3>. QED  BY <1>10, <2>1, <3>1 DEF StopDueToMaxDuration
  <2>2. CASE \/ DrainStop(s) \/ DrainStopped(s) \/ DrainDone(s) \/ ThreadLook(s) \/ ThreadPick(s)
             \/ ThreadNext(s) \/ WindowExceeded(s) \/ ThreadStop(s) \/ MaxDurationUp(s) \/ Elapse(s)
    BY <1>11, <2>2 DEF DrainStop, DrainStopped, DrainDone, ThreadLook, ThreadPick, ThreadNext,
      WindowExceeded, ThreadStop, MaxDurationUp, Elapse
  <2>. QED  BY <1>13, <1>7, <1>8, <1>9, <2>1, <2>2 DEF Drain, TimeoutThread
<1>14. ASSUME NEW s \in Shards, NEW ts, NEW alias, RecordReparented(s, ts, alias)
       PROVE  DryInv'
  <2>1. {s} \in SUBSET Shards
    OBVIOUS
  <2>. QED  BY <1>10, <1>14, <2>1 DEF RecordReparented
<1>15. CASE Shutdown
  BY <1>10, <1>15 DEF Shutdown
<1>16. CASE ShutdownReturn
  BY <1>11, <1>16 DEF ShutdownReturn
<1>. QED  BY <1>2, <1>12, <1>13, <1>14, <1>15, <1>16 DEF Next

(* DryRunHoldsNothing: in dry-run mode no request is held back, no slot is *)
(* used and there is nothing to drain, whatever the other shards do.       *)
THEOREM DryRunIsFree == Spec => []DryRunHoldsNothing
<1>1. Init => DryInv
  BY BufferAssumption, SMT DEF Init, DryInv
<1>2. IInv /\ DryInv /\ [Next]_vars => DryInv'
  BY DryStep, TypeSplit DEF IInv
<1>3. DryInv => DryRunHoldsNothing
  BY DEF DryInv, DryRunHoldsNothing
<1>. QED  BY <1>1, <1>2, <1>3, BufferInvariant, PTL DEF Spec

-----------------------------------------------------------------------------
(* The session.                                                            *)

SessionShards == UNION {UNION {plan[k].shards : k \in DOMAIN plan} : plan \in Plans}
TxStates == {"open", "stray", "lost", "committed", "undone"}
TabletTx == [shard : SessionShards, order : Orders, round : Nat, state : TxStates, did : SUBSET Nat]

DataTypes ==
  /\ held \in [Orders -> SUBSET Nat] /\ opened \in Seq(TabletTx)
  /\ made \in Seq(Plans) /\ round \in Nat
  /\ failed \cup partial \cup acked \cup promised \subseteq 1..Len(made)
  /\ \A i \in DOMAIN opened : opened[i].did \subseteq 1..Len(made)

CmdTypes ==
  /\ session \in [inTx : BOOLEAN, autocommit : BOOLEAN, mustRollback : BOOLEAN,
                  approval : {"no", "yes", "used"}, single : BOOLEAN]
  /\ cmd.step \in {"idle", "scatter", "calls", "commit"}
  /\ cmd.step = "scatter" =>
       cmd \in [step : {"scatter"}, plan : Plans, at : Nat, dml : BOOLEAN, mustCommit : BOOLEAN]
  /\ cmd.step = "calls" =>
       cmd \in [step : {"calls"}, plan : Plans, at : Nat, dml : BOOLEAN, mustCommit : BOOLEAN,
                auto : BOOLEAN, left : SUBSET SessionShards, ok : Nat, err : BOOLEAN]
  /\ cmd.step = "commit" =>
       cmd \in [step : {"commit"}, stage : Orders, err : BOOLEAN, n : Nat,
                then : {"end", "begin", "autocommit"}]

(* The number of the DML that runs, if one does.                           *)
This == Len(made)
Executing == cmd.step \in {"scatter", "calls"}
OfRound(i) == opened[i].round = round

(* The session holds what is open, all of it of its transaction, and what  *)
(* a stage of the commit has been through is gone.                         *)
HeldOpen ==
  /\ \A o \in Orders : \A i \in held[o] :
       i \in DOMAIN opened /\ opened[i].order = o /\ opened[i].state = "open" /\ OfRound(i)
  /\ \A i \in DOMAIN opened : opened[i].state = "open" => i \in held[opened[i].order]
  /\ \A i \in DOMAIN opened : opened[i].round <= round
SessionHeld ==
  /\ HeldOpen
  /\ \A o \in Orders : held[o] # {} => session.inTx
  /\ cmd.step = "commit" => /\ cmd.stage # "PRE" => held["PRE"] = {}
                            /\ cmd.stage = "POST" => held["NORMAL"] = {}

(* The command that runs, and what the session says meanwhile.             *)
CmdInv ==
  /\ Executing => /\ cmd.at \in 1..Len(cmd.plan)
                  /\ cmd.mustCommit => cmd.dml
                  /\ cmd.dml => This # 0 /\ cmd.plan = made[This] /\ session.inTx /\ This \notin failed
                  /\ session.approval # "no" => cmd.mustCommit
  /\ cmd.step = "calls" => /\ cmd.auto <=> session.approval = "used"
                           /\ cmd.auto => cmd.at = Len(cmd.plan) /\ cmd.dml
                           /\ cmd.at < Len(cmd.plan) => session.approval = "no"
                           /\ cmd.left \subseteq cmd.plan[cmd.at].shards
  /\ cmd.step = "scatter" => session.approval # "used"
  /\ cmd.step = "idle" => session.approval = "no"
  /\ session.mustRollback => cmd.step = "calls" /\ cmd.err /\ session.inTx
  /\ cmd.step = "commit" => cmd.n <= This

(* A transaction of a tablet that belongs to that of the session.          *)
RoundInv(i) ==
  /\ session.inTx
  /\ opened[i].state \in {"undone", "lost"} =>
       cmd.step = "commit" /\ cmd.err /\ opened[i].order = cmd.stage
  /\ opened[i].state = "committed" => session.approval = "used" \/ cmd.step = "commit"
  /\ session.approval = "used" => opened[i].state = "committed" /\ opened[i].order = "NORMAL"
  /\ ~(cmd.step = "scatter" /\ session.approval = "yes")
OrderInv ==
  /\ CommitsInOrder
  /\ \A i \in DOMAIN opened : OfRound(i) => RoundInv(i)

(* Where the DML that runs may have left something.                        *)
DidInv(i) ==
  /\ \/ opened[i].state = "open"
     \/ cmd.step = "calls" /\ cmd.auto /\ (cmd.ok > 0 \/ This \in partial)
  /\ \/ cmd.at > 1
     \/ cmd.step = "calls" /\ (session.mustRollback \/ This \in partial \/ cmd.ok > 0)
FailInv ==
  /\ \A n \in failed \ partial, i \in DOMAIN opened : n \notin opened[i].did
  /\ Executing /\ cmd.dml => \A i \in DOMAIN opened : This \in opened[i].did => DidInv(i)

(* DML n is done on a shard, and not undone.                               *)
Has(n, part, s) ==
  \E i \in DOMAIN opened :
    /\ opened[i].shard = s /\ opened[i].order = part.order /\ n \in opened[i].did
    /\ opened[i].state \in {"open", "committed"}
HasAll(n, part) == \A s \in part.shards : Has(n, part, s)

(* Nothing has failed yet that makes the session roll back.                *)
Sound == ~session.mustRollback /\ (cmd.step = "commit" /\ cmd.err => cmd.stage = "POST")
Awaited == acked \cup (IF cmd.step = "commit" THEN {cmd.n} \ {0} ELSE {})
AwaitedInv ==
  \A n \in Awaited : \A k \in DOMAIN made[n] : made[n][k].order # "POST" => HasAll(n, made[n][k])
DoneInv ==
  Executing /\ cmd.dml =>
    /\ \A k \in DOMAIN cmd.plan : k < cmd.at => HasAll(This, cmd.plan[k])
    /\ cmd.step = "calls" /\ ~cmd.err =>
         \A s \in cmd.plan[cmd.at].shards \ cmd.left : Has(This, cmd.plan[cmd.at], s)
AckInv == AckedIsDurable /\ (Sound => AwaitedInv /\ DoneInv)

SessionInv == DataTypes /\ CmdTypes /\ SessionHeld /\ CmdInv /\ OrderInv /\ FailInv /\ AckInv

-----------------------------------------------------------------------------
LEMMA SeqOf ==
  ASSUME NEW S, NEW q \in Seq(S)
  PROVE  Len(q) \in Nat /\ DOMAIN q = 1..Len(q) /\ \A i \in 1..Len(q) : q[i] \in S
BY SMT

LEMMA SeqAdd ==
  ASSUME NEW S, NEW q \in Seq(S), NEW x \in S
  PROVE  /\ Append(q, x) \in Seq(S) /\ Len(Append(q, x)) = Len(q) + 1
         /\ DOMAIN Append(q, x) = DOMAIN q \cup {Len(q) + 1} /\ Len(q) + 1 \notin DOMAIN q
         /\ \A i \in DOMAIN q : Append(q, x)[i] = q[i]
         /\ Append(q, x)[Len(q) + 1] = x
BY SMT

LEMMA SeqMap ==
  ASSUME NEW S, NEW q \in Seq(S), NEW r, DOMAIN r = DOMAIN q, r = [i \in DOMAIN q |-> r[i]],
         \A i \in DOMAIN q : r[i] \in S
  PROVE  r \in Seq(S) /\ Len(r) = Len(q)
BY SMT

LEMMA SessionStarts == SessionInit => SessionInv
<1> SUFFICES ASSUME SessionInit PROVE SessionInv
  OBVIOUS
<1>1. /\ session \in [inTx : {FALSE}, autocommit : BOOLEAN, mustRollback : {FALSE},
                      approval : {"no"}, single : SingleModes]
      /\ held = NoSessions /\ opened = <<>> /\ cmd = Rest /\ made = <<>> /\ round = 1
      /\ acked = {} /\ promised = {} /\ failed = {} /\ partial = {}
  BY DEF SessionInit
<1>2. cmd.step = "idle"
  BY <1>1 DEF Rest
<1>3. DOMAIN opened = {} /\ opened \in Seq(TabletTx) /\ made \in Seq(Plans) /\ round \in Nat
  BY <1>1, SMT
<1>4. \A o \in Orders : held[o] = {}
  BY <1>1 DEF NoSessions
<1>5. ~session.mustRollback /\ session.approval = "no"
  BY <1>1
<1>6. DataTypes
  BY <1>1, <1>3 DEF DataTypes, NoSessions
<1>7. CmdTypes
  BY <1>1, <1>2, SessionAssumption DEF CmdTypes
<1>8. SessionHeld /\ CmdInv
  BY <1>2, <1>3, <1>4, <1>5 DEF SessionHeld, HeldOpen, CmdInv, Executing
<1>9. OrderInv /\ FailInv
  BY <1>2, <1>3 DEF OrderInv, FailInv, CommitsInOrder, Committed, Executing
<1>10. AckInv
  BY <1>1, <1>2 DEF AckInv, AckedIsDurable, AwaitedInv, Awaited, DoneInv, Executing
<1> QED BY <1>6, <1>7, <1>8, <1>9, <1>10 DEF SessionInv

(* A transaction of a tablet has the fields of one.                        *)
LEMMA OpenedFacts ==
  ASSUME DataTypes
  PROVE  /\ Len(opened) \in Nat /\ DOMAIN opened = 1..Len(opened)
         /\ \A i \in DOMAIN opened : opened[i] \in TabletTx
         /\ Len(made) \in Nat /\ DOMAIN made = 1..Len(made)
         /\ \A n \in 1..Len(made) : made[n] \in Plans
BY SeqOf DEF DataTypes

(* A round that is over changes nothing of what was committed: the session *)
(* rolls back what it holds and begins another round.                      *)
LEMMA RollbackKeeps ==
  ASSUME SessionInv, RollbackSession, made' = made, promised' = promised,
         failed' \subseteq 1..Len(made), partial' \subseteq 1..Len(made), partial \subseteq partial',
         \A n \in failed' \ partial' : n \in failed \/
           \A i \in DOMAIN opened : n \in opened[i].did => opened[i].state = "open",
         cmd'.step = "idle"
  PROVE  SessionInv'
<1>1. PICK Lost \in SUBSET Ids :
        opened' = [i \in DOMAIN opened |->
          IF i \in Ids
          THEN [opened[i] EXCEPT !.state = IF i \in Lost THEN "lost" ELSE "undone", !.did = {}]
          ELSE opened[i]]
  BY DEF RollbackSession
<1>2. session' = Reset(session) /\ held' = NoSessions /\ acked' = {} /\ round' = round + 1
  BY DEF RollbackSession
<1>3. DOMAIN opened' = DOMAIN opened
  BY <1>1
<1>4. \A i \in DOMAIN opened : i \in Ids <=> opened[i].state = "open"
  <2>1. \A i \in DOMAIN opened : opened[i].order \in Orders
    BY OpenedFacts DEF SessionInv, TabletTx
  <2> QED BY <2>1, SMT DEF SessionInv, SessionHeld, HeldOpen, Ids
<1>5. ASSUME NEW i \in DOMAIN opened
      PROVE  /\ opened'[i].shard = opened[i].shard /\ opened'[i].order = opened[i].order
             /\ opened'[i].round = opened[i].round /\ opened'[i] \in TabletTx
             /\ i \in Ids => opened'[i].state \in {"lost", "undone"} /\ opened'[i].did = {}
             /\ i \notin Ids => opened'[i] = opened[i]
  <2>1. opened[i] \in TabletTx
    BY OpenedFacts DEF SessionInv
  <2>2. opened'[i] = IF i \in Ids
          THEN [opened[i] EXCEPT !.state = IF i \in Lost THEN "lost" ELSE "undone", !.did = {}]
          ELSE opened[i]
    BY <1>1
  <2>3. CASE i \in Ids
    BY <2>1, <2>2, <2>3 DEF TabletTx, TxStates
  <2>4. CASE i \notin Ids
    BY <2>1, <2>2, <2>4
  <2> QED BY <2>3, <2>4
<1>6. DataTypes'
  <2>1. opened' \in Seq(TabletTx)
    BY <1>1, <1>3, <1>5, SeqMap DEF SessionInv, DataTypes
  <2>2. round' \in Nat /\ held' \in [Orders -> SUBSET Nat]
    BY <1>2, SMT DEF SessionInv, DataTypes, NoSessions
  <2>3. \A i \in DOMAIN opened' : opened'[i].did \subseteq 1..Len(made)
    BY <1>3, <1>5 DEF SessionInv, DataTypes
  <2> QED BY <1>2, <2>1, <2>2, <2>3 DEF SessionInv, DataTypes
<1>7. CmdTypes'
  BY <1>2 DEF SessionInv, CmdTypes, Reset
<1>8. ~session'.mustRollback /\ session'.approval = "no"
  BY <1>2 DEF SessionInv, CmdTypes, Reset
<1>9. \A i \in DOMAIN opened' : ~OfRound(i)' /\ opened'[i].round <= round' /\ opened'[i].state # "open"
  <2>1. \A i \in DOMAIN opened : opened[i].round \in Nat /\ opened[i].round <= round /\ round \in Nat
    BY OpenedFacts DEF SessionInv, SessionHeld, HeldOpen, TabletTx, DataTypes
  <2>2. \A i \in DOMAIN opened : opened[i].round <= round + 1 /\ opened[i].round # round + 1
    BY <2>1, SMT
  <2> QED BY <1>2, <1>3, <1>4, <1>5, <2>2 DEF OfRound
<1>10. SessionHeld' /\ CmdInv'
  BY <1>2, <1>8, <1>9 DEF SessionHeld, HeldOpen, CmdInv, Executing, NoSessions
<1>11. Committed' = Committed /\ Committed \subseteq DOMAIN opened
       /\ \A i \in Committed : opened'[i] = opened[i]
  BY <1>3, <1>4, <1>5 DEF Committed
<1>12. OrderInv'
  <2>1. \A i \in Committed, j \in DOMAIN opened : opened[j].state = "open" =>
          ~(/\ opened[i].round = opened[j].round
            /\ \/ Rank[opened[j].order] < Rank[opened[i].order]
               \/ opened[i].order = "NORMAL" /\ opened[j].order = "NORMAL" /\ j < i)
    BY DEF SessionInv, OrderInv, CommitsInOrder
  <2>2. CommitsInOrder'
    BY <1>3, <1>4, <1>5, <1>11, <2>1, SMT DEF SessionInv, OrderInv, CommitsInOrder
  <2> QED BY <1>9, <2>2 DEF OrderInv
<1>13. FailInv'
  BY <1>3, <1>4, <1>5 DEF SessionInv, FailInv, Executing
<1>14. AckInv'
  <2>1. AckedIsDurable'
    BY <1>11, SMT DEF SessionInv, AckInv, AckedIsDurable
  <2> QED BY <1>2, <2>1 DEF AckInv, AwaitedInv, Awaited, DoneInv, Executing
<1> QED BY <1>6, <1>7, <1>10, <1>12, <1>13, <1>14 DEF SessionInv

LEMMA PlanFacts ==
  ASSUME NEW plan \in Plans
  PROVE  /\ Len(plan) \in Nat \ {0} /\ DOMAIN plan = 1..Len(plan)
         /\ \A k \in 1..Len(plan) : plan[k].order \in Orders /\ plan[k].shards \subseteq SessionShards
         /\ plan[Len(plan)].order = "NORMAL"
BY SessionAssumption, SMT DEF Orders, SessionShards

(* What is done stays done while the tablets do nothing.                   *)
LEMMA HasStays ==
  ASSUME UNCHANGED opened, NEW n, NEW part
  PROVE  /\ \A s : Has(n, part, s)' <=> Has(n, part, s)
         /\ HasAll(n, part)' <=> HasAll(n, part)
BY DEF Has, HasAll

LEMMA HeldStays ==
  ASSUME HeldOpen, UNCHANGED <<held, opened, round>>
  PROVE  HeldOpen'
BY DEF HeldOpen, OfRound

LEMMA OrderStays ==
  ASSUME CommitsInOrder, UNCHANGED opened
  PROVE  CommitsInOrder'
BY SMT DEF CommitsInOrder, Committed

LEMMA DurableStays ==
  ASSUME AckedIsDurable, UNCHANGED <<opened, promised>>, \A n \in promised : made'[n] = made[n]
  PROVE  AckedIsDurable'
<1> SUFFICES ASSUME NEW n \in promised, NEW k \in DOMAIN made[n], made[n][k].order # "POST",
                    NEW s \in made[n][k].shards
             PROVE  \E i \in Committed' : /\ opened'[i].shard = s /\ opened'[i].order = made'[n][k].order
                                           /\ n \in opened'[i].did
  BY SMT DEF AckedIsDurable
<1>1. \E i \in Committed : /\ opened[i].shard = s /\ opened[i].order = made[n][k].order
                            /\ n \in opened[i].did
  BY SMT DEF AckedIsDurable
<1>2. Committed' = Committed
  BY DEF Committed
<1> QED BY <1>1, <1>2

LEMMA AwaitedStays ==
  ASSUME AwaitedInv, UNCHANGED opened, Awaited' \subseteq Awaited, \A n \in Awaited : made'[n] = made[n]
  PROVE  AwaitedInv'
<1> SUFFICES ASSUME NEW n \in Awaited', NEW k \in DOMAIN made'[n], made'[n][k].order # "POST"
             PROVE  HasAll(n, made[n][k])'
  BY DEF AwaitedInv
<1>1. n \in Awaited /\ made'[n] = made[n]
  OBVIOUS
<1>2. HasAll(n, made[n][k])
  BY <1>1 DEF AwaitedInv
<1> QED BY <1>1, <1>2, SMT DEF HasAll, Has

(* A DML starts.                                                           *)
LEMMA StartDMLKeeps ==
  ASSUME SessionInv, NEW plan \in Plans, StartDML(plan)
  PROVE  SessionInv'
<1> USE DEF historyVars
<1>1. /\ cmd.step = "idle" /\ UNCHANGED <<held, opened, round, acked, promised, failed, partial>>
      /\ session' = [session EXCEPT !.inTx = TRUE, !.approval = IF Implicit THEN "no" ELSE "yes"]
      /\ cmd' = Statement(plan, 1, TRUE, ~Implicit) /\ made' = Append(made, plan)
  BY DEF StartDML, Command
<1>2. /\ Len(made) \in Nat /\ Len(made') = Len(made) + 1 /\ made' \in Seq(Plans)
      /\ made'[Len(made) + 1] = plan /\ \A n \in 1..Len(made) : made'[n] = made[n]
  BY <1>1, SeqAdd, OpenedFacts, SMT DEF SessionInv, DataTypes
<1>3. /\ \A n \in 1..Len(made) : n \in 1..Len(made') /\ n # Len(made) + 1
      /\ Len(made') # 0 /\ 1 \in Nat /\ 1 \in 1..Len(plan) /\ \A k \in DOMAIN plan : ~(k < 1)
  BY <1>2, PlanFacts, SMT
<1>4. /\ cmd'.step = "scatter" /\ cmd'.plan = plan /\ cmd'.at = 1 /\ cmd'.dml
      /\ cmd'.mustCommit = ~Implicit /\ cmd'.dml = TRUE
  BY <1>1 DEF Statement
<1>5. /\ session'.inTx /\ session'.approval = (IF Implicit THEN "no" ELSE "yes")
      /\ session'.mustRollback = session.mustRollback /\ ~session.mustRollback /\ session.approval = "no"
  BY <1>1 DEF SessionInv, CmdTypes, CmdInv
<1>6. DataTypes'
  BY <1>1, <1>2, <1>3 DEF SessionInv, DataTypes
<1>7. CmdTypes'
  <2>1. session' \in [inTx : BOOLEAN, autocommit : BOOLEAN, mustRollback : BOOLEAN,
                      approval : {"no", "yes", "used"}, single : BOOLEAN]
    BY <1>1 DEF SessionInv, CmdTypes
  <2>2. cmd' \in [step : {"scatter"}, plan : Plans, at : Nat, dml : BOOLEAN, mustCommit : BOOLEAN]
    BY <1>1, <1>3 DEF Statement, Implicit, SessionInv, CmdTypes
  <2> QED BY <1>4, <2>1, <2>2 DEF CmdTypes
<1>8. SessionHeld'
  BY <1>1, <1>4, <1>5, HeldStays DEF SessionInv, SessionHeld
<1>9. CmdInv'
  <2>1. This' \notin failed'
    BY <1>1, <1>2, <1>3 DEF This, SessionInv, DataTypes
  <2> QED BY <1>2, <1>3, <1>4, <1>5, <2>1 DEF CmdInv, Executing, This
<1>10. OrderInv'
  <2>1. ASSUME NEW i \in DOMAIN opened', OfRound(i)' PROVE RoundInv(i)'
    <3>1. RoundInv(i)
      BY <1>1, <2>1 DEF SessionInv, OrderInv, OfRound
    <3> QED BY <1>1, <1>4, <1>5, <3>1 DEF RoundInv, Implicit
  <2>2. CommitsInOrder'
    BY <1>1, OrderStays DEF SessionInv, OrderInv
  <2> QED BY <2>1, <2>2 DEF OrderInv
<1>11. FailInv'
  <2>1. \A i \in DOMAIN opened : This' \notin opened[i].did
    BY <1>2, <1>3 DEF This, SessionInv, DataTypes
  <2> QED BY <1>1, <2>1 DEF SessionInv, FailInv
<1>12. AckInv'
  <2>1. \A n \in promised \cup acked : made'[n] = made[n]
    BY <1>2 DEF SessionInv, DataTypes
  <2>2. AckedIsDurable'
    BY <1>1, <2>1, DurableStays DEF SessionInv, AckInv
  <2>3. Sound /\ Awaited = acked /\ Awaited' = acked
    BY <1>1, <1>4, <1>5 DEF Sound, Awaited
  <2>4. AwaitedInv'
    BY <1>1, <2>1, <2>3, AwaitedStays DEF SessionInv, AckInv
  <2>5. DoneInv'
    BY <1>3, <1>4 DEF DoneInv
  <2> QED BY <2>2, <2>4, <2>5 DEF AckInv
<1> QED BY <1>6, <1>7, <1>8, <1>9, <1>10, <1>11, <1>12 DEF SessionInv

(* The commands that only set out from an idle session.                    *)
LEMMA StartKeeps ==
  ASSUME SessionInv, cmd.step = "idle", UNCHANGED <<held, opened, historyVars>>,
         session' \in [inTx : BOOLEAN, autocommit : BOOLEAN, mustRollback : BOOLEAN,
                      approval : {"no", "yes", "used"}, single : BOOLEAN],
         session.inTx => session'.inTx,
         session'.mustRollback = session.mustRollback, session'.approval = session.approval,
         \/ cmd'.step = "idle"
         \/ \E plan \in Plans : cmd' = Statement(plan, 1, FALSE, FALSE)
         \/ \E then \in {"end", "begin", "autocommit"} : cmd' = Committing(0, then)
  PROVE  SessionInv'
<1> USE DEF historyVars
<1>1. ~session.mustRollback /\ session.approval = "no"
  BY DEF SessionInv, CmdInv
<1>2. \/ cmd'.step = "idle"
      \/ /\ cmd' \in [step : {"scatter"}, plan : Plans, at : {1}, dml : {FALSE}, mustCommit : {FALSE}]
         /\ 1 \in 1..Len(cmd'.plan)
      \/ /\ cmd' \in [step : {"commit"}, stage : {"PRE"}, err : {FALSE}, n : {0},
                      then : {"end", "begin", "autocommit"}]
  <2>1. ASSUME NEW plan \in Plans, cmd' = Statement(plan, 1, FALSE, FALSE)
        PROVE  /\ cmd' \in [step : {"scatter"}, plan : Plans, at : {1}, dml : {FALSE}, mustCommit : {FALSE}]
               /\ 1 \in 1..Len(cmd'.plan)
    <3>1. 1 \in 1..Len(plan)
      BY PlanFacts, SMT
    <3> QED BY <2>1, <3>1 DEF Statement
  <2>2. ASSUME NEW then \in {"end", "begin", "autocommit"}, cmd' = Committing(0, then)
        PROVE  cmd' \in [step : {"commit"}, stage : {"PRE"}, err : {FALSE}, n : {0},
                         then : {"end", "begin", "autocommit"}]
    BY <2>2 DEF Committing
  <2> QED BY <2>1, <2>2
<1>3. DataTypes'
  BY DEF SessionInv, DataTypes
<1>4. CmdTypes'
  <2>1. 1 \in Nat /\ 0 \in Nat
    BY SMT
  <2> QED BY <1>2, <2>1 DEF CmdTypes, Orders
<1>5. SessionHeld'
  BY <1>2, HeldStays DEF SessionInv, SessionHeld
<1>6. CmdInv'
  <2>1. 0 <= This'
    BY OpenedFacts, SMT DEF This, SessionInv
  <2> QED BY <1>1, <1>2, <2>1 DEF CmdInv, Executing
<1>7. OrderInv'
  <2>1. ASSUME NEW i \in DOMAIN opened', OfRound(i)' PROVE RoundInv(i)'
    <3>1. RoundInv(i)
      BY <2>1 DEF SessionInv, OrderInv, OfRound
    <3> QED BY <1>1, <1>2, <3>1 DEF RoundInv
  <2>2. CommitsInOrder'
    BY OrderStays DEF SessionInv, OrderInv
  <2> QED BY <2>1, <2>2 DEF OrderInv
<1>8. FailInv'
  BY <1>2 DEF SessionInv, FailInv, Executing
<1>9. AckInv'
  <2>1. Sound /\ Awaited = acked /\ Awaited' = acked
    BY <1>1, <1>2 DEF Sound, Awaited
  <2>2. AckedIsDurable'
    BY DurableStays DEF SessionInv, AckInv
  <2>3. AwaitedInv'
    BY <2>1, AwaitedStays DEF SessionInv, AckInv
  <2>4. DoneInv'
    BY <1>2 DEF DoneInv, Executing
  <2> QED BY <2>2, <2>3, <2>4 DEF AckInv
<1> QED BY <1>3, <1>4, <1>5, <1>6, <1>7, <1>8, <1>9 DEF SessionInv

(* The other commands of a client.                                         *)
LEMMA CommandKeeps ==
  ASSUME SessionInv,
         \/ \E plan \in Plans : StartDML(plan) \/ StartSelect(plan)
         \/ \E then \in {"end", "begin", "autocommit"} : CommitSession(then)
         \/ StartBegin \/ StartRollback \/ \E on \in BOOLEAN : SetAutocommit(on)
  PROVE  SessionInv'
<1>1. session \in [inTx : BOOLEAN, autocommit : BOOLEAN, mustRollback : BOOLEAN,
                   approval : {"no", "yes", "used"}, single : BOOLEAN]
  BY DEF SessionInv, CmdTypes
<1>2. ASSUME NEW plan \in Plans, StartSelect(plan) PROVE SessionInv'
  BY <1>1, <1>2, StartKeeps DEF StartSelect, Command, Implicit
<1>3. ASSUME NEW then \in {"end", "begin", "autocommit"}, CommitSession(then) PROVE SessionInv'
  BY <1>1, <1>3, StartKeeps DEF CommitSession, Command
<1>4. CASE StartBegin
  BY <1>1, <1>4, StartKeeps DEF StartBegin, Command
<1>5. ASSUME NEW on \in BOOLEAN, SetAutocommit(on) PROVE SessionInv'
  BY <1>1, <1>5, StartKeeps DEF SetAutocommit, Command, Implicit
<1>6. CASE StartRollback
  <2>1. RollbackSession /\ UNCHANGED <<cmd, made, promised, failed, partial>> /\ cmd.step = "idle"
    BY <1>6 DEF StartRollback, Command
  <2>2. failed \subseteq 1..Len(made) /\ partial \subseteq 1..Len(made)
    BY DEF SessionInv, DataTypes
  <2> QED BY <2>1, <2>2, RollbackKeeps
<1> QED BY <1>2, <1>3, <1>4, <1>5, <1>6, StartDMLKeeps

(* The next statement of a plan.                                           *)
LEMMA ScatterKeeps ==
  ASSUME SessionInv, Scatter
  PROVE  SessionInv'
<1> USE DEF historyVars
<1> DEFINE last == cmd.at = Len(cmd.plan)
           auto == cmd'.auto
<1>1. /\ cmd.step = "scatter" /\ UNCHANGED <<held, opened, historyVars>>
      /\ cmd \in [step : {"scatter"}, plan : Plans, at : Nat, dml : BOOLEAN, mustCommit : BOOLEAN]
  BY DEF Scatter, SessionInv, CmdTypes
<1>2. \E b \in BOOLEAN :
        /\ b => last /\ cmd.dml /\ session.approval = "yes"
        /\ session' = [session EXCEPT !.approval = IF ~last THEN "no" ELSE IF b THEN "used" ELSE @]
        /\ cmd' = [step |-> "calls", plan |-> cmd.plan, at |-> cmd.at, dml |-> cmd.dml,
                   mustCommit |-> cmd.mustCommit, auto |-> b, left |-> cmd.plan[cmd.at].shards,
                   ok |-> 0, err |-> FALSE]
  BY DEF Scatter
<1>3. PICK b \in BOOLEAN :
        /\ b => last /\ cmd.dml /\ session.approval = "yes"
        /\ session' = [session EXCEPT !.approval = IF ~last THEN "no" ELSE IF b THEN "used" ELSE @]
        /\ cmd' = [step |-> "calls", plan |-> cmd.plan, at |-> cmd.at, dml |-> cmd.dml,
                   mustCommit |-> cmd.mustCommit, auto |-> b, left |-> cmd.plan[cmd.at].shards,
                   ok |-> 0, err |-> FALSE]
  BY <1>2
<1>4. /\ cmd'.step = "calls" /\ cmd'.plan = cmd.plan /\ cmd'.at = cmd.at /\ cmd'.dml = cmd.dml
      /\ cmd'.mustCommit = cmd.mustCommit /\ cmd'.auto = b /\ cmd'.left = cmd.plan[cmd.at].shards
      /\ cmd'.ok = 0 /\ cmd'.err = FALSE
  BY <1>3
<1>5. /\ session'.inTx = session.inTx /\ session'.mustRollback = session.mustRollback
      /\ session'.approval = IF ~last THEN "no" ELSE IF b THEN "used" ELSE session.approval
  BY <1>3 DEF SessionInv, CmdTypes
<1>6. ~session.mustRollback /\ session.approval # "used" /\ cmd.at \in 1..Len(cmd.plan)
  BY <1>1 DEF SessionInv, CmdInv, Executing
<1>7. cmd.plan[cmd.at].shards \subseteq SessionShards /\ 0 \in Nat
  BY <1>1, <1>6, PlanFacts, SMT
<1>8. DataTypes'
  BY <1>1 DEF SessionInv, DataTypes
<1>9. CmdTypes'
  <2>1. cmd' \in [step : {"calls"}, plan : Plans, at : Nat, dml : BOOLEAN, mustCommit : BOOLEAN,
                auto : BOOLEAN, left : SUBSET SessionShards, ok : Nat, err : BOOLEAN]
    BY <1>1, <1>3, <1>7
  <2>2. session' \in [inTx : BOOLEAN, autocommit : BOOLEAN, mustRollback : BOOLEAN,
                      approval : {"no", "yes", "used"}, single : BOOLEAN]
    BY <1>3 DEF SessionInv, CmdTypes
  <2> QED BY <1>4, <2>1, <2>2 DEF CmdTypes
<1>10. SessionHeld'
  BY <1>1, <1>4, <1>5, HeldStays DEF SessionInv, SessionHeld
<1>11. CmdInv'
  <2>1. cmd.at < Len(cmd.plan) => ~last
    BY <1>1, PlanFacts, SMT
  <2>2. /\ cmd.mustCommit => cmd.dml
        /\ cmd.dml => This # 0 /\ cmd.plan = made[This] /\ session.inTx /\ This \notin failed
        /\ session.approval # "no" => cmd.mustCommit
    BY <1>1 DEF SessionInv, CmdInv, Executing
  <2>3. This' = This /\ made' = made /\ failed' = failed
    BY <1>1 DEF This
  <2> QED BY <1>3, <1>4, <1>5, <1>6, <2>1, <2>2, <2>3, SMT DEF CmdInv, Executing
<1>12. OrderInv'
  <2>1. ASSUME NEW i \in DOMAIN opened', OfRound(i)' PROVE RoundInv(i)'
    <3>1. RoundInv(i)
      BY <1>1, <2>1 DEF SessionInv, OrderInv, OfRound
    <3> QED BY <1>1, <1>3, <1>4, <1>5, <1>6, <3>1, SMT DEF RoundInv
  <2> QED BY <1>1, <2>1, OrderStays DEF SessionInv, OrderInv
<1>13. FailInv'
  <2>1. ASSUME cmd'.dml, NEW i \in DOMAIN opened', This' \in opened'[i].did PROVE DidInv(i)'
    <3>1. DidInv(i)
      BY <1>1, <1>4, <2>1 DEF SessionInv, FailInv, This, Executing
    <3> QED BY <1>1, <1>4, <3>1 DEF DidInv
  <2> QED BY <1>1, <2>1 DEF SessionInv, FailInv
<1>14. AckInv'
  <2>1. Sound /\ Awaited' = Awaited
    BY <1>1, <1>4, <1>6 DEF Sound, Awaited
  <2>2. AckedIsDurable' /\ AwaitedInv'
    BY <1>1, <2>1, DurableStays, AwaitedStays DEF SessionInv, AckInv
  <2>3. DoneInv'
    BY <1>1, <1>4, <2>1, HasStays DEF SessionInv, AckInv, DoneInv, Executing, This
  <2> QED BY <2>2, <2>3 DEF AckInv
<1> QED BY <1>8, <1>9, <1>10, <1>11, <1>12, <1>13, <1>14 DEF SessionInv

(* The end of a scatter without an error.                                  *)
LEMMA ProceedKeeps ==
  ASSUME SessionInv, Proceed
  PROVE  SessionInv'
<1>1. /\ cmd.step = "calls" /\ cmd.left = {} /\ ~cmd.err
      /\ UNCHANGED <<session, held, opened, losses, made, round, promised, failed, partial>>
      /\ cmd \in [step : {"calls"}, plan : Plans, at : Nat, dml : BOOLEAN, mustCommit : BOOLEAN,
                auto : BOOLEAN, left : SUBSET SessionShards, ok : Nat, err : BOOLEAN]
  BY DEF Proceed, SessionInv, CmdTypes
<1>2. ~session.mustRollback /\ cmd.at \in 1..Len(cmd.plan) /\ Len(cmd.plan) \in Nat
      /\ DOMAIN cmd.plan = 1..Len(cmd.plan) /\ This' = This /\ Sound
  BY <1>1, PlanFacts DEF SessionInv, CmdInv, Executing, This, Sound
<1>3. /\ cmd.mustCommit => cmd.dml
      /\ cmd.dml => This # 0 /\ cmd.plan = made[This] /\ session.inTx /\ This \notin failed
      /\ session.approval # "no" => cmd.mustCommit
      /\ cmd.auto => cmd.at = Len(cmd.plan)
      /\ cmd.at < Len(cmd.plan) => session.approval = "no"
  BY <1>1 DEF SessionInv, CmdInv, Executing
<1>4. cmd.dml => \A k \in DOMAIN cmd.plan : k <= cmd.at => HasAll(This, cmd.plan[k])
  <2>1. ASSUME cmd.dml, NEW k \in DOMAIN cmd.plan, k <= cmd.at PROVE HasAll(This, cmd.plan[k])
    <3>1. k < cmd.at \/ k = cmd.at
      BY <1>1, <1>2, <2>1, SMT
    <3> QED BY <1>1, <1>2, <2>1, <3>1 DEF SessionInv, AckInv, DoneInv, Executing, HasAll
  <2> QED BY <2>1
<1>5. \A i \in DOMAIN opened : OfRound(i) =>
        /\ session.inTx /\ opened[i].state \notin {"undone", "lost"}
        /\ opened[i].state = "committed" => session.approval = "used"
        /\ session.approval = "used" => opened[i].state = "committed" /\ opened[i].order = "NORMAL"
  BY <1>1 DEF SessionInv, OrderInv, RoundInv
<1>6. HeldOpen' /\ CommitsInOrder' /\ AckedIsDurable' /\ \A o \in Orders : held[o] # {} => session.inTx
  BY <1>1, HeldStays, OrderStays, DurableStays DEF SessionInv, SessionHeld, OrderInv, AckInv
<1>7. This \in Nat /\ Work \subseteq 1..Len(made) /\ Len(made) = This
  BY <1>3, OpenedFacts, SMT DEF This, Work, SessionInv
<1>8. CASE cmd.at < Len(cmd.plan)
  <2>1. cmd' = Statement(cmd.plan, cmd.at + 1, cmd.dml, cmd.mustCommit) /\ acked' = acked
    BY <1>8 DEF Proceed
  <2>2. /\ cmd'.step = "scatter" /\ cmd'.plan = cmd.plan /\ cmd'.at = cmd.at + 1 /\ cmd'.dml = cmd.dml
        /\ cmd'.mustCommit = cmd.mustCommit
    BY <2>1 DEF Statement
  <2>3. /\ cmd.at + 1 \in 1..Len(cmd.plan) /\ cmd.at + 1 \in Nat /\ cmd.at + 1 > 1
        /\ \A k \in DOMAIN cmd.plan : k < cmd.at + 1 => k <= cmd.at
        /\ ~(cmd.at = Len(cmd.plan))
    BY <1>1, <1>2, <1>8, SMT
  <2>4. DataTypes' /\ CmdTypes'
    <3>1. cmd' \in [step : {"scatter"}, plan : Plans, at : Nat, dml : BOOLEAN, mustCommit : BOOLEAN]
      BY <1>1, <2>1, <2>3 DEF Statement
    <3> QED BY <1>1, <2>1, <2>2, <3>1 DEF SessionInv, DataTypes, CmdTypes
  <2>5. SessionHeld'
    BY <1>1, <1>6, <2>2 DEF SessionHeld
  <2>6. CmdInv'
    BY <1>1, <1>2, <1>3, <1>8, <2>2, <2>3 DEF CmdInv, Executing
  <2>7. OrderInv'
    BY <1>1, <1>3, <1>5, <1>6, <1>8, <2>2 DEF OrderInv, RoundInv, OfRound
  <2>8. FailInv'
    <3>1. ASSUME cmd'.dml, NEW i \in DOMAIN opened', This' \in opened'[i].did PROVE DidInv(i)'
      <4>1. DidInv(i)
        BY <1>1, <1>2, <2>2, <3>1 DEF SessionInv, FailInv, Executing
      <4> QED BY <1>1, <1>3, <2>2, <2>3, <4>1 DEF DidInv
    <3> QED BY <1>1, <3>1 DEF SessionInv, FailInv
  <2>9. AckInv'
    <3>1. Awaited' = Awaited
      BY <1>1, <2>1, <2>2 DEF Awaited
    <3>2. AwaitedInv'
      BY <1>1, <1>2, <3>1, AwaitedStays DEF SessionInv, AckInv
    <3>3. DoneInv'
      BY <1>1, <1>2, <1>4, <2>2, <2>3, HasStays DEF DoneInv
    <3> QED BY <1>6, <3>2, <3>3 DEF AckInv
  <2> QED BY <2>4, <2>5, <2>6, <2>7, <2>8, <2>9 DEF SessionInv
<1>9. CASE ~(cmd.at < Len(cmd.plan))
  <2>1. /\ cmd' = (IF cmd.mustCommit THEN Committing(Len(made), "end") ELSE Rest)
        /\ acked' = IF cmd.mustCommit THEN acked ELSE acked \cup Work
    BY <1>9 DEF Proceed
  <2>2. \/ cmd.mustCommit /\ cmd'.step = "commit" /\ cmd'.stage = "PRE" /\ ~cmd'.err /\ cmd'.n = This
        \/ ~cmd.mustCommit /\ cmd'.step = "idle"
    <3>1. CASE cmd.mustCommit
      BY <2>1, <3>1 DEF Committing, This
    <3>2. CASE ~cmd.mustCommit
      BY <2>1, <3>2 DEF Rest
    <3> QED BY <3>1, <3>2
  <2>3. /\ \A k \in DOMAIN cmd.plan : k <= cmd.at
        /\ This <= This
    BY <1>1, <1>2, <1>7, <1>9, SMT
  <2>4. DataTypes' /\ CmdTypes'
    <3>1. cmd'.step = "commit" => cmd' \in [step : {"commit"}, stage : Orders, err : BOOLEAN, n : Nat,
                                            then : {"end", "begin", "autocommit"}]
      BY <1>7, <2>1, <2>2 DEF Committing, Orders, This
    <3> QED BY <1>1, <1>7, <2>1, <2>2, <3>1 DEF SessionInv, DataTypes, CmdTypes
  <2>5. SessionHeld'
    BY <1>1, <1>6, <2>2 DEF SessionHeld
  <2>6. CmdInv'
    BY <1>1, <1>2, <1>3, <2>2, <2>3 DEF CmdInv, Executing
  <2>7. OrderInv'
    BY <1>1, <1>3, <1>5, <1>6, <2>2 DEF OrderInv, RoundInv, OfRound
  <2>8. FailInv'
    BY <1>1, <2>2 DEF SessionInv, FailInv, Executing
  <2>9. AckInv'
    <3>1. Awaited' \subseteq acked \cup (IF cmd.dml THEN {This} ELSE {})
      BY <1>2, <1>3, <2>1, <2>2 DEF Awaited, Work, This
    <3>2. ASSUME NEW n \in Awaited', NEW k \in DOMAIN made'[n], made'[n][k].order # "POST"
          PROVE  HasAll(n, made[n][k])'
      <4>1. CASE n \in acked
        <5>1. HasAll(n, made[n][k])
          BY <1>1, <1>2, <3>2, <4>1 DEF SessionInv, AckInv, AwaitedInv, Awaited
        <5> QED BY <1>1, <5>1 DEF HasAll, Has
      <4>2. CASE cmd.dml /\ n = This
        <5>1. made[n] = cmd.plan /\ made' = made
          BY <1>1, <1>3, <4>2
        <5>2. HasAll(n, made[n][k])
          BY <1>4, <2>3, <3>2, <4>2, <5>1
        <5> QED BY <1>1, <5>2 DEF HasAll, Has
      <4> QED BY <3>1, <4>1, <4>2
    <3>3. AwaitedInv'
      BY <3>2 DEF AwaitedInv
    <3>4. DoneInv'
      BY <2>2 DEF DoneInv, Executing
    <3> QED BY <1>6, <3>3, <3>4 DEF AckInv
  <2> QED BY <2>4, <2>5, <2>6, <2>7, <2>8, <2>9 DEF SessionInv
<1> QED BY <1>8, <1>9

(* The end of a scatter with an error.                                     *)
LEMMA ScatterFailsKeeps ==
  ASSUME SessionInv, ScatterFails
  PROVE  SessionInv'
<1>1. /\ cmd.step = "calls" /\ cmd' = Rest /\ cmd'.step = "idle"
      /\ UNCHANGED <<made, promised>> /\ failed' = failed \cup Work
      /\ partial' = IF cmd.ok > 0 /\ (cmd.auto \/ ~Undone) THEN partial \cup Work ELSE partial
      /\ cmd \in [step : {"calls"}, plan : Plans, at : Nat, dml : BOOLEAN, mustCommit : BOOLEAN,
                auto : BOOLEAN, left : SUBSET SessionShards, ok : Nat, err : BOOLEAN]
  BY DEF ScatterFails, SessionInv, CmdTypes, Rest
<1>2. /\ cmd.mustCommit => cmd.dml
      /\ cmd.dml => This # 0 /\ cmd.plan = made[This] /\ session.inTx /\ This \notin failed
      /\ session.approval # "no" => cmd.mustCommit
      /\ cmd.auto => session.approval = "used"
      /\ session.mustRollback => session.inTx
  BY <1>1 DEF SessionInv, CmdInv, Executing
<1>3. Work \subseteq {This} /\ Work \subseteq 1..Len(made) /\ (Work # {} => cmd.dml)
  BY <1>2, OpenedFacts, SMT DEF Work, This, SessionInv
<1>4. /\ failed' \subseteq 1..Len(made) /\ partial' \subseteq 1..Len(made)
      /\ partial \subseteq partial'
  BY <1>1, <1>3 DEF SessionInv, DataTypes
<1>5. cmd.dml => \A i \in DOMAIN opened : This \in opened[i].did => DidInv(i)
  BY <1>1 DEF SessionInv, FailInv, Executing
<1>6. CASE session.inTx /\ Undone
  <2>1. RollbackSession
    BY <1>6 DEF ScatterFails
  <2>2. ASSUME NEW n \in failed' \ partial', NEW i \in DOMAIN opened, n \notin failed, n \in opened[i].did
        PROVE  opened[i].state = "open"
    <3>1. n = This /\ cmd.dml /\ n \in Work
      BY <1>1, <1>3, <2>2
    <3>2. ~(cmd.auto /\ (cmd.ok > 0 \/ This \in partial))
      BY <1>1, <2>2, <3>1
    <3> QED BY <1>5, <2>2, <3>1, <3>2 DEF DidInv
  <2> QED BY <1>1, <1>4, <2>1, <2>2, RollbackKeeps
<1>7. CASE ~(session.inTx /\ Undone)
  <2>1. UNCHANGED <<session, held, opened, acked, round>>
    BY <1>7 DEF ScatterFails
  <2>2. ~session.mustRollback /\ session.approval = "no" /\ ~cmd.auto
        /\ (cmd.dml => ~(cmd.at > 1) /\ ~Undone)
    BY <1>2, <1>7 DEF Undone
  <2>3. DataTypes' /\ CmdTypes'
    BY <1>1, <1>4, <2>1 DEF SessionInv, DataTypes, CmdTypes
  <2>4. SessionHeld' /\ CmdInv'
    BY <1>1, <2>1, <2>2, HeldStays DEF SessionInv, SessionHeld, CmdInv, Executing
  <2>5. OrderInv'
    <3>1. ASSUME NEW i \in DOMAIN opened', OfRound(i)' PROVE RoundInv(i)'
      <4>1. RoundInv(i)
        BY <2>1, <3>1 DEF SessionInv, OrderInv, OfRound
      <4> QED BY <1>1, <2>1, <2>2, <4>1 DEF RoundInv
    <3> QED BY <2>1, <3>1, OrderStays DEF SessionInv, OrderInv
  <2>6. FailInv'
    <3>1. ASSUME NEW n \in failed' \ partial', NEW i \in DOMAIN opened, n \in opened[i].did
          PROVE  FALSE
      <4>1. n \notin failed
        BY <1>4, <3>1 DEF SessionInv, FailInv
      <4>2. n = This /\ cmd.dml /\ n \in Work
        BY <1>1, <1>3, <3>1, <4>1
      <4>3. ~(cmd.ok > 0) /\ This \notin partial
        BY <1>1, <1>4, <2>2, <3>1, <4>2
      <4> QED BY <1>5, <2>2, <3>1, <4>2, <4>3 DEF DidInv
    <3> QED BY <1>1, <2>1, <3>1 DEF FailInv, Executing
  <2>7. AckInv'
    <3>1. Sound /\ Awaited' = Awaited
      BY <1>1, <2>1, <2>2 DEF Sound, Awaited
    <3>2. AckedIsDurable' /\ AwaitedInv'
      BY <1>1, <2>1, <3>1, DurableStays, AwaitedStays DEF SessionInv, AckInv
    <3>3. DoneInv'
      BY <1>1 DEF DoneInv, Executing
    <3> QED BY <3>2, <3>3 DEF AckInv
  <2> QED BY <2>3, <2>4, <2>5, <2>6, <2>7 DEF SessionInv
<1> QED BY <1>6, <1>7

(* The next stage of a commit.                                             *)
LEMMA CommitStageKeeps ==
  ASSUME SessionInv, CommitStage
  PROVE  SessionInv'
<1> USE DEF historyVars
<1>1. /\ cmd.step = "commit" /\ ~cmd.err /\ cmd.stage # "POST" /\ held[cmd.stage] = {}
      /\ cmd' = [cmd EXCEPT !.stage = IF @ = "PRE" THEN "NORMAL" ELSE "POST"]
      /\ UNCHANGED <<session, held, opened, historyVars>>
      /\ cmd \in [step : {"commit"}, stage : Orders, err : BOOLEAN, n : Nat,
                then : {"end", "begin", "autocommit"}]
  BY DEF CommitStage, SessionInv, CmdTypes
<1>2. /\ cmd' \in [step : {"commit"}, stage : Orders, err : BOOLEAN, n : Nat,
                then : {"end", "begin", "autocommit"}]
      /\ cmd'.step = "commit" /\ cmd'.err = cmd.err /\ cmd'.n = cmd.n
      /\ cmd'.stage = IF cmd.stage = "PRE" THEN "NORMAL" ELSE "POST"
  BY <1>1 DEF Orders
<1>3. cmd.stage = "PRE" \/ cmd.stage = "NORMAL"
  BY <1>1 DEF Orders
<1>4. DataTypes' /\ CmdTypes'
  BY <1>1, <1>2 DEF SessionInv, DataTypes, CmdTypes
<1>5. SessionHeld'
  BY <1>1, <1>2, <1>3, HeldStays DEF SessionInv, SessionHeld
<1>6. CmdInv'
  BY <1>1, <1>2 DEF SessionInv, CmdInv, Executing, This
<1>7. OrderInv'
  <2>1. ASSUME NEW i \in DOMAIN opened', OfRound(i)' PROVE RoundInv(i)'
    <3>1. RoundInv(i)
      BY <1>1, <2>1 DEF SessionInv, OrderInv, OfRound
    <3> QED BY <1>1, <1>2, <3>1 DEF RoundInv
  <2> QED BY <1>1, <2>1, OrderStays DEF SessionInv, OrderInv
<1>8. FailInv'
  BY <1>1, <1>2 DEF SessionInv, FailInv, Executing
<1>9. AckInv'
  <2>1. Sound /\ Awaited' = Awaited
    BY <1>1, <1>2 DEF Sound, Awaited, SessionInv, CmdInv
  <2>2. AckedIsDurable' /\ AwaitedInv'
    BY <1>1, <2>1, DurableStays, AwaitedStays DEF SessionInv, AckInv
  <2>3. DoneInv'
    BY <1>2 DEF DoneInv, Executing
  <2> QED BY <2>2, <2>3 DEF AckInv
<1> QED BY <1>4, <1>5, <1>6, <1>7, <1>8, <1>9 DEF SessionInv

(* A commit that failed before its last stage.                             *)
LEMMA CommitFailsKeeps ==
  ASSUME SessionInv, CommitFails
  PROVE  SessionInv'
<1>1. /\ cmd.step = "commit" /\ RollbackSession /\ cmd' = Rest /\ UNCHANGED <<made, promised>>
      /\ failed' = IF cmd.n = 0 THEN failed ELSE failed \cup {cmd.n}
      /\ partial' = IF cmd.n = 0 THEN partial ELSE partial \cup {cmd.n}
  BY DEF CommitFails
<1>2. cmd.n \in Nat /\ cmd.n <= Len(made) /\ cmd'.step = "idle"
  BY <1>1 DEF SessionInv, CmdTypes, CmdInv, This, Rest
<1>3. cmd.n # 0 => cmd.n \in 1..Len(made)
  BY <1>2, OpenedFacts, SMT DEF SessionInv
<1>4. /\ failed' \subseteq 1..Len(made) /\ partial' \subseteq 1..Len(made)
      /\ partial \subseteq partial' /\ failed' \ partial' \subseteq failed
  BY <1>1, <1>3 DEF SessionInv, DataTypes
<1> QED BY <1>1, <1>2, <1>4, RollbackKeeps

(* What a call of shard s leaves of the tablets' transactions, with the    *)
(* answer ok: what there is stays what it is, and only what the session    *)
(* holds open takes the DML or, if it is to be rolled back, loses all.     *)
OldTx(i) ==
  /\ opened'[i].shard = opened[i].shard /\ opened'[i].order = opened[i].order
  /\ opened'[i].round = opened[i].round /\ opened'[i].state = opened[i].state
  /\ \/ opened'[i].did = opened[i].did
     \/ /\ opened[i].state = "open" /\ ~cmd.auto
        /\ \/ opened'[i].did = opened[i].did \cup Work
           \/ opened'[i].did = {} /\ session'.mustRollback
NewTx(i, s) ==
  /\ opened'[i].shard = s /\ opened'[i].order = Order /\ opened'[i].round = round
  /\ opened'[i].state = "committed" \/ (~cmd.auto /\ opened'[i].state \in {"open", "stray"})
  /\ opened'[i].state = "committed" => cmd.auto
  /\ opened'[i].did \in {Work, {}} /\ (opened'[i].state = "stray" => opened'[i].did = {})
  /\ opened'[i].state = "open" => i \in held'[Order]
Called(s, ok) ==
  /\ opened' \in Seq(TabletTx) /\ DOMAIN opened \subseteq DOMAIN opened'
  /\ \A i \in DOMAIN opened : OldTx(i)
  /\ \A i \in DOMAIN opened' \ DOMAIN opened : NewTx(i, s) /\ session.inTx
  /\ held' \in [Orders -> SUBSET Nat]
  /\ \A o \in Orders : /\ held[o] \subseteq held'[o]
                       /\ \A i \in held'[o] \ held[o] :
                            i \in DOMAIN opened' \ DOMAIN opened /\ o = Order /\ opened'[i].state = "open"
  /\ partial' \in {partial, partial \cup Work}
  /\ \A i \in DOMAIN opened' : cmd.dml /\ This \in opened'[i].did =>
       \/ ok \/ This \in partial' \/ (session'.mustRollback /\ ~cmd.auto)
       \/ i \in DOMAIN opened /\ This \in opened[i].did
  /\ ok /\ cmd.dml => \E i \in DOMAIN opened' :
       /\ opened'[i].shard = s /\ opened'[i].order = Order /\ This \in opened'[i].did
       /\ opened'[i].state \in {"open", "committed"}

(* The answer of a call.                                                   *)
LEMMA AnswerFacts ==
  ASSUME SessionInv, cmd.step = "calls", NEW s \in cmd.left, NEW ok \in BOOLEAN, NEW fatal \in BOOLEAN,
         Answer(s, ok, fatal)
  PROVE  /\ cmd' \in [step : {"calls"}, plan : Plans, at : Nat, dml : BOOLEAN, mustCommit : BOOLEAN,
                      auto : BOOLEAN, left : SUBSET SessionShards, ok : Nat, err : BOOLEAN]
         /\ cmd'.step = "calls" /\ cmd'.plan = cmd.plan /\ cmd'.at = cmd.at /\ cmd'.dml = cmd.dml
         /\ cmd'.mustCommit = cmd.mustCommit /\ cmd'.auto = cmd.auto
         /\ cmd'.left = cmd.left \ {s} /\ (cmd'.err <=> cmd.err \/ ~ok)
         /\ cmd.ok > 0 => cmd'.ok > 0
         /\ ok => cmd'.ok > 0
         /\ session' \in [inTx : BOOLEAN, autocommit : BOOLEAN, mustRollback : BOOLEAN,
                          approval : {"no", "yes", "used"}, single : BOOLEAN]
         /\ session'.inTx = session.inTx /\ session'.approval = session.approval
         /\ session'.mustRollback <=> session.mustRollback \/ (fatal /\ session.inTx)
         /\ UNCHANGED <<made, round, acked, promised, failed>>
         /\ cmd \in [step : {"calls"}, plan : Plans, at : Nat, dml : BOOLEAN, mustCommit : BOOLEAN,
                     auto : BOOLEAN, left : SUBSET SessionShards, ok : Nat, err : BOOLEAN]
<1>1. cmd \in [step : {"calls"}, plan : Plans, at : Nat, dml : BOOLEAN, mustCommit : BOOLEAN,
               auto : BOOLEAN, left : SUBSET SessionShards, ok : Nat, err : BOOLEAN]
  BY DEF SessionInv, CmdTypes
<1>2. session \in [inTx : BOOLEAN, autocommit : BOOLEAN, mustRollback : BOOLEAN,
                   approval : {"no", "yes", "used"}, single : BOOLEAN]
  BY DEF SessionInv, CmdTypes
<1>3. /\ cmd' = [cmd EXCEPT !.left = @ \ {s}, !.ok = IF ok THEN @ + 1 ELSE @, !.err = @ \/ ~ok]
      /\ session' = [session EXCEPT !.mustRollback = @ \/ (fatal /\ session.inTx)]
      /\ UNCHANGED <<made, round, acked, promised, failed>>
  BY DEF Answer
<1>4. /\ cmd'.step = "calls" /\ cmd'.plan = cmd.plan /\ cmd'.at = cmd.at /\ cmd'.dml = cmd.dml
      /\ cmd'.mustCommit = cmd.mustCommit /\ cmd'.auto = cmd.auto
      /\ cmd'.left = cmd.left \ {s} /\ cmd'.err = (cmd.err \/ ~ok)
      /\ cmd'.ok = IF ok THEN cmd.ok + 1 ELSE cmd.ok
  BY <1>1, <1>3
<1>5. cmd'.ok \in Nat /\ (cmd.ok > 0 => cmd'.ok > 0) /\ (ok => cmd'.ok > 0)
  BY <1>1, <1>4, SMT
<1>6. cmd' \in [step : {"calls"}, plan : Plans, at : Nat, dml : BOOLEAN, mustCommit : BOOLEAN,
                auto : BOOLEAN, left : SUBSET SessionShards, ok : Nat, err : BOOLEAN]
  <2>1. cmd' = [cmd EXCEPT !.left = cmd'.left, !.ok = cmd'.ok, !.err = cmd'.err]
    BY <1>1, <1>3, <1>4
  <2>2. cmd'.left \in SUBSET SessionShards /\ cmd'.err \in BOOLEAN
    BY <1>1, <1>4
  <2> QED BY <1>1, <1>5, <2>1, <2>2
<1>7. /\ session'.inTx = session.inTx /\ session'.approval = session.approval
      /\ session'.mustRollback = (session.mustRollback \/ (fatal /\ session.inTx))
      /\ session' \in [inTx : BOOLEAN, autocommit : BOOLEAN, mustRollback : BOOLEAN,
                       approval : {"no", "yes", "used"}, single : BOOLEAN]
  BY <1>2, <1>3
<1> QED BY <1>1, <1>3, <1>4, <1>5, <1>6, <1>7

(* A call keeps the invariant.                                             *)
LEMMA CalledKeeps ==
  ASSUME SessionInv, cmd.step = "calls", NEW s \in cmd.left, NEW ok \in BOOLEAN, NEW fatal \in BOOLEAN,
         ok => ~fatal, Answer(s, ok, fatal), Called(s, ok)
  PROVE  SessionInv'
<1>1. /\ cmd' \in [step : {"calls"}, plan : Plans, at : Nat, dml : BOOLEAN, mustCommit : BOOLEAN,
                   auto : BOOLEAN, left : SUBSET SessionShards, ok : Nat, err : BOOLEAN]
      /\ session' \in [inTx : BOOLEAN, autocommit : BOOLEAN, mustRollback : BOOLEAN,
                       approval : {"no", "yes", "used"}, single : BOOLEAN]
  BY AnswerFacts
<1>2. /\ cmd'.step = "calls" /\ cmd'.plan = cmd.plan /\ cmd'.at = cmd.at /\ cmd'.dml = cmd.dml
      /\ cmd'.mustCommit = cmd.mustCommit /\ cmd'.auto = cmd.auto
      /\ cmd'.left = cmd.left \ {s} /\ (cmd'.err <=> cmd.err \/ ~ok)
      /\ cmd.ok > 0 => cmd'.ok > 0
      /\ ok => cmd'.ok > 0
  BY AnswerFacts
<1>3. /\ session'.inTx = session.inTx /\ session'.approval = session.approval
      /\ session'.mustRollback <=> session.mustRollback \/ (fatal /\ session.inTx)
      /\ UNCHANGED <<made, round, acked, promised, failed>> /\ This' = This
  BY AnswerFacts DEF This
<1>4. cmd \in [step : {"calls"}, plan : Plans, at : Nat, dml : BOOLEAN, mustCommit : BOOLEAN,
               auto : BOOLEAN, left : SUBSET SessionShards, ok : Nat, err : BOOLEAN]
  BY AnswerFacts
<1>5. /\ cmd.at \in 1..Len(cmd.plan)
      /\ cmd.dml => This # 0 /\ cmd.plan = made[This] /\ session.inTx /\ This \notin failed
      /\ cmd.auto <=> session.approval = "used"
      /\ cmd.auto => cmd.at = Len(cmd.plan) /\ cmd.dml
  BY DEF SessionInv, CmdInv, Executing
<1>6. Order \in Orders /\ (cmd.auto => Order = "NORMAL")
  BY <1>4, <1>5, PlanFacts DEF Order
<1>7. Work \subseteq {This} /\ Work \subseteq 1..Len(made) /\ (Work # {} => cmd.dml)
  BY <1>5, OpenedFacts, SMT DEF Work, This, SessionInv
<1>8. /\ opened' \in Seq(TabletTx) /\ DOMAIN opened \subseteq DOMAIN opened'
      /\ \A i \in DOMAIN opened : OldTx(i)
      /\ \A i \in DOMAIN opened' \ DOMAIN opened : NewTx(i, s) /\ session.inTx
  BY DEF Called
<1>9. /\ held' \in [Orders -> SUBSET Nat]
      /\ \A o \in Orders : /\ held[o] \subseteq held'[o]
                           /\ \A i \in held'[o] \ held[o] :
                                /\ i \in DOMAIN opened' \ DOMAIN opened /\ o = Order
                                /\ opened'[i].state = "open"
  BY DEF Called
<1>10. /\ partial' \in {partial, partial \cup Work} /\ partial \subseteq partial'
       /\ \A i \in DOMAIN opened' : cmd.dml /\ This \in opened'[i].did =>
            \/ ok \/ This \in partial' \/ (session'.mustRollback /\ ~cmd.auto)
            \/ i \in DOMAIN opened /\ This \in opened[i].did
       /\ ok /\ cmd.dml => \E i \in DOMAIN opened' :
            /\ opened'[i].shard = s /\ opened'[i].order = Order /\ This \in opened'[i].did
            /\ opened'[i].state \in {"open", "committed"}
  BY DEF Called
<1>11. DataTypes'
  <2>1. \A i \in DOMAIN opened' : opened'[i].did \subseteq 1..Len(made)
    BY <1>7, <1>8 DEF OldTx, NewTx, SessionInv, DataTypes
  <2> QED BY <1>3, <1>7, <1>8, <1>9, <1>10, <2>1 DEF SessionInv, DataTypes
<1>12. CmdTypes'
  BY <1>1, <1>2 DEF CmdTypes
<1>13. SessionHeld'
  <2>1. ASSUME NEW o \in Orders, NEW i \in held'[o]
        PROVE  /\ i \in DOMAIN opened' /\ opened'[i].order = o /\ opened'[i].state = "open"
               /\ OfRound(i)' /\ session'.inTx
    <3>1. CASE i \in held[o]
      BY <1>3, <1>8, <3>1, SMT DEF OldTx, OfRound, SessionInv, SessionHeld, HeldOpen
    <3>2. CASE i \notin held[o]
      BY <1>3, <1>8, <1>9, <2>1, <3>2 DEF NewTx, OfRound
    <3> QED BY <3>1, <3>2
  <2>2. ASSUME NEW i \in DOMAIN opened', opened'[i].state = "open" PROVE i \in held'[opened'[i].order]
    <3>1. CASE i \in DOMAIN opened
      <4>1. opened[i].order \in Orders /\ i \in held[opened[i].order]
        BY <1>8, <2>2, <3>1, OpenedFacts DEF OldTx, SessionInv, SessionHeld, HeldOpen, TabletTx
      <4> QED BY <1>8, <1>9, <3>1, <4>1 DEF OldTx
    <3>2. CASE i \notin DOMAIN opened
      BY <1>8, <2>2, <3>2 DEF NewTx
    <3> QED BY <3>1, <3>2
  <2>3. \A i \in DOMAIN opened' : opened'[i].round <= round'
    <3>1. round <= round
      BY SMT DEF SessionInv, DataTypes
    <3> QED BY <1>3, <1>8, <3>1, SMT DEF OldTx, NewTx, SessionInv, SessionHeld, HeldOpen
  <2> QED BY <1>2, <2>1, <2>2, <2>3 DEF SessionHeld, HeldOpen
<1>14. CmdInv'
  BY <1>2, <1>3, SMT DEF SessionInv, CmdInv, Executing
<1>15. OrderInv'
  <2>1. ASSUME NEW i \in DOMAIN opened', OfRound(i)'
        PROVE  RoundInv(i)' /\ opened'[i].state \notin {"undone", "lost"}
               /\ (opened'[i].state = "committed" <=> cmd.auto)
               /\ (opened'[i].state = "committed" => opened'[i].order = "NORMAL")
    <3>1. CASE i \in DOMAIN opened
      <4>1. RoundInv(i) /\ OldTx(i)
        BY <1>3, <1>8, <2>1, <3>1 DEF SessionInv, OrderInv, OfRound, OldTx
      <4> QED BY <1>2, <1>3, <1>5, <4>1, SMT DEF RoundInv, OldTx
    <3>2. CASE i \notin DOMAIN opened
      <4>1. NewTx(i, s) /\ session.inTx
        BY <1>8, <3>2
      <4> QED BY <1>2, <1>3, <1>5, <1>6, <4>1, SMT DEF RoundInv, NewTx
    <3> QED BY <3>1, <3>2
  <2>2. ASSUME NEW i \in Committed', NEW j \in DOMAIN opened', opened'[i].round = opened'[j].round,
               \/ Rank[opened'[j].order] < Rank[opened'[i].order]
               \/ opened'[i].order = "NORMAL" /\ opened'[j].order = "NORMAL" /\ j < i
        PROVE  opened'[j].state \in {"committed", "stray"}
    <3>1. i \in DOMAIN opened' /\ opened'[i].state = "committed"
      BY DEF Committed
    <3>2. CASE opened'[i].round = round
      <4>1. OfRound(i)' /\ OfRound(j)'
        BY <1>3, <2>2, <3>2 DEF OfRound
      <4> QED BY <2>1, <3>1, <4>1
    <3>3. CASE opened'[i].round # round
      <4>1. i \in DOMAIN opened /\ j \in DOMAIN opened
        BY <1>8, <2>2, <3>1, <3>3 DEF NewTx
      <4>2. OldTx(i) /\ OldTx(j)
        BY <1>8, <4>1
      <4>3. /\ i \in Committed /\ opened[i].round = opened[j].round
            /\ \/ Rank[opened[j].order] < Rank[opened[i].order]
               \/ opened[i].order = "NORMAL" /\ opened[j].order = "NORMAL" /\ j < i
        BY <2>2, <3>1, <4>1, <4>2 DEF OldTx, Committed
      <4>4. opened[j].state \in {"committed", "stray"}
        BY <4>1, <4>3 DEF SessionInv, OrderInv, CommitsInOrder
      <4> QED BY <4>2, <4>4 DEF OldTx
    <3> QED BY <3>2, <3>3
  <2>3. CommitsInOrder'
    BY <2>2, SMT DEF CommitsInOrder
  <2> QED BY <2>1, <2>3 DEF OrderInv
<1>16. FailInv'
  <2>1. ASSUME NEW n \in failed' \ partial', NEW i \in DOMAIN opened' PROVE n \notin opened'[i].did
    <3>1. n \in failed \ partial /\ n \notin Work
      BY <1>3, <1>5, <1>7, <1>10
    <3> QED BY <1>8, <3>1, SMT DEF OldTx, NewTx, SessionInv, FailInv
  <2>2. ASSUME cmd'.dml, NEW i \in DOMAIN opened', This' \in opened'[i].did PROVE DidInv(i)'
    <3>1. /\ cmd.dml /\ This \in opened'[i].did
          /\ \/ ok \/ This \in partial' \/ (session'.mustRollback /\ ~cmd.auto)
             \/ i \in DOMAIN opened /\ This \in opened[i].did
      BY <1>2, <1>3, <1>10, <2>2
    <3>2. CASE i \in DOMAIN opened /\ This \in opened[i].did
      <4>1. DidInv(i) /\ OldTx(i)
        BY <1>8, <3>1, <3>2 DEF SessionInv, FailInv, Executing
      <4> QED BY <1>2, <1>3, <1>10, <4>1, SMT DEF DidInv, OldTx
    <3>3. CASE ~(i \in DOMAIN opened /\ This \in opened[i].did)
      <4>1. opened'[i].state = "open" \/ cmd.auto
        <5>1. CASE i \in DOMAIN opened
          BY <1>8, <3>1, <3>3, <5>1 DEF OldTx
        <5>2. CASE i \notin DOMAIN opened
          BY <1>8, <3>1, <5>2, SMT DEF NewTx
        <5> QED BY <5>1, <5>2
      <4> QED BY <1>2, <1>3, <3>1, <3>3, <4>1 DEF DidInv
    <3> QED BY <3>2, <3>3
  <2> QED BY <1>2, <2>1, <2>2 DEF FailInv
<1>17. AckInv'
  <2>1. AckedIsDurable'
    <3>1. ASSUME NEW i \in Committed PROVE i \in Committed' /\ OldTx(i) /\ opened'[i].did = opened[i].did
      BY <1>8 DEF OldTx, Committed
    <3> QED BY <1>3, <3>1, SMT DEF SessionInv, AckInv, AckedIsDurable, OldTx
  <2>2. ASSUME ~session'.mustRollback, NEW n, NEW part, NEW t, Has(n, part, t) PROVE Has(n, part, t)'
    <3>1. PICK i \in DOMAIN opened : /\ opened[i].shard = t /\ opened[i].order = part.order /\ n \in opened[i].did
                                      /\ opened[i].state \in {"open", "committed"}
      BY <2>2 DEF Has
    <3>2. i \in DOMAIN opened' /\ OldTx(i)
      BY <1>8
    <3>3. n \in opened'[i].did
      BY <2>2, <3>1, <3>2 DEF OldTx
    <3> QED BY <3>1, <3>2, <3>3 DEF OldTx, Has
  <2>3. ASSUME Sound' PROVE AwaitedInv' /\ DoneInv'
    <3>1. ~session'.mustRollback /\ Sound /\ Awaited' = Awaited
      BY <1>2, <1>3, <2>3 DEF Sound, Awaited
    <3>2. AwaitedInv /\ DoneInv
      BY <3>1 DEF SessionInv, AckInv
    <3>3. ASSUME NEW n \in Awaited', NEW k \in DOMAIN made'[n], made'[n][k].order # "POST"
          PROVE  HasAll(n, made[n][k])'
      <4>1. HasAll(n, made[n][k])
        BY <1>3, <3>1, <3>2, <3>3 DEF AwaitedInv
      <4> QED BY <1>3, <2>2, <3>1, <4>1 DEF HasAll
    <3>4. ASSUME cmd'.dml, NEW k \in DOMAIN cmd'.plan, k < cmd'.at PROVE HasAll(This, cmd.plan[k])'
      <4>1. HasAll(This, cmd.plan[k])
        BY <1>2, <3>2, <3>4 DEF DoneInv, Executing
      <4> QED BY <1>2, <1>3, <2>2, <3>1, <4>1 DEF HasAll
    <3>5. ASSUME cmd'.dml, ~cmd'.err, NEW t \in cmd'.plan[cmd'.at].shards \ cmd'.left
          PROVE  Has(This, cmd.plan[cmd.at], t)'
      <4>1. CASE t = s
        BY <1>2, <1>3, <1>10, <3>5, <4>1 DEF Has, Order
      <4>2. CASE t # s
        <5>1. Has(This, cmd.plan[cmd.at], t)
          BY <1>2, <3>2, <3>5, <4>2 DEF DoneInv, Executing
        <5> QED BY <1>2, <1>3, <2>2, <3>1, <5>1
      <4> QED BY <4>1, <4>2
    <3> QED BY <3>3, <3>4, <3>5 DEF AwaitedInv, DoneInv
  <2> QED BY <2>1, <2>3 DEF AckInv
<1> QED BY <1>11, <1>12, <1>13, <1>14, <1>15, <1>16, <1>17 DEF SessionInv

(* A call that leaves no trace.                                            *)
LEMMA NoTrace ==
  ASSUME SessionInv, cmd.step = "calls", NEW s \in cmd.left, NEW ok \in BOOLEAN, NEW fatal \in BOOLEAN,
         ok => ~fatal /\ ~session.inTx, Answer(s, ok, fatal), UNCHANGED <<held, opened, partial>>
  PROVE  SessionInv'
<1>1. ok => ~cmd.dml
  BY DEF SessionInv, CmdInv, Executing
<1>2. Called(s, ok)
  BY <1>1 DEF Called, OldTx, SessionInv, DataTypes
<1> QED BY <1>2, CalledKeeps

(* A call that opens a transaction on the tablet.                          *)
LEMMA Opens ==
  ASSUME SessionInv, cmd.step = "calls", NEW s \in cmd.left, NEW ok \in BOOLEAN, NEW fatal \in BOOLEAN,
         ok => ~fatal, session.inTx, Answer(s, ok, fatal),
         NEW now, NEW did \in {Work, {}}, opened' = Append(opened, OpenedTx(s, now, did)),
         \/ cmd.auto /\ now = "committed" /\ held' = held
         \/ ~cmd.auto /\ now = "stray" /\ held' = held /\ did = {}
         \/ ~cmd.auto /\ now = "open" /\ held' = [held EXCEPT ![Order] = @ \cup {Len(opened) + 1}],
         partial' \in {partial, partial \cup Work},
         cmd.dml /\ did # {} => ok \/ Work \subseteq partial' \/ (fatal /\ ~cmd.auto),
         ok => did = Work /\ now # "stray"
  PROVE  SessionInv'
<1> DEFINE new == Len(opened) + 1
<1>1. /\ cmd.at \in 1..Len(cmd.plan) /\ cmd.plan \in Plans
      /\ cmd.dml => This # 0
  BY DEF SessionInv, CmdInv, Executing, CmdTypes
<1>2. Order \in Orders /\ cmd.left \subseteq SessionShards
  BY <1>1, PlanFacts DEF Order, SessionInv, CmdTypes
<1>3. Work \subseteq {This} /\ Work \subseteq Nat /\ (Work # {} => cmd.dml) /\ (cmd.dml => This \in Work)
  BY <1>1, OpenedFacts, SMT DEF Work, This, SessionInv
<1>4. OpenedTx(s, now, did) \in TabletTx
  BY <1>2, <1>3 DEF OpenedTx, TabletTx, TxStates, SessionInv, DataTypes
<1>5. /\ opened' \in Seq(TabletTx) /\ DOMAIN opened' = DOMAIN opened \cup {new} /\ new \notin DOMAIN opened
      /\ \A i \in DOMAIN opened : opened'[i] = opened[i]
      /\ opened'[new] = OpenedTx(s, now, did) /\ new \in Nat
  BY <1>4, SeqAdd, OpenedFacts, SMT DEF SessionInv, DataTypes
<1>6. /\ opened'[new].shard = s /\ opened'[new].order = Order /\ opened'[new].round = round
      /\ opened'[new].state = now /\ opened'[new].did = did
  BY <1>5, SMT DEF OpenedTx
<1>7. /\ held' \in [Orders -> SUBSET Nat]
      /\ \A o \in Orders : /\ held[o] \subseteq held'[o]
                           /\ \A i \in held'[o] \ held[o] : i = new /\ o = Order /\ now = "open"
      /\ now = "open" => new \in held'[Order]
  <2>1. held \in [Orders -> SUBSET Nat]
    BY DEF SessionInv, DataTypes
  <2>2. CASE held' = held /\ now # "open"
    BY <2>1, <2>2
  <2>3. CASE now = "open" /\ held' = [held EXCEPT ![Order] = @ \cup {new}]
    BY <1>2, <1>5, <2>1, <2>3
  <2> QED BY <2>2, <2>3
<1>8. session'.mustRollback <=> session.mustRollback \/ fatal
  BY AnswerFacts
<1>9. Called(s, ok)
  <2>1. \A i \in DOMAIN opened : OldTx(i)
    BY <1>5 DEF OldTx
  <2>2. NewTx(new, s)
    BY <1>6, <1>7 DEF NewTx
  <2>3. \A i \in DOMAIN opened' : cmd.dml /\ This \in opened'[i].did =>
          \/ ok \/ This \in partial' \/ (session'.mustRollback /\ ~cmd.auto)
          \/ i \in DOMAIN opened /\ This \in opened[i].did
    <3>1. cmd.dml /\ This \in did => ok \/ This \in partial' \/ (session'.mustRollback /\ ~cmd.auto)
      <4>1. cmd.dml /\ This \in did => ok \/ This \in partial' \/ (fatal /\ ~cmd.auto)
        BY <1>3
      <4> QED BY <1>8, <4>1
    <3> QED BY <1>5, <1>6, <3>1, SMT
  <2>4. ok /\ cmd.dml => /\ new \in DOMAIN opened' /\ This \in opened'[new].did
                         /\ opened'[new].state \in {"open", "committed"}
    BY <1>3, <1>5, <1>6, SMT
  <2> QED BY <1>5, <1>6, <1>7, <2>1, <2>2, <2>3, <2>4, SMT DEF Called
<1> QED BY <1>9, CalledKeeps

(* A call in the transaction i that the session holds of the shard.        *)
LEMMA InTxKeeps ==
  ASSUME SessionInv, cmd.step = "calls", NEW s \in cmd.left, NEW i \in Found(s), ~cmd.auto,
         NEW ok \in BOOLEAN, NEW fatal \in BOOLEAN, ok => ~fatal, session.inTx,
         Answer(s, ok, fatal), NEW did, opened' = [opened EXCEPT ![i].did = did], held' = held,
         \/ did = opened[i].did \cup Work /\ (ok \/ Work \subseteq partial')
         \/ ~ok /\ fatal /\ did = {},
         partial' \in {partial, partial \cup Work}
  PROVE  SessionInv'
<1>1. /\ cmd.at \in 1..Len(cmd.plan) /\ cmd.plan \in Plans
      /\ cmd.dml => This # 0
  BY DEF SessionInv, CmdInv, Executing, CmdTypes
<1>2. Order \in Orders
  BY <1>1, PlanFacts DEF Order
<1>3. Work \subseteq {This} /\ Work \subseteq Nat /\ (Work # {} => cmd.dml) /\ (cmd.dml => This \in Work)
  BY <1>1, OpenedFacts, SMT DEF Work, This, SessionInv
<1>4. /\ i \in DOMAIN opened /\ opened[i].order = Order /\ opened[i].state = "open"
      /\ opened[i].shard = s /\ opened[i] \in TabletTx
  BY <1>2, OpenedFacts DEF Found, SessionInv, SessionHeld, HeldOpen
<1>5. /\ DOMAIN opened' = DOMAIN opened
      /\ \A j \in DOMAIN opened : j # i => opened'[j] = opened[j]
      /\ opened'[i] = [opened[i] EXCEPT !.did = did]
      /\ opened' = [j \in DOMAIN opened |-> opened'[j]]
  BY <1>4 DEF SessionInv, DataTypes
<1>6. did \subseteq Nat
  BY <1>3, <1>4 DEF TabletTx
<1>7. /\ opened'[i] \in TabletTx /\ opened'[i].did = did /\ opened'[i].shard = opened[i].shard
      /\ opened'[i].order = opened[i].order /\ opened'[i].round = opened[i].round
      /\ opened'[i].state = opened[i].state
  BY <1>4, <1>5, <1>6 DEF TabletTx
<1>8. opened' \in Seq(TabletTx)
  <2>1. \A j \in DOMAIN opened : opened'[j] \in TabletTx
    BY <1>5, <1>7, OpenedFacts DEF SessionInv
  <2>2. opened \in Seq(TabletTx)
    BY DEF SessionInv, DataTypes
  <2>3. DOMAIN opened' = DOMAIN opened /\ opened' = [j \in DOMAIN opened |-> opened'[j]]
    BY <1>5
  <2> HIDE <1>5
  <2> QED BY <2>1, <2>2, <2>3, SeqMap
<1>9. session'.mustRollback <=> session.mustRollback \/ fatal
  BY AnswerFacts
<1>10. Called(s, ok)
  <2>1. \A j \in DOMAIN opened : OldTx(j)
    <3>1. OldTx(i)
      BY <1>4, <1>7, <1>9 DEF OldTx
    <3> QED BY <1>5, <3>1 DEF OldTx
  <2>2. \A j \in DOMAIN opened' : cmd.dml /\ This \in opened'[j].did =>
          \/ ok \/ This \in partial' \/ (session'.mustRollback /\ ~cmd.auto)
          \/ j \in DOMAIN opened /\ This \in opened[j].did
    BY <1>3, <1>5, <1>7, <1>9
  <2>3. ok /\ cmd.dml => This \in opened'[i].did
    BY <1>3, <1>7
  <2> QED BY <1>4, <1>5, <1>7, <1>8, <2>1, <2>2, <2>3, SMT DEF Called, SessionInv, DataTypes
<1> QED BY <1>10, CalledKeeps

LEMMA CallKeeps ==
  ASSUME SessionInv, cmd.step = "calls", NEW s \in cmd.left, CallShard(s)
  PROVE  SessionInv'
<1>1. /\ cmd.auto => cmd.dml
      /\ cmd.dml => session.inTx
  BY DEF SessionInv, CmdInv, Executing
<1>2. CASE CallAutocommit(s)
  <2>1. cmd.auto /\ held' = held /\ session.inTx
    BY <1>1, <1>2 DEF CallAutocommit
  <2>2. CASE Answer(s, TRUE, FALSE) /\ opened' = Append(opened, OpenedTx(s, "committed", Work)) /\ partial' = partial
    BY <2>1, <2>2, Opens
  <2>3. ASSUME NEW fatal \in BOOLEAN, Answer(s, FALSE, fatal), UNCHANGED <<opened, partial>> PROVE SessionInv'
    BY <2>1, <2>3, NoTrace
  <2>4. CASE /\ Answer(s, FALSE, FALSE) /\ opened' = Append(opened, OpenedTx(s, "committed", Work))
             /\ partial' = partial \cup Work
    BY <2>1, <2>4, Opens
  <2> QED BY <1>2, <2>2, <2>3, <2>4 DEF CallAutocommit
<1>3. CASE CallPlain(s)
  BY <1>3, NoTrace DEF CallPlain
<1>4. CASE CallBegin(s)
  <2>1. ~cmd.auto /\ session.inTx
    BY <1>4 DEF CallBegin
  <2>2. ASSUME NEW ok \in BOOLEAN, NEW fatal \in BOOLEAN, NEW refused \in BOOLEAN, ok => ~fatal,
               Answer(s, ok /\ ~refused, fatal \/ refused),
               opened' = Append(opened, OpenedTx(s, "open", IF ok THEN Work ELSE {})),
               held' = [held EXCEPT ![Order] = @ \cup {Len(opened) + 1}], partial' = partial
        PROVE  SessionInv'
    <3>1. (ok /\ ~refused) \in BOOLEAN /\ (fatal \/ refused) \in BOOLEAN
      OBVIOUS
    <3>2. CASE ok
      BY <2>1, <2>2, <3>1, <3>2, Opens
    <3>3. CASE ~ok
      BY <2>1, <2>2, <3>1, <3>3, Opens
    <3> QED BY <3>2, <3>3
  <2>3. ASSUME NEW fatal \in BOOLEAN, Answer(s, FALSE, fatal), UNCHANGED <<held, opened, partial>> PROVE SessionInv'
    BY <2>3, NoTrace
  <2>4. CASE /\ Answer(s, FALSE, FALSE) /\ opened' = Append(opened, OpenedTx(s, "stray", {}))
             /\ UNCHANGED <<held, partial>>
    BY <2>1, <2>4, Opens
  <2>5. (session.single /\ Order = "NORMAL" /\ held[Order] # {}) \in BOOLEAN
    OBVIOUS
  <2> QED BY <1>4, <2>2, <2>3, <2>4, <2>5 DEF CallBegin
<1>5. ASSUME NEW i \in Found(s), CallInTx(s, i) PROVE SessionInv'
  <2>1. ~cmd.auto /\ session.inTx /\ held' = held
    BY <1>5 DEF CallInTx
  <2>2. CASE Answer(s, TRUE, FALSE) /\ opened' = [opened EXCEPT ![i].did = @ \cup Work] /\ partial' = partial
    BY <2>1, <2>2, InTxKeeps
  <2>3. CASE Answer(s, FALSE, FALSE) /\ UNCHANGED <<opened, partial>>
    BY <2>1, <2>3, NoTrace
  <2>4. CASE Answer(s, FALSE, TRUE) /\ opened' = [opened EXCEPT ![i].did = {}] /\ partial' = partial
    BY <2>1, <2>4, InTxKeeps
  <2>5. CASE /\ Answer(s, FALSE, FALSE) /\ opened' = [opened EXCEPT ![i].did = @ \cup Work]
             /\ partial' = partial \cup Work
    BY <2>1, <2>5, InTxKeeps
  <2> QED BY <1>5, <2>2, <2>3, <2>4, <2>5 DEF CallInTx
<1> QED BY <1>2, <1>3, <1>4, <1>5 DEF CallShard

(* The commit of one transaction of a tablet, whatever comes of it.        *)
LEMMA CommitOneKeeps ==
  ASSUME SessionInv, cmd.step = "commit", NEW i \in held[cmd.stage],
         cmd.stage = "NORMAL" => ~cmd.err /\ \A j \in held["NORMAL"] : i <= j,
         held' = [held EXCEPT ![cmd.stage] = @ \ {i}],
         NEW now \in {"committed", "undone", "lost"}, NEW did \in {opened[i].did, {}},
         DOMAIN opened' = DOMAIN opened, opened' = [j \in DOMAIN opened |-> opened'[j]],
         \A j \in DOMAIN opened : j # i => opened'[j] = opened[j],
         opened'[i] = [opened[i] EXCEPT !.state = now, !.did = did],
         now = "committed" => did = opened[i].did,
         \/ cmd' = cmd /\ now = "committed"
         \/ cmd' = [cmd EXCEPT !.err = TRUE],
         UNCHANGED <<session, historyVars>>
  PROVE  SessionInv'
<1> USE DEF historyVars
<1>1. cmd \in [step : {"commit"}, stage : Orders, err : BOOLEAN, n : Nat,
               then : {"end", "begin", "autocommit"}]
  BY DEF SessionInv, CmdTypes
<1>2. /\ cmd' \in [step : {"commit"}, stage : Orders, err : BOOLEAN, n : Nat,
                   then : {"end", "begin", "autocommit"}]
      /\ cmd'.step = "commit" /\ cmd'.stage = cmd.stage /\ cmd'.n = cmd.n
      /\ cmd.err => cmd'.err
      /\ now # "committed" => cmd'.err
  BY <1>1
<1>3. /\ i \in DOMAIN opened /\ opened[i].order = cmd.stage /\ opened[i].state = "open" /\ OfRound(i)
      /\ opened[i] \in TabletTx
  BY <1>1, OpenedFacts DEF SessionInv, SessionHeld, HeldOpen
<1>4. /\ opened'[i].shard = opened[i].shard /\ opened'[i].order = opened[i].order
      /\ opened'[i].round = opened[i].round /\ opened'[i].state = now /\ opened'[i].did = did
      /\ opened'[i] \in TabletTx
  BY <1>3 DEF TabletTx, TxStates
<1>5. /\ held \in [Orders -> SUBSET Nat] /\ held'[cmd.stage] = held[cmd.stage] \ {i}
      /\ held' \in [Orders -> SUBSET Nat] /\ \A o \in Orders : o # cmd.stage => held'[o] = held[o]
  BY <1>1 DEF SessionInv, DataTypes
<1>6. /\ cmd.stage # "PRE" => held["PRE"] = {}
      /\ cmd.stage = "POST" => held["NORMAL"] = {}
      /\ \A o \in Orders : held[o] # {} => session.inTx
      /\ session.inTx /\ ~session.mustRollback
  BY <1>1 DEF SessionInv, SessionHeld, CmdInv
<1>7. RoundInv(i)
  BY <1>3 DEF SessionInv, OrderInv
<1>8. DataTypes'
  <2>1. \A j \in DOMAIN opened : opened'[j] \in TabletTx /\ opened'[j].did \subseteq 1..Len(made)
    BY <1>3, <1>4, OpenedFacts DEF SessionInv, DataTypes
  <2>2. opened \in Seq(TabletTx)
    BY DEF SessionInv, DataTypes
  <2>3. opened' \in Seq(TabletTx)
    BY <2>1, <2>2, SeqMap
  <2> QED BY <1>5, <2>1, <2>3 DEF SessionInv, DataTypes
<1>9. CmdTypes'
  BY <1>2 DEF SessionInv, CmdTypes
<1>10. SessionHeld'
  <2>1. ASSUME NEW o \in Orders, NEW j \in held'[o]
        PROVE  /\ j \in DOMAIN opened' /\ opened'[j].order = o /\ opened'[j].state = "open" /\ OfRound(j)'
    <3>1. j \in held[o] /\ j # i
      BY <1>3, <1>5, <2>1, SMT DEF SessionInv, SessionHeld, HeldOpen
    <3> QED BY <3>1, SMT DEF SessionInv, SessionHeld, HeldOpen, OfRound
  <2>2. ASSUME NEW j \in DOMAIN opened', opened'[j].state = "open" PROVE j \in held'[opened'[j].order]
    <3>1. j # i
      BY <1>4, <2>2
    <3>2. opened[j].order \in Orders /\ j \in held[opened[j].order]
      BY <2>2, <3>1, OpenedFacts DEF SessionInv, SessionHeld, HeldOpen, TabletTx
    <3> QED BY <1>5, <3>1, <3>2
  <2>3. \A j \in DOMAIN opened' : opened'[j].round <= round'
    BY <1>4 DEF SessionInv, SessionHeld, HeldOpen
  <2>4. "PRE" \in Orders /\ "NORMAL" \in Orders
    BY DEF Orders
  <2> QED BY <1>2, <1>5, <1>6, <2>1, <2>2, <2>3, <2>4 DEF SessionHeld, HeldOpen
<1>11. CmdInv'
  BY <1>2, <1>6 DEF SessionInv, CmdInv, Executing, This
<1>12. OrderInv'
  <2>1. ASSUME NEW j \in DOMAIN opened', OfRound(j)' PROVE RoundInv(j)'
    <3>1. CASE j = i
      BY <1>2, <1>3, <1>4, <1>6, <1>7, <3>1 DEF RoundInv
    <3>2. CASE j # i
      <4>1. RoundInv(j) /\ opened'[j] = opened[j]
        BY <2>1, <3>2 DEF SessionInv, OrderInv, OfRound
      <4> QED BY <1>2, <4>1 DEF RoundInv
    <3> QED BY <3>1, <3>2
  <2>2. ASSUME NEW a \in Committed', NEW b \in DOMAIN opened', opened'[a].round = opened'[b].round,
               \/ Rank[opened'[b].order] < Rank[opened'[a].order]
               \/ opened'[a].order = "NORMAL" /\ opened'[b].order = "NORMAL" /\ b < a
        PROVE  opened'[b].state \in {"committed", "stray"}
    <3>0. \A j \in DOMAIN opened : opened'[j].order = opened[j].order /\ opened'[j].round = opened[j].round
      BY <1>4
    <3>1. /\ a \in DOMAIN opened /\ b \in DOMAIN opened /\ opened[a].round = opened[b].round
          /\ \/ Rank[opened[b].order] < Rank[opened[a].order]
             \/ opened[a].order = "NORMAL" /\ opened[b].order = "NORMAL" /\ b < a
      BY <2>2, <3>0 DEF Committed
    <3>2. CASE a # i
      <4>1. a \in Committed
        BY <2>2, <3>2 DEF Committed
      <4>2. opened[b].state \in {"committed", "stray"}
        BY <3>1, <4>1 DEF SessionInv, OrderInv, CommitsInOrder
      <4> QED BY <1>3, <3>1, <4>2
    <3>3. CASE a = i
      <4>1. OfRound(b) /\ RoundInv(b) /\ opened[b].order \in Orders /\ opened[b].state \in TxStates
        BY <1>3, <3>1, <3>3, OpenedFacts DEF OfRound, SessionInv, OrderInv, TabletTx
      <4>2. b # i /\ (~(opened[b].order = "NORMAL" /\ opened[i].order = "NORMAL") => opened[b].order # cmd.stage)
        BY <1>3, <3>1, <3>3, <4>1, OpenedFacts, SMT DEF Rank, Orders, SessionInv
      <4>3. CASE opened[b].state = "open"
        <5>1. b \in held[opened[b].order]
          BY <3>1, <4>3 DEF SessionInv, SessionHeld, HeldOpen
        <5>2. CASE opened[a].order = "NORMAL" /\ opened[b].order = "NORMAL" /\ b < a
          <6>1. i <= b /\ b < i /\ i \in Nat /\ b \in Nat
            BY <1>3, <1>5, <3>3, <5>1, <5>2, <1>1
          <6> QED BY <6>1, SMT
        <5>3. CASE Rank[opened[b].order] < Rank[opened[a].order]
          <6>1. \/ opened[b].order = "PRE" /\ cmd.stage # "PRE"
                \/ opened[b].order = "NORMAL" /\ cmd.stage = "POST"
            BY <1>1, <1>3, <3>3, <4>1, <5>3, SMT DEF Rank, Orders
          <6> QED BY <1>6, <5>1, <6>1
        <5> QED BY <3>1, <5>2, <5>3
      <4>4. CASE opened[b].state \in {"undone", "lost"}
        BY <1>3, <3>1, <3>3, <4>1, <4>2, <4>4 DEF RoundInv
      <4>5. CASE opened[b].state \in {"committed", "stray"}
        BY <3>1, <4>2, <4>5
      <4> QED BY <4>1, <4>3, <4>4, <4>5 DEF TxStates
    <3> QED BY <3>2, <3>3
  <2>3. CommitsInOrder'
    BY <2>2, SMT DEF CommitsInOrder
  <2> QED BY <2>1, <2>3 DEF OrderInv
<1>13. FailInv'
  BY <1>2, <1>4 DEF SessionInv, FailInv, Executing
<1>14. AckInv'
  <2>1. AckedIsDurable'
    <3>1. ASSUME NEW j \in Committed PROVE j \in Committed' /\ opened'[j] = opened[j]
      BY <1>3 DEF Committed
    <3> QED BY <3>1, SMT DEF SessionInv, AckInv, AckedIsDurable
  <2>2. ASSUME Sound' PROVE AwaitedInv' /\ DoneInv'
    <3>1. Sound /\ Awaited' = Awaited /\ (now # "committed" => cmd.stage = "POST")
      BY <1>2, <1>6, <2>2 DEF Sound, Awaited
    <3>2. ASSUME NEW n, NEW part, NEW t, part.order # "POST", Has(n, part, t) PROVE Has(n, part, t)'
      <4>1. PICK j \in DOMAIN opened : /\ opened[j].shard = t /\ opened[j].order = part.order /\ n \in opened[j].did
                                        /\ opened[j].state \in {"open", "committed"}
        BY <3>2 DEF Has
      <4>2. /\ opened'[j].shard = t /\ opened'[j].order = part.order /\ n \in opened'[j].did
            /\ opened'[j].state \in {"open", "committed"}
        <5>1. CASE j = i
          BY <1>3, <1>4, <3>1, <3>2, <4>1, <5>1
        <5>2. CASE j # i
          BY <4>1, <5>2
        <5> QED BY <5>1, <5>2
      <4> QED BY <4>1, <4>2 DEF Has
    <3>3. ASSUME NEW n \in Awaited', NEW k \in DOMAIN made'[n], made'[n][k].order # "POST"
          PROVE  HasAll(n, made[n][k])'
      <4>1. HasAll(n, made[n][k])
        BY <3>1, <3>3 DEF SessionInv, AckInv, AwaitedInv
      <4> QED BY <3>2, <3>3, <4>1 DEF HasAll
    <3> QED BY <1>2, <3>3 DEF AwaitedInv, DoneInv, Executing
  <2> QED BY <2>1, <2>2 DEF AckInv
<1> QED BY <1>8, <1>9, <1>10, <1>11, <1>12, <1>13, <1>14 DEF SessionInv

LEMMA CommitShardKeeps ==
  ASSUME SessionInv, NEW i \in DOMAIN opened, CommitShard(i)
  PROVE  SessionInv'
<1>1. /\ cmd.step = "commit" /\ i \in held[cmd.stage] /\ UNCHANGED <<session, historyVars>>
      /\ cmd.stage = "NORMAL" => ~cmd.err /\ \A j \in held["NORMAL"] : i <= j
      /\ held' = [held EXCEPT ![cmd.stage] = @ \ {i}]
  BY DEF CommitShard
<1>2. opened[i] \in TabletTx
  BY OpenedFacts DEF SessionInv
<1>3. \/ /\ opened' = [opened EXCEPT ![i].state = "committed"] /\ cmd' = cmd
      \/ /\ opened' = [opened EXCEPT ![i].state = "undone", ![i].did = {}]
         /\ cmd' = [cmd EXCEPT !.err = TRUE]
      \/ /\ \E now \in {"committed", "lost"} : opened' = [opened EXCEPT ![i].state = now]
         /\ cmd' = [cmd EXCEPT !.err = TRUE]
  BY DEF CommitShard
<1>4. ASSUME NEW now \in {"committed", "lost"}, opened' = [opened EXCEPT ![i].state = now]
      PROVE  /\ DOMAIN opened' = DOMAIN opened /\ opened' = [j \in DOMAIN opened |-> opened'[j]]
             /\ \A j \in DOMAIN opened : j # i => opened'[j] = opened[j]
             /\ opened'[i] = [opened[i] EXCEPT !.state = now, !.did = opened[i].did]
  BY <1>2, <1>4 DEF TabletTx
<1>5. CASE /\ opened' = [opened EXCEPT ![i].state = "undone", ![i].did = {}]
           /\ cmd' = [cmd EXCEPT !.err = TRUE]
  <2>1. /\ DOMAIN opened' = DOMAIN opened /\ opened' = [j \in DOMAIN opened |-> opened'[j]]
        /\ \A j \in DOMAIN opened : j # i => opened'[j] = opened[j]
        /\ opened'[i] = [opened[i] EXCEPT !.state = "undone", !.did = {}]
    BY <1>2, <1>5 DEF TabletTx
  <2> QED BY <1>1, <1>5, <2>1, CommitOneKeeps
<1>6. CASE opened' = [opened EXCEPT ![i].state = "committed"] /\ cmd' = cmd
  BY <1>1, <1>4, <1>6, CommitOneKeeps
<1>7. ASSUME NEW now \in {"committed", "lost"}, opened' = [opened EXCEPT ![i].state = now],
             cmd' = [cmd EXCEPT !.err = TRUE]
      PROVE  SessionInv'
  BY <1>1, <1>4, <1>7, CommitOneKeeps
<1> QED BY <1>3, <1>5, <1>6, <1>7

(* The commit returns: nothing is open any more.                           *)
LEMMA CommitReturnsKeeps ==
  ASSUME SessionInv, CommitReturns
  PROVE  SessionInv'
<1>1. /\ cmd.step = "commit" /\ cmd.stage = "POST" /\ held["POST"] = {}
      /\ session' = [Reset(session) EXCEPT !.inTx = cmd.then = "begin",
                                           !.autocommit = @ \/ cmd.then = "autocommit"]
      /\ promised' = promised \cup acked \cup ({cmd.n} \ {0})
      /\ acked' = {} /\ round' = round + 1 /\ cmd' = Rest
      /\ UNCHANGED <<held, opened, made, failed, partial>>
  BY DEF CommitReturns
<1>2. cmd'.step = "idle"
  BY <1>1 DEF Rest
<1>3. session \in [inTx : BOOLEAN, autocommit : BOOLEAN, mustRollback : BOOLEAN,
                   approval : {"no", "yes", "used"}, single : BOOLEAN]
      /\ cmd.n \in Nat /\ cmd.n <= Len(made)
  BY <1>1 DEF SessionInv, CmdTypes, CmdInv, This
<1>4. /\ session' \in [inTx : BOOLEAN, autocommit : BOOLEAN, mustRollback : BOOLEAN,
                       approval : {"no", "yes", "used"}, single : BOOLEAN]
      /\ ~session'.mustRollback /\ session'.approval = "no"
  BY <1>1, <1>3 DEF Reset
<1>5. \A o \in Orders : held[o] = {}
  BY <1>1 DEF SessionInv, SessionHeld, Orders
<1>6. \A i \in DOMAIN opened : opened[i].state # "open"
  BY <1>5, OpenedFacts DEF SessionInv, SessionHeld, HeldOpen, TabletTx
<1>7. \A i \in DOMAIN opened' : ~OfRound(i)' /\ opened'[i].round <= round'
  <2>1. \A i \in DOMAIN opened : opened[i].round \in Nat /\ opened[i].round <= round /\ round \in Nat
    BY OpenedFacts DEF SessionInv, SessionHeld, HeldOpen, TabletTx, DataTypes
  <2>2. \A i \in DOMAIN opened : opened[i].round <= round + 1 /\ opened[i].round # round + 1
    BY <2>1, SMT
  <2> QED BY <1>1, <2>2 DEF OfRound
<1>8. DataTypes'
  <2>1. round' \in Nat /\ {cmd.n} \ {0} \subseteq 1..Len(made)
    BY <1>1, <1>3, OpenedFacts, SMT DEF SessionInv, DataTypes
  <2> QED BY <1>1, <2>1 DEF SessionInv, DataTypes
<1>9. CmdTypes' /\ SessionHeld' /\ CmdInv'
  BY <1>1, <1>2, <1>4, <1>5, <1>6, <1>7 DEF CmdTypes, SessionHeld, HeldOpen, CmdInv, Executing
<1>10. OrderInv' /\ FailInv'
  BY <1>1, <1>2, <1>7, OrderStays DEF SessionInv, OrderInv, FailInv, Executing
<1>11. AckInv'
  <2>1. Sound /\ promised' = promised \cup Awaited
    BY <1>1 DEF SessionInv, CmdInv, Sound, Awaited
  <2>2. ASSUME NEW n \in promised', NEW k \in DOMAIN made[n], made[n][k].order # "POST",
               NEW s \in made[n][k].shards
        PROVE  \E i \in Committed : /\ opened[i].shard = s /\ opened[i].order = made[n][k].order
                                     /\ n \in opened[i].did
    <3>1. CASE n \in promised
      BY <2>2, <3>1, SMT DEF SessionInv, AckInv, AckedIsDurable
    <3>2. CASE n \in Awaited
      <4>1. Has(n, made[n][k], s)
        BY <2>1, <2>2, <3>2 DEF SessionInv, AckInv, AwaitedInv, HasAll
      <4> QED BY <1>6, <4>1 DEF Has, Committed
    <3> QED BY <2>1, <3>1, <3>2
  <2>3. AckedIsDurable'
    BY <1>1, <2>2, SMT DEF AckedIsDurable, Committed
  <2> QED BY <1>1, <1>2, <2>3 DEF AckInv, AwaitedInv, Awaited, DoneInv, Executing
<1> QED BY <1>8, <1>9, <1>10, <1>11 DEF SessionInv

LEMMA SessionStep ==
  ASSUME SessionInv, [SessionNext]_sessionVars
  PROVE  SessionInv'
<1>1. CASE SessionNext
  BY <1>1, CommandKeeps, ScatterKeeps, ScatterFailsKeeps, ProceedKeeps, CallKeeps, CommitShardKeeps,
     CommitStageKeeps, CommitFailsKeeps, CommitReturnsKeeps DEF SessionNext
<1>2. CASE UNCHANGED sessionVars
  <2>1. UNCHANGED <<session, held, opened, cmd, made, round, acked, promised, failed, partial>>
    BY <1>2 DEF sessionVars, historyVars
  <2>2. DataTypes' /\ CmdTypes' /\ CmdInv'
    BY <2>1 DEF SessionInv, DataTypes, CmdTypes, CmdInv, Executing, This
  <2>3. SessionHeld' /\ FailInv'
    BY <2>1, HeldStays DEF SessionInv, SessionHeld, FailInv, DidInv, Executing, This
  <2>4. OrderInv'
    BY <2>1, OrderStays DEF SessionInv, OrderInv, OfRound, RoundInv
  <2>5. AckInv'
    <3>1. AckedIsDurable' /\ Awaited' = Awaited /\ (Sound' <=> Sound)
      BY <2>1, DurableStays DEF SessionInv, AckInv, Awaited, Sound
    <3>2. Sound => AwaitedInv'
      BY <2>1, <3>1, AwaitedStays DEF SessionInv, AckInv
    <3>3. Sound => DoneInv'
      BY <2>1, HasStays DEF SessionInv, AckInv, DoneInv, Executing, This
    <3> QED BY <3>1, <3>2, <3>3 DEF AckInv
  <2> QED BY <2>2, <2>3, <2>4, <2>5 DEF SessionInv
<1> QED BY <1>1, <1>2

(* The inductive invariant of the session's transaction: the session holds *)
(* what is open for it, what a DML has done is where its plan says as long *)
(* as nothing failed, and a stage is committed before the next begins.     *)
THEOREM SessionInvariant == SessionSpec => []SessionInv
<1>1. SessionInv /\ [SessionNext]_sessionVars => SessionInv'
  BY SessionStep
<1> QED BY <1>1, SessionStarts, PTL DEF SessionSpec

(* A client's transaction keeps its promises: what was acknowledged is     *)
(* committed wherever its plan wrote, except for the deletions that commit *)
(* last; PRE, NORMAL and POST commit in that order; no transaction is left *)
(* open on a tablet; a DML that returned an error has no effect, unless it *)
(* is one that may be done in part.                                        *)
THEOREM TransactionPromises == SessionSpec => []SessionAgrees
<1>1. SessionInv => SessionAgrees
  <2> SUFFICES ASSUME SessionInv PROVE SessionAgrees
    OBVIOUS
  <2>1. AckedIsDurable /\ CommitsInOrder
    BY DEF SessionInv, AckInv, OrderInv
  <2>2. NothingLeaks
    <3>1. \A i \in DOMAIN opened : opened[i].order \in Orders
      BY OpenedFacts DEF SessionInv, TabletTx
    <3> QED BY <3>1, SMT DEF SessionInv, SessionHeld, HeldOpen, NothingLeaks, Ids
  <2>3. FailedIsUndone
    BY DEF SessionInv, FailInv, FailedIsUndone, Committed
  <2> QED BY <2>1, <2>2, <2>3 DEF SessionAgrees
<1> QED BY <1>1, SessionInvariant, PTL
=============================================================================
