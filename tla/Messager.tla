------------------------------ MODULE Messager ------------------------------
(***************************************************************************)
(* The message manager of one message table and the engine that owns it    *)
(* (tabletserver/messager).  Rows of the table wait in a bounded cache; a  *)
(* sender goroutine hands batches to subscribed receivers, one goroutine   *)
(* per batch, which postpones what it sent; a poller refills the cache     *)
(* from the table; transactions insert and acknowledge messages and then   *)
(* bring the cache up to date.  Three locks order all this: the engine's   *)
(* mu, the manager's mu (every step below that touches the manager is one  *)
(* critical section) and DBLock, held from before a commit until the cache *)
(* reflects it, and by the poller from its read until it has added rows.   *)
(* Messages is the set of message ids, and each also names the client      *)
(* transaction that inserts or acknowledges it.  One life of the manager   *)
(* is modelled, from Open to Close.                                        *)
(***************************************************************************)
EXTENDS Naturals, FiniteSets

CONSTANTS Receivers, Messages, Poller, NoOne, CacheSize, BatchSize

ASSUME MessagerAssumption ==
  /\ IsFiniteSet(Messages) /\ Receivers \cap Messages = {}
  /\ Poller \notin Receivers \cup Messages /\ NoOne \notin Receivers \cup Messages
  /\ Poller # NoOne
  /\ CacheSize \in Nat /\ BatchSize \in Nat \ {0}

VARIABLES
  row,        \* the table: "none", "due", "later" (time_next ahead), "acked"
  queue,      \* the ids of cache.inQueue
  defunct,    \* how many discarded rows cache.sendQueue still holds
  inFlight,   \* cache.inFlight
  pending,    \* messagesPending
  recv,       \* each receiver: "new", "busy", "free", "gone"
  cur,        \* curReceiver (NoOne for -1)
  sender,     \* runSend: "run", "wait" (cond.Wait) or "ended"
  work,       \* where the goroutine of a batch, or a client transaction, is
  batch,      \* the ids a receiver was handed
  poller,     \* runPoller: "idle", "poll" (before DBLock) or "read"
  polled,     \* the rows it read
  dbLock,     \* the holder of DBLock
  closing     \* Engine.Close: "none", "ticks", "wait", "done"

cacheVars == <<queue, defunct, inFlight>>
pollVars == <<poller, polled>>
messagerVars == <<row, cacheVars, pending, recv, cur, sender, work, batch,
                  pollVars, dbLock, closing>>

Writers == Receivers \cup Messages
Steps == {"none", "send", "eof", "refused", "admit", "generate", "write",
          "lockdb", "dblock", "commit", "update", "failed", "discard", "free"}

MessagerTypeOK ==
  /\ row \in [Messages -> {"none", "due", "later", "acked"}]
  /\ queue \subseteq Messages /\ inFlight \subseteq Messages
  /\ defunct \in Nat /\ Cardinality(queue) + defunct <= CacheSize
  /\ pending \in BOOLEAN
  /\ recv \in [Receivers -> {"new", "busy", "free", "gone"}]
  /\ cur \in Receivers \cup {NoOne}
  /\ sender \in {"run", "wait", "ended"}
  /\ work \in [Writers -> Steps]
  /\ batch \in [Receivers -> SUBSET Messages]
  /\ poller \in {"idle", "poll", "read"} /\ polled \subseteq Messages
  /\ dbLock \in Writers \cup {Poller, NoOne}
  /\ closing \in {"none", "ticks", "wait", "done"}

\* The engine and the manager are open and nobody has subscribed; runSend has
\* just started or waits already.
MessagerInit ==
  /\ row = [m \in Messages |-> "none"]
  /\ queue = {} /\ defunct = 0 /\ inFlight = {} /\ pending = FALSE
  /\ recv = [r \in Receivers |-> "new"] /\ cur = NoOne
  /\ sender \in {"run", "wait"}
  /\ work = [w \in Writers |-> "none"] /\ batch = [r \in Receivers |-> {}]
  /\ poller = "idle" /\ polled = {} /\ dbLock = NoOne /\ closing = "none"

-----------------------------------------------------------------------------
(* The locks, the cache and the receivers.                                 *)

\* Only Close holds the engine's mu across steps.
MuFree == closing \in {"none", "done"}

\* cond.Broadcast
Broadcast == sender' = IF sender = "wait" THEN "run" ELSE sender

Subscribed == {r \in Receivers : recv[r] \in {"busy", "free"}}

\* rescanReceivers: any free receiver, in place of the next one round-robin.
RescanReceivers ==
  LET free == {r \in Receivers : recv'[r] = "free"}
  IN  \/ /\ free = {}
         /\ cur' = NoOne /\ UNCHANGED sender
      \/ /\ cur' \in free
         /\ IF cur = NoOne THEN Broadcast ELSE UNCHANGED sender

\* cache.Add's first test.
Full == Cardinality(queue) + defunct >= CacheSize

\* cache.Discard: rows still queued become defunct.
Discard(ids) ==
  /\ queue' = queue \ ids
  /\ defunct' = defunct + Cardinality(queue \cap ids)
  /\ inFlight' = inFlight \ ids

\* cache.Clear
Clear == queue' = {} /\ defunct' = 0 /\ inFlight' = {}

\* unsubscribe: without receivers the cache is shut down.
Unsubscribe(r) ==
  /\ recv' = [recv EXCEPT ![r] = "gone"]
  /\ RescanReceivers
  /\ IF Subscribed \subseteq {r} THEN Clear ELSE UNCHANGED cacheVars

\* Subscribe: the receiver is busy until the field info has been sent.
Subscribe(r) ==
  /\ closing = "none" /\ recv[r] = "new"
  /\ recv' = [recv EXCEPT ![r] = "busy"]
  /\ work' = [work EXCEPT ![r] = "send"]
  /\ UNCHANGED <<row, cacheVars, pending, cur, sender, batch, pollVars, dbLock,
                 closing>>

\* The receiver's context ends and the goroutine watching it unsubscribes.
Leave(r) ==
  /\ r \in Subscribed
  /\ Unsubscribe(r)
  /\ UNCHANGED <<row, pending, work, batch, pollVars, dbLock, closing>>

-----------------------------------------------------------------------------
(* runSend.                                                                *)

\* Up to BatchSize pops; a pop drops the defunct rows it meets, and the pop
\* that finds nothing has dropped them all.
PopBatch(B) ==
  /\ B \subseteq queue
  /\ \/ Cardinality(B) = BatchSize /\ defunct' \in 0..defunct
     \/ Cardinality(B) < BatchSize /\ B = queue /\ defunct' = 0
  /\ queue' = queue \ B
  /\ inFlight' = inFlight \cup B

RunSend ==
  /\ sender = "run"
  /\ \/ /\ closing = "wait"
        /\ sender' = "ended"
        /\ UNCHANGED <<cacheVars, recv, cur, work, batch>>
     \/ /\ closing # "wait" /\ cur = NoOne
        /\ sender' = "wait"
        /\ UNCHANGED <<cacheVars, recv, cur, work, batch>>
     \/ /\ closing # "wait" /\ cur # NoOne
        /\ \E B \in SUBSET queue :
             /\ PopBatch(B)
             /\ IF B = {}
                  THEN sender' = "wait" /\ UNCHANGED <<recv, cur, work, batch>>
                  ELSE /\ recv' = [recv EXCEPT ![cur] = "busy"]
                       /\ RescanReceivers
                       /\ work' = [work EXCEPT ![cur] = "send"]
                       /\ batch' = [batch EXCEPT ![cur] = B]
  /\ UNCHANGED <<row, pending, pollVars, dbLock, closing>>

-----------------------------------------------------------------------------
(* send: one goroutine per batch.                                          *)

Advance(w, from, to) == work[w] = from /\ work' = [work EXCEPT ![w] = to]

\* The stream accepts the batch, ends, or fails.  Without rows there is
\* nothing to postpone, and a failure ends the subscription.
SendReturns(r) ==
  /\ \/ Advance(r, "send", IF batch[r] = {} THEN "discard" ELSE "admit")
     \/ Advance(r, "send", "eof")
     \/ Advance(r, "send", IF batch[r] = {} THEN "refused" ELSE "admit")
  /\ UNCHANGED <<row, cacheVars, pending, recv, cur, sender, batch, pollVars,
                 dbLock, closing>>

\* The stream ended: the rows are left to the poller.
SendEOF(r) ==
  /\ Advance(r, "eof", "refused")
  /\ pending' = TRUE
  /\ Broadcast
  /\ UNCHANGED <<row, cacheVars, recv, cur, batch, pollVars, dbLock, closing>>

SendRefused(r) ==
  /\ Advance(r, "refused", "discard")
  /\ Unsubscribe(r)
  /\ UNCHANGED <<row, pending, batch, pollVars, dbLock, closing>>

\* postpone: PostponeMessages is a request, which a tablet that is closing
\* the engine no longer admits.
Postpone(r) ==
  /\ \/ closing = "none" /\ Advance(r, "admit", "generate")
     \/ Advance(r, "admit", "discard")
  /\ UNCHANGED <<row, cacheVars, pending, recv, cur, sender, batch, pollVars,
                 dbLock, closing>>

\* The deferred cleanup of send.
DiscardSent(r) ==
  /\ Advance(r, "discard", "free")
  /\ Discard(batch[r])
  /\ UNCHANGED <<row, pending, recv, cur, sender, batch, pollVars, dbLock,
                 closing>>

\* Faulty variant: the receiver stays busy.
FreeReceiverNot(r) ==
  /\ Advance(r, "free", "none")
  /\ batch' = [batch EXCEPT ![r] = {}]
  /\ UNCHANGED <<row, cacheVars, pending, recv, cur, sender, pollVars, dbLock,
                 closing>>

FreeReceiver(r) ==
  /\ Advance(r, "free", "none")
  /\ recv' = [recv EXCEPT ![r] = IF @ = "busy" THEN "free" ELSE @]
  /\ IF cur = NoOne THEN RescanReceivers ELSE UNCHANGED <<cur, sender>>
  /\ batch' = [batch EXCEPT ![r] = {}]
  /\ UNCHANGED <<row, cacheVars, pending, pollVars, dbLock, closing>>

-----------------------------------------------------------------------------
(* The transactions that change message rows: the one that postpones a     *)
(* batch, and those of clients.                                            *)

Client(w) == w \in Messages

\* The rows the transaction touches: an acknowledged row is not postponed.
Changed(w) ==
  IF Client(w) THEN {w} ELSE {m \in batch[w] : row[m] # "acked"}

\* Where a transaction goes when it is over.
After(w) == IF Client(w) THEN "none" ELSE "discard"

\* A client inserts message m, or acknowledges it.
ClientBegins(m) ==
  /\ closing = "none" /\ row[m] # "acked"
  /\ Advance(m, "none", "generate")
  /\ UNCHANGED <<row, cacheVars, pending, recv, cur, sender, batch, pollVars,
                 dbLock, closing>>

\* Generate*Query: the manager supplies the query.
Generate(w) ==
  /\ MuFree
  /\ Advance(w, "generate", IF closing = "done" THEN After(w) ELSE "write")
  /\ UNCHANGED <<row, cacheVars, pending, recv, cur, sender, batch, pollVars,
                 dbLock, closing>>

\* Begin and Execute, behind MySQL's row locks; either may fail.
Write(w) ==
  /\ \/ /\ \A v \in Writers \ {w} :
             work[v] \in {"lockdb", "dblock", "commit"}
               => Changed(v) \cap Changed(w) = {}
        /\ Advance(w, "write", IF Changed(w) = {} THEN After(w) ELSE "lockdb")
     \/ Advance(w, "write", After(w))
  /\ UNCHANGED <<row, cacheVars, pending, recv, cur, sender, batch, pollVars,
                 dbLock, closing>>

\* LockDB finds the manager under mu, and then waits for its DBLock.
LockDB(w) ==
  /\ MuFree
  /\ Advance(w, "lockdb", IF closing = "done" THEN "commit" ELSE "dblock")
  /\ UNCHANGED <<row, cacheVars, pending, recv, cur, sender, batch, pollVars,
                 dbLock, closing>>

TakeDBLock(w) ==
  /\ Advance(w, "dblock", "commit")
  /\ dbLock = NoOne /\ dbLock' = w
  /\ UNCHANGED <<row, cacheVars, pending, recv, cur, sender, batch, pollVars,
                 closing>>

ReleaseDBLock(w) == dbLock' = IF dbLock = w THEN NoOne ELSE dbLock

\* What a transaction writes: a new row is due now or later, a row of the
\* table is acknowledged, and a row that was sent is postponed.
NewRow(w, m) ==
  CASE ~Client(w) -> {"later"}
    [] Client(w) /\ row[m] = "none" -> {"due", "later"}
    [] OTHER -> {"acked"}

Apply(w) ==
  \E new \in [Changed(w) -> {"due", "later", "acked"}] :
    /\ \A m \in Changed(w) : new[m] \in NewRow(w, m)
    /\ row' = [m \in Messages |-> IF m \in Changed(w) THEN new[m] ELSE row[m]]

\* It is applied; or an error is returned, and it was not applied or it was
\* ("failed" if that leaves an acknowledged row in the cache).
Commit(w) ==
  /\ \/ Advance(w, "commit", "update") /\ Apply(w) /\ UNCHANGED dbLock
     \/ Advance(w, "commit", After(w)) /\ UNCHANGED row /\ ReleaseDBLock(w)
     \/ /\ Advance(w, "commit",
                   IF Client(w) /\ row[w] # "none" THEN "failed" ELSE After(w))
        /\ Apply(w) /\ ReleaseDBLock(w)
  /\ UNCHANGED <<cacheVars, pending, recv, cur, sender, batch, pollVars,
                 closing>>

\* Faulty variant: the sender is not woken up.
AddMessageSilently(m) ==
  IF Subscribed = {} THEN UNCHANGED <<cacheVars, pending, sender>>
  ELSE IF Full THEN pending' = TRUE /\ UNCHANGED <<cacheVars, sender>>
  ELSE /\ queue' = queue \cup ({m} \ inFlight)
       /\ UNCHANGED <<defunct, inFlight, pending, sender>>

\* mm.Add of a message that is due.
AddMessage(m) ==
  IF Subscribed = {} THEN UNCHANGED <<cacheVars, pending, sender>>
  ELSE IF Full THEN pending' = TRUE /\ UNCHANGED <<cacheVars, sender>>
  ELSE /\ queue' = queue \cup ({m} \ inFlight)
       /\ Broadcast
       /\ UNCHANGED <<defunct, inFlight, pending>>

\* UpdateCaches, and then DBLock is released.
UpdateCaches(w) ==
  /\ MuFree
  /\ Advance(w, "update", After(w))
  /\ CASE closing = "done" -> UNCHANGED <<cacheVars, pending, sender>>
       [] closing # "done" /\ Client(w) /\ row[w] = "due" -> AddMessage(w)
       [] closing # "done" /\ Client(w) /\ row[w] = "later" ->
            UNCHANGED <<cacheVars, pending, sender>>
       [] OTHER -> Discard(Changed(w)) /\ UNCHANGED <<pending, sender>>
  /\ ReleaseDBLock(w)
  /\ UNCHANGED <<row, recv, cur, batch, pollVars, closing>>

\* The time of a scheduled or postponed message comes.
Elapse(m) ==
  /\ row[m] = "later"
  /\ row' = [row EXCEPT ![m] = "due"]
  /\ UNCHANGED <<cacheVars, pending, recv, cur, sender, work, batch, pollVars,
                 dbLock, closing>>

-----------------------------------------------------------------------------
(* runPoller.                                                              *)

\* A tick or a trigger; without receivers all the work is skipped.
PollTick ==
  /\ poller = "idle" /\ closing \in {"none", "ticks"} /\ Subscribed # {}
  /\ poller' = "poll"
  /\ UNCHANGED <<row, cacheVars, pending, recv, cur, sender, work, batch,
                 polled, dbLock, closing>>

\* Faulty variant: the rows are read before DBLock is taken.
PollReadUnlocked ==
  /\ poller = "poll"
  /\ \E R \in SUBSET {m \in Messages : row[m] = "due"} :
       Cardinality(R) <= CacheSize /\ polled' = R
  /\ poller' = "read"
  /\ UNCHANGED <<row, cacheVars, pending, recv, cur, sender, work, batch,
                 dbLock, closing>>

\* DBLock, then the read, of at most CacheSize rows that are due.
PollRead ==
  /\ poller = "poll" /\ dbLock = NoOne
  /\ LET due == {m \in Messages : row[m] = "due"}
     IN  \E R \in SUBSET due :
           /\ Cardinality(R) <= CacheSize
           /\ R = due \/ Cardinality(R) = CacheSize
           /\ polled' = R
  /\ poller' = "read" /\ dbLock' = Poller
  /\ UNCHANGED <<row, cacheVars, pending, recv, cur, sender, work, batch,
                 closing>>

\* The connection or the read fails.
PollFails ==
  /\ poller = "poll" /\ dbLock = NoOne
  /\ poller' = "idle"
  /\ UNCHANGED <<row, cacheVars, pending, recv, cur, sender, work, batch,
                 polled, dbLock, closing>>

\* Under mu the rows are added until the cache is full.  A row that is
\* already in the cache counts as added only while there is room.
AddPolled ==
  LET new == polled \ (queue \cup inFlight)
      room == IF Full THEN 0 ELSE CacheSize - Cardinality(queue) - defunct
  IN  \E A \in SUBSET new :
        /\ A = new \/ Cardinality(A) = room
        /\ Cardinality(A) <= room
        /\ queue' = queue \cup A
        /\ \/ /\ pending' = (Cardinality(polled) >= CacheSize)
              /\ A = new
              /\ Cardinality(A) < room \/ A # {} \/ polled = {}
           \/ /\ pending' = TRUE
              /\ Cardinality(A) = room /\ polled # A

PollAdd ==
  /\ poller = "read"
  /\ IF Subscribed = {}
       THEN /\ pending' = (Cardinality(polled) >= CacheSize)
            /\ UNCHANGED <<queue, sender>>
       ELSE /\ AddPolled
            /\ IF polled # {} THEN Broadcast ELSE UNCHANGED sender
  /\ poller' = "idle" /\ polled' = {} /\ dbLock' = NoOne
  /\ UNCHANGED <<row, defunct, inFlight, recv, cur, work, batch, closing>>

-----------------------------------------------------------------------------
(* Engine.Close, which holds mu throughout.                                *)

StartClosing ==
  /\ closing = "none"
  /\ closing' = "ticks"
  /\ UNCHANGED <<row, cacheVars, pending, recv, cur, sender, work, batch,
                 pollVars, dbLock>>

\* Faulty variant: the sender is not told.
ShutManagerSilently ==
  /\ closing = "ticks" /\ poller = "idle"
  /\ closing' = "wait"
  /\ recv' = [r \in Receivers |-> "gone"]
  /\ Clear
  /\ UNCHANGED <<row, pending, cur, sender, work, batch, pollVars, dbLock>>

\* The timer stops between two passes; then the manager is shut.
ShutManager ==
  /\ closing = "ticks" /\ poller = "idle"
  /\ closing' = "wait"
  /\ recv' = [r \in Receivers |-> "gone"]
  /\ Clear
  /\ Broadcast
  /\ UNCHANGED <<row, pending, cur, work, batch, pollVars, dbLock>>

\* wg.Wait: the sender and every send have returned.
CloseReturns ==
  /\ closing = "wait" /\ sender = "ended"
  /\ \A r \in Receivers : work[r] = "none"
  /\ closing' = "done"
  /\ UNCHANGED <<row, cacheVars, pending, recv, cur, sender, work, batch,
                 pollVars, dbLock>>

-----------------------------------------------------------------------------
SendStep(r) ==
  \/ SendReturns(r) \/ SendEOF(r) \/ SendRefused(r) \/ Postpone(r)
  \/ DiscardSent(r) \/ FreeReceiver(r)

WriteStep(w) ==
  \/ Generate(w) \/ Write(w) \/ LockDB(w) \/ TakeDBLock(w) \/ Commit(w)
  \/ UpdateCaches(w)

PollStep == PollTick \/ PollRead \/ PollFails \/ PollAdd
ClosingStep == ShutManager \/ CloseReturns

MessagerNext ==
  \/ \E r \in Receivers : Subscribe(r) \/ Leave(r) \/ SendStep(r)
  \/ \E m \in Messages : ClientBegins(m) \/ Elapse(m)
  \/ \E w \in Writers : WriteStep(w)
  \/ RunSend \/ PollStep \/ StartClosing \/ ClosingStep

\* Goroutines and clients go on, and neither a receiver nor the poller is
\* passed over for ever at DBLock, nor Close by the passes of the poller.
MessagerFairness ==
  /\ WF_messagerVars(RunSend)
  /\ \A r \in Receivers : WF_messagerVars(SendStep(r)) /\ SF_messagerVars(WriteStep(r))
  /\ \A m \in Messages : WF_messagerVars(WriteStep(m))
  /\ WF_messagerVars(PollTick) /\ SF_messagerVars(PollRead)
  /\ WF_messagerVars(PollAdd)
  /\ SF_messagerVars(ClosingStep)

MessagerSpec == MessagerInit /\ [][MessagerNext]_messagerVars
MessagerFairSpec == MessagerSpec /\ MessagerFairness

-----------------------------------------------------------------------------
(* Properties.                                                             *)

\* No wakeup is lost: a sender asleep in cond.Wait while the manager is open
\* has no free receiver to send to or no row to send, and curReceiver, which
\* is all it looks at, is one of the free receivers if there is one.
SenderNotNeeded ==
  closing \in {"none", "ticks"} =>
    LET free == {r \in Receivers : recv[r] = "free"}
    IN  /\ sender = "wait" => free = {} \/ queue = {}
        /\ IF free = {} THEN cur = NoOne ELSE cur \in free

\* What DBLock is for: except while the transaction that changed a row is
\* still updating the cache, only rows that are due wait to be sent.  A commit
\* that was applied and returned an error does not update the cache: a batch
\* is discarded anyway, a row acknowledged so stays in the cache.
QueuedIsDue ==
  \A m \in queue :
    \/ row[m] = "due"
    \/ \E w \in Writers : work[w] = "update" /\ m \in Changed(w)
    \/ work[m] = "failed" \/ \E r \in Receivers : work[r] = "discard" /\ m \in batch[r]

\* A goroutine of the manager, or the transaction that holds DBLock, needs
\* the engine's mu.
NeedsMu ==
  \E w \in Writers : /\ work[w] \in {"generate", "lockdb", "update"}
                     /\ w \in Receivers \/ dbLock = w

\* Engine.Close, which waits for the goroutines of the manager under the
\* engine's mu, returns, unless from some time on one that it waits for needs
\* that mu: nothing else keeps it from returning.
CloseCompletes == closing = "ticks" ~> (closing = "done" \/ []NeedsMu)

\* With a receiver to send to, a row that is due is handed to one, or
\* stops being due, also if another row competes for the receiver.
DueIsSent ==
  \A m \in Messages :
    row[m] = "due" ~> \/ \E r \in Receivers : m \in batch[r]
                      \/ row[m] # "due" \/ Subscribed = {} \/ closing # "none"
=============================================================================
