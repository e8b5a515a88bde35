------------------------------ MODULE ConnPool -------------------------------
(***************************************************************************)
(* The resource pool (pools/resource_pool.go) inside the connection pool   *)
(* of a tablet (connpool/pool.go): borrowers get and put connections while *)
(* an operator resizes the pool, the idle timer closes old connections and *)
(* the pool is closed.                                                     *)
(*                                                                         *)
(* The channel "resources" holds wrappers, empty ones and ones with a      *)
(* connection; which connection it is does not matter, nor does the order. *)
(* A borrower is "out", "wait" (in get), "make" (in the factory), "got"    *)
(* (get has a connection and has not counted it), "using", "put" or "drop" *)
(* (in Put of a connection or of nil) or "sent" (Put has not counted it).  *)
(* The resizer, a running SetCapacity, is "out", "drain" or "fill", or has *)
(* to count a wrapper: one that it received, with a connection ("close")   *)
(* or without ("count"), or one that it sent ("added").  The closer is     *)
(* "out", "stop" (has read the pool), "drain", "close", "count", "nil"     *)
(* (about to clear Pool.connections) or "done".  A capacity of 0 is set by *)
(* Close alone.  What a thread adds to several counters in a row is one    *)
(* step, apart from the step on the channel that it accounts for.          *)
(***************************************************************************)
EXTENDS Integers, FiniteSets

CONSTANTS
  Borrowers,
  MaxCap,   \* the capacity that the pool was opened with
  Sizes     \* the capacities that an operator may set

ASSUME ConnPoolAssumption ==
  IsFiniteSet(Borrowers) /\ MaxCap \in Nat \ {0} /\ Sizes \subseteq 1..MaxCap

VARIABLES
  capacity,     \* ResourcePool.capacity
  empties,      \* empty wrappers in the channel
  filled,       \* wrappers in the channel that hold a connection
  counters,     \* available, active, inUse
  chanClosed,   \* the channel is closed
  connections,  \* Pool.connections is not nil
  borrower,
  resizer,
  resizeLeft,   \* the wrappers it still has to take out or put in
  closer, closeLeft,
  idler,        \* what the idle timer holds: "none", "conn" or "empty"
  putPanics     \* a Put panicked

channel == <<empties, filled, counters>>
setting == <<capacity, chanClosed, connections>>
threads == <<resizer, resizeLeft, closer, closeLeft, idler>>
connPoolVars == <<channel, setting, threads, borrower, putPanics>>

ConnPoolInit ==
  /\ capacity = MaxCap /\ empties = MaxCap /\ filled = 0
  /\ counters = [available |-> MaxCap, active |-> 0, inUse |-> 0]
  /\ chanClosed = FALSE /\ connections = TRUE
  /\ borrower = [b \in Borrowers |-> "out"]
  /\ resizer = "out" /\ resizeLeft = 0
  /\ closer = "out" /\ closeLeft = 0
  /\ idler = "none" /\ putPanics = FALSE

(* SetCapacity of the connection pool holds Pool.mu until it returns. *)
PoolUnlocked == resizer = "out"

Adjust(available, active, inUse) ==
  counters' = [available |-> counters.available + available,
               active |-> counters.active + active,
               inUse |-> counters.inUse + inUse]
Moves(b, l) == borrower' = [borrower EXCEPT ![b] = l]
-----------------------------------------------------------------------------
(* Pool.Get: pool(), then the wait for a wrapper. *)
GetConn(b) ==
  /\ borrower[b] = "out" /\ PoolUnlocked /\ connections
  /\ Moves(b, "wait")
  /\ UNCHANGED <<channel, setting, threads, putPanics>>

(* A wrapper with a connection, an empty one, or none: the channel is      *)
(* closed or the time is over.                                             *)
Fetch(b) ==
  /\ borrower[b] = "wait"
  /\ \/ filled > 0 /\ filled' = filled - 1 /\ Moves(b, "got") /\ UNCHANGED empties
     \/ empties > 0 /\ empties' = empties - 1 /\ Moves(b, "make") /\ UNCHANGED filled
     \/ Moves(b, "out") /\ UNCHANGED <<empties, filled>>
  /\ UNCHANGED <<counters, setting, threads, putPanics>>

(* Faulty variant: the wrapper is lost if the factory fails. *)
MakeLosing(b) ==
  /\ borrower[b] = "make"
  /\ \/ Adjust(0, 1, 0) /\ Moves(b, "got")
     \/ Moves(b, "out") /\ UNCHANGED counters
  /\ UNCHANGED <<empties, filled, setting, threads, putPanics>>

(* The factory connects or fails. *)
Make(b) ==
  /\ borrower[b] = "make"
  /\ \/ Adjust(0, 1, 0) /\ Moves(b, "got") /\ UNCHANGED empties
     \/ empties' = empties + 1 /\ Moves(b, "out") /\ UNCHANGED counters
  /\ UNCHANGED <<filled, setting, threads, putPanics>>

(* The end of get. *)
Got(b) ==
  /\ borrower[b] = "got" /\ Moves(b, "using")
  /\ Adjust(-1, 0, 1)
  /\ UNCHANGED <<empties, filled, setting, threads, putPanics>>

(* Pool.Put: pool(), then Put of the resource pool, of the connection or,  *)
(* if it is closed, of nil.                                                *)
PutConn(b) ==
  /\ borrower[b] = "using" /\ PoolUnlocked
  /\ IF connections
     THEN /\ \/ Moves(b, "put") /\ UNCHANGED counters
             \/ Moves(b, "drop") /\ Adjust(0, -1, 0)
          /\ UNCHANGED putPanics
     ELSE Moves(b, "out") /\ putPanics' = TRUE /\ UNCHANGED counters
  /\ UNCHANGED <<empties, filled, setting, threads>>

PutBack(b) ==
  /\ borrower[b] \in {"put", "drop"}
  /\ IF chanClosed \/ empties + filled >= MaxCap
     THEN Moves(b, "out") /\ putPanics' = TRUE /\ UNCHANGED <<empties, filled>>
     ELSE /\ Moves(b, "sent") /\ UNCHANGED putPanics
          /\ \/ borrower[b] = "put" /\ filled' = filled + 1 /\ UNCHANGED empties
             \/ borrower[b] = "drop" /\ empties' = empties + 1 /\ UNCHANGED filled
  /\ UNCHANGED <<counters, setting, threads>>

(* The end of Put. *)
Sent(b) ==
  /\ borrower[b] = "sent" /\ Moves(b, "out")
  /\ Adjust(1, 0, -1)
  /\ UNCHANGED <<empties, filled, setting, threads, putPanics>>

(* closeIdleResources takes a wrapper, may close its connection, and puts  *)
(* it back.  Close stops the timer first.                                  *)
IdleTake ==
  /\ idler = "none" /\ closer \in {"out", "stop"}
  /\ \/ filled > 0 /\ filled' = filled - 1 /\ idler' = "conn" /\ UNCHANGED empties
     \/ empties > 0 /\ empties' = empties - 1 /\ idler' = "empty" /\ UNCHANGED filled
  /\ UNCHANGED <<counters, setting, resizer, resizeLeft, closer, closeLeft, borrower, putPanics>>

IdleClose ==
  /\ idler = "conn" /\ idler' = "empty"
  /\ Adjust(0, -1, 0)
  /\ UNCHANGED <<empties, filled, setting, resizer, resizeLeft, closer, closeLeft, borrower,
                 putPanics>>

IdleBack ==
  /\ idler # "none" /\ idler' = "none" /\ empties + filled < MaxCap
  /\ \/ idler = "conn" /\ filled' = filled + 1 /\ UNCHANGED empties
     \/ idler = "empty" /\ empties' = empties + 1 /\ UNCHANGED filled
  /\ UNCHANGED <<counters, setting, resizer, resizeLeft, closer, closeLeft, borrower, putPanics>>
-----------------------------------------------------------------------------
(* Pool.SetCapacity(n): the lock, and the compare and swap of the capacity.*)
Resize(n) ==
  /\ PoolUnlocked /\ connections
  /\ capacity \notin {0, n}
  /\ capacity' = n
  /\ resizer' = IF n < capacity THEN "drain" ELSE "fill"
  /\ resizeLeft' = IF n < capacity THEN capacity - n ELSE n - capacity
  /\ UNCHANGED <<channel, chanClosed, connections, closer, closeLeft, idler, borrower, putPanics>>

(* Faulty variant: only wrappers with a connection are taken. *)
TakeOutFilled(kind) ==
  kind = "close" /\ filled > 0 /\ filled' = filled - 1 /\ UNCHANGED empties

(* A wrapper is taken out of the channel, to close its connection and      *)
(* count it or to count it only; a closed channel yields an empty one.     *)
TakeOut(kind) ==
  \/ kind = "close" /\ filled > 0 /\ filled' = filled - 1 /\ UNCHANGED empties
  \/ kind = "count" /\ empties > 0 /\ empties' = empties - 1 /\ UNCHANGED filled
  \/ kind = "count" /\ chanClosed /\ UNCHANGED <<empties, filled>>

CountOut(kind) == Adjust(-1, IF kind = "close" THEN -1 ELSE 0, 0)

ResizeStep ==
  /\ resizeLeft > 0 /\ resizeLeft' = resizeLeft - 1
  /\ \/ resizer = "drain" /\ \E kind \in {"close", "count"} : TakeOut(kind) /\ resizer' = kind
     \/ /\ resizer = "fill" /\ empties + filled < MaxCap
        /\ empties' = empties + 1 /\ resizer' = "added" /\ UNCHANGED filled
  /\ UNCHANGED <<counters, setting, closer, closeLeft, idler, borrower, putPanics>>

ResizeCount ==
  /\ \/ resizer \in {"close", "count"} /\ CountOut(resizer) /\ resizer' = "drain"
     \/ resizer = "added" /\ Adjust(1, 0, 0) /\ resizer' = "fill"
  /\ UNCHANGED <<empties, filled, setting, resizeLeft, closer, closeLeft, idler, borrower,
                 putPanics>>

ResizeEnd ==
  /\ resizer \in {"drain", "fill"} /\ resizeLeft = 0
  /\ resizer' = "out"
  /\ UNCHANGED <<channel, setting, resizeLeft, closer, closeLeft, idler, borrower, putPanics>>

(* Pool.Close: pool(), ResourcePool.Close, and the nil. *)
StartClose ==
  /\ closer = "out" /\ PoolUnlocked /\ closer' = "stop"
  /\ UNCHANGED <<channel, setting, resizer, resizeLeft, closeLeft, idler, borrower, putPanics>>

(* idleTimer.Stop waits for the pass that runs; SetCapacity(0). *)
SwapToZero ==
  /\ closer = "stop" /\ idler = "none" /\ closer' = "drain"
  /\ closeLeft' = capacity /\ capacity' = 0
  /\ UNCHANGED <<channel, chanClosed, connections, resizer, resizeLeft, idler, borrower, putPanics>>

DrainStep ==
  /\ closer = "drain" /\ closeLeft > 0 /\ closeLeft' = closeLeft - 1
  /\ \E kind \in {"close", "count"} : TakeOut(kind) /\ closer' = kind
  /\ UNCHANGED <<counters, setting, resizer, resizeLeft, idler, borrower, putPanics>>

DrainCount ==
  /\ closer \in {"close", "count"} /\ closer' = "drain"
  /\ CountOut(closer)
  /\ UNCHANGED <<empties, filled, setting, resizer, resizeLeft, closeLeft, idler, borrower,
                 putPanics>>

(* Faulty variant: the drain is not waited for. *)
CloseChannelEarly ==
  /\ closer = "drain" /\ closer' = "nil"
  /\ chanClosed' = TRUE
  /\ UNCHANGED <<channel, capacity, connections, resizer, resizeLeft, closeLeft, idler,
                 borrower, putPanics>>

CloseChannel ==
  /\ closer = "drain" /\ closeLeft = 0 /\ closer' = "nil"
  /\ chanClosed' = TRUE
  /\ UNCHANGED <<channel, capacity, connections, resizer, resizeLeft, closeLeft, idler,
                 borrower, putPanics>>

CloseEnd ==
  /\ closer = "nil" /\ PoolUnlocked /\ closer' = "done"
  /\ connections' = FALSE
  /\ UNCHANGED <<channel, capacity, chanClosed, resizer, resizeLeft, closeLeft, idler,
                 borrower, putPanics>>

BorrowerStep(b) == Fetch(b) \/ Make(b) \/ Got(b) \/ PutConn(b) \/ PutBack(b) \/ Sent(b)
IdlerStep == IdleTake \/ IdleClose \/ IdleBack
ResizerStep == ResizeStep \/ ResizeCount \/ ResizeEnd
CloserStep == SwapToZero \/ DrainStep \/ DrainCount \/ CloseChannel \/ CloseEnd

ConnPoolNext ==
  \/ \E b \in Borrowers : GetConn(b) \/ BorrowerStep(b)
  \/ IdlerStep
  \/ \E n \in Sizes : Resize(n)
  \/ ResizerStep \/ StartClose \/ CloserStep

(* Borrowers return what they borrow.  Who waits at the channel is served   *)
(* in the order of arrival, so a drain is not starved.                      *)
ConnPoolFairness ==
  /\ \A b \in Borrowers : WF_connPoolVars(BorrowerStep(b))
  /\ WF_connPoolVars(IdleBack)
  /\ SF_connPoolVars(ResizeStep) /\ WF_connPoolVars(ResizeCount \/ ResizeEnd)
  /\ SF_connPoolVars(CloserStep)

ConnPoolFairSpec == ConnPoolInit /\ [][ConnPoolNext]_connPoolVars /\ ConnPoolFairness
-----------------------------------------------------------------------------
Placed(S) == {b \in Borrowers : borrower[b] \in S}

Holding   == Placed({"got", "make", "using", "put", "drop"})
Fetched   == Placed({"got", "make"})
Returned  == Placed({"sent"})
InUse     == Placed({"using", "put", "drop", "sent"})
Connected == Placed({"got", "using", "put"})
Filling   == resizer \in {"fill", "added"}
Idling    == IF idler = "none" THEN 0 ELSE 1

(* What one thread has in its hands, or has not counted yet.               *)
Late(thread, kinds) == IF thread \in kinds THEN 1 ELSE 0

(* Until the channel is closed no wrapper is lost or made up: the ones in  *)
(* the channel and in somebody's hands are the capacity, plus those that a *)
(* resize or a close still has to take out, minus those to be put in,      *)
(* whatever the resizer, the closer, the idle timer and borrowers overlap. *)
WrappersConserved ==
  ~chanClosed =>
    empties + filled + Cardinality(Holding) + Idling
      = capacity + closeLeft + (IF Filling THEN -resizeLeft ELSE resizeLeft)

(* The counters that the pool exports agree with the wrappers, up to what  *)
(* a thread has received or sent and not counted yet.                      *)
CountersAgree ==
  ~chanClosed =>
    /\ counters.available = empties + filled + Idling + Cardinality(Fetched) - Cardinality(Returned)
                             + Late(resizer, {"close", "count"}) + Late(closer, {"close", "count"})
                             - Late(resizer, {"added"})
    /\ counters.inUse = Cardinality(InUse)
    /\ counters.active = filled + Cardinality(Connected) + Late(idler, {"conn"})
                          + Late(resizer, {"close"}) + Late(closer, {"close"})

(* Put never finds the channel full: it panics only once it is closed.     *)
PutFits == putPanics => chanClosed

(* The accounts of the pool: wrappers, counters and channel agree.         *)
PoolAccounts == WrappersConserved /\ CountersAgree /\ PutFits

(* ResourcePool.Close "waits for all resources to be returned (Put)": when *)
(* it closes the channel, only what a SetCapacity that overlaps with it is *)
(* still waiting for is out.                                               *)
CloseWaits ==
  [][chanClosed' /\ ~chanClosed =>
       Cardinality(Holding) + Idling <= (IF resizer # "out" /\ ~Filling THEN resizeLeft ELSE 0)
    ]_connPoolVars

(* A Put cannot return its connection: it needs the lock that SetCapacity  *)
(* of the connection pool holds while it waits for the connection.         *)
PutBlocked == resizer = "drain" /\ \E b \in Borrowers : borrower[b] = "using"

(* SetCapacity "waits till the necessary number of resources are returned  *)
(* to the pool", and it ends, unless it keeps a Put from returning one for *)
(* ever.                                                                   *)
ResizeEnds == resizer # "out" ~> (resizer = "out" \/ []PutBlocked)

(* Close ends, unless such a SetCapacity keeps the lock for ever.          *)
PoolCloses == closer = "stop" ~> (closer = "done" \/ []PutBlocked)

(* A change of the capacity, to zero or to another value, comes to an end. *)
PoolSettles == ResizeEnds /\ PoolCloses
=============================================================================
