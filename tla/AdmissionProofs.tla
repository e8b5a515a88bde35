-------------------------- MODULE AdmissionProofs ---------------------------
(***************************************************************************)
(* The two places where a request of the tablet waits for its turn: the    *)
(* pool of connections, and the queue of a hot row.                        *)
(*                                                                         *)
(* The pool, for any number of borrowers, any capacity and any sizes: no   *)
(* wrapper is lost or made up, its counters are right, Put never finds the *)
(* channel full, and Close waits for what is out.                          *)
(*                                                                         *)
(* The hot row protection, for every set of calls, keys and limits: it     *)
(* counts right and protects the row.  What must be added to the           *)
(* properties: the calls blocked on a channel are calls of its key that    *)
(* wait, each once, so that a receive lets a waiting call of the same key  *)
(* through; the one call of a key without a channel is let through, so     *)
(* that the element the second call puts in for it is right; and a channel *)
(* goes with its queue, so that a first call never finds one.              *)
(***************************************************************************)
EXTENDS ConnPool, TxSerializer, QueueLemmas, FiniteSetTheorems, TLAPS

(* The backends that are tried on a leaf, and the time they may take.      *)
USE ZenonT(10), SMTT(20)

Where(f, S) == {b \in Borrowers : f[b] \in S}

ConnPoolTypeOK ==
  /\ capacity \in Nat /\ empties \in Nat /\ filled \in Nat
  /\ counters \in [available : Int, active : Int, inUse : Int]
  /\ chanClosed \in BOOLEAN /\ connections \in BOOLEAN
  /\ borrower \in [Borrowers -> {"out", "wait", "make", "got", "using", "put", "drop", "sent"}]
  /\ resizer \in {"out", "drain", "fill", "close", "count", "added"} /\ resizeLeft \in Nat
  /\ closer \in {"out", "stop", "drain", "close", "count", "nil", "done"} /\ closeLeft \in Nat
  /\ idler \in {"none", "conn", "empty"} /\ putPanics \in BOOLEAN

(* What the resizer and the closer still have to do fits the capacity.     *)
ThreadsAgree ==
  /\ resizer = "out" => resizeLeft = 0
  /\ closer \in {"out", "stop"} => closeLeft = 0
  /\ closer \notin {"out", "stop"} => capacity = 0
  /\ chanClosed <=> closer \in {"nil", "done"}
  /\ ~connections => chanClosed
  /\ capacity + closeLeft + (IF Filling THEN 0 ELSE resizeLeft) <= MaxCap

ConnInv == ConnPoolTypeOK /\ ThreadsAgree /\ WrappersConserved /\ CountersAgree /\ PutFits
-----------------------------------------------------------------------------
(* The sets of borrowers that the properties count.                        *)
CountsAreNumbers ==
  /\ Cardinality(Holding) \in Nat /\ Cardinality(Holding') \in Nat
  /\ Cardinality(Fetched) \in Nat /\ Cardinality(Fetched') \in Nat
  /\ Cardinality(Returned) \in Nat /\ Cardinality(Returned') \in Nat
  /\ Cardinality(InUse) \in Nat /\ Cardinality(InUse') \in Nat
  /\ Cardinality(Connected) \in Nat /\ Cardinality(Connected') \in Nat

CountsStay ==
  /\ Cardinality(Holding') = Cardinality(Holding)
  /\ Cardinality(Fetched') = Cardinality(Fetched)
  /\ Cardinality(Returned') = Cardinality(Returned)
  /\ Cardinality(InUse') = Cardinality(InUse)
  /\ Cardinality(Connected') = Cardinality(Connected)

Places == {"out", "wait", "make", "got", "using", "put", "drop", "sent"}
One(p) == IF p THEN 1 ELSE 0

CountsMove(b, l) ==
  /\ Cardinality(Holding') + One(borrower[b] \in {"got", "make", "using", "put", "drop"})
       = Cardinality(Holding) + One(l \in {"got", "make", "using", "put", "drop"})
  /\ Cardinality(Fetched') + One(borrower[b] \in {"got", "make"})
       = Cardinality(Fetched) + One(l \in {"got", "make"})
  /\ Cardinality(Returned') + One(borrower[b] \in {"sent"})
       = Cardinality(Returned) + One(l \in {"sent"})
  /\ Cardinality(InUse') + One(borrower[b] \in {"using", "put", "drop", "sent"})
       = Cardinality(InUse) + One(l \in {"using", "put", "drop", "sent"})
  /\ Cardinality(Connected') + One(borrower[b] \in {"got", "using", "put"})
       = Cardinality(Connected) + One(l \in {"got", "using", "put"})

(* A borrower that moves from one place to another is counted there.       *)
LEMMA BorrowerMoves ==
  ASSUME ConnPoolTypeOK, NEW b \in Borrowers, NEW l \in Places, Moves(b, l)
  PROVE  borrower' \in [Borrowers -> Places] /\ CountsAreNumbers /\ CountsMove(b, l)
<1>1. borrower \in [Borrowers -> Places]
  BY DEF ConnPoolTypeOK, Places
<1>2. borrower' \in [Borrowers -> Places] /\ borrower' = [borrower EXCEPT ![b] = l]
  BY DEF ConnPoolTypeOK, Places, Moves
<1>3. \A S : Placed(S)' = Where(borrower', S) /\ Placed(S) = Where(borrower, S)
  BY DEF Placed, Where
<1>4. \A S : /\ Cardinality(Where(borrower, S)) \in Nat
             /\ Cardinality(Where(borrower', S)) \in Nat
             /\ Cardinality(Where(borrower', S)) + One(borrower[b] \in S)
                  = Cardinality(Where(borrower, S)) + One(l \in S)
  <2> TAKE S
  <2>1. IsFiniteSet(Where(borrower, S)) /\ IsFiniteSet(Where(borrower', S))
    BY ConnPoolAssumption, FS_Subset DEF Where
  <2>2. Cardinality(Where(borrower, S)) \in Nat /\ Cardinality(Where(borrower', S)) \in Nat
    BY <2>1, FS_CardinalityType
  <2>3. CASE l \in S /\ borrower[b] \notin S
    <3>1. Where(borrower', S) = Where(borrower, S) \cup {b} /\ b \notin Where(borrower, S)
      BY <1>1, <1>2, <2>3 DEF Where
    <3>2. Cardinality(Where(borrower', S)) = Cardinality(Where(borrower, S)) + 1
      BY <3>1, <2>1, FS_AddElement
    <3> QED BY <3>2, <2>2, <2>3, SMT DEF One
  <2>4. CASE l \notin S /\ borrower[b] \in S
    <3>1. Where(borrower, S) = Where(borrower', S) \cup {b} /\ b \notin Where(borrower', S)
      BY <1>1, <1>2, <2>4 DEF Where
    <3>2. Cardinality(Where(borrower, S)) = Cardinality(Where(borrower', S)) + 1
      BY <3>1, <2>1, FS_AddElement
    <3> QED BY <3>2, <2>2, <2>4, SMT DEF One
  <2>5. CASE l \in S <=> borrower[b] \in S
    <3>1. Where(borrower', S) = Where(borrower, S)
      BY <1>1, <1>2, <2>5 DEF Where
    <3> QED BY <3>1, <2>2, <2>5 DEF One
  <2> QED BY <2>3, <2>4, <2>5
<1>5. /\ Holding = Where(borrower, {"got", "make", "using", "put", "drop"})
      /\ Holding' = Where(borrower', {"got", "make", "using", "put", "drop"})
  BY DEF Holding, Placed, Where
<1>6. /\ Fetched = Where(borrower, {"got", "make"})
      /\ Fetched' = Where(borrower', {"got", "make"})
  BY DEF Fetched, Placed, Where
<1>7. /\ Returned = Where(borrower, {"sent"})
      /\ Returned' = Where(borrower', {"sent"})
  BY DEF Returned, Placed, Where
<1>8. /\ InUse = Where(borrower, {"using", "put", "drop", "sent"})
      /\ InUse' = Where(borrower', {"using", "put", "drop", "sent"})
  BY DEF InUse, Placed, Where
<1>9. /\ Connected = Where(borrower, {"got", "using", "put"})
      /\ Connected' = Where(borrower', {"got", "using", "put"})
  BY DEF Connected, Placed, Where
<1>a. CountsAreNumbers
  BY <1>4, <1>5, <1>6, <1>7, <1>8, <1>9 DEF CountsAreNumbers
<1>b. CountsMove(b, l)
  BY <1>4, <1>5, <1>6, <1>7, <1>8, <1>9 DEF CountsMove
<1> QED BY <1>2, <1>a, <1>b

(* The counts stay while no borrower moves.                                *)
LEMMA BorrowersStay ==
  ASSUME ConnPoolTypeOK, borrower' = borrower
  PROVE  CountsAreNumbers /\ CountsStay
<1>1. /\ Holding' = Holding /\ IsFiniteSet(Holding)
      /\ Fetched' = Fetched /\ IsFiniteSet(Fetched)
      /\ Returned' = Returned /\ IsFiniteSet(Returned)
      /\ InUse' = InUse /\ IsFiniteSet(InUse)
      /\ Connected' = Connected /\ IsFiniteSet(Connected)
  BY ConnPoolAssumption, FS_Subset DEF Holding, Fetched, Returned, InUse, Connected, Placed
<1> QED BY <1>1, FS_CardinalityType DEF CountsAreNumbers, CountsStay
-----------------------------------------------------------------------------
LEMMA ConnInvInit == ConnPoolInit => ConnInv
<1> SUFFICES ASSUME ConnPoolInit PROVE ConnInv
  OBVIOUS
<1>a. /\ capacity \in Nat /\ empties \in Nat /\ filled \in Nat
      /\ resizeLeft \in Nat /\ closeLeft \in Nat
  BY ConnPoolAssumption DEF ConnPoolInit
<1>b. counters \in [available : Int, active : Int, inUse : Int]
  BY ConnPoolAssumption, SMT DEF ConnPoolInit
<1>c. chanClosed \in BOOLEAN /\ connections \in BOOLEAN /\ putPanics \in BOOLEAN
  BY DEF ConnPoolInit
<1>1. ConnPoolTypeOK
  BY <1>a, <1>b, <1>c DEF ConnPoolInit, ConnPoolTypeOK
<1>3. ThreadsAgree
  BY ConnPoolAssumption, SMT DEF ConnPoolInit, ThreadsAgree, Filling
<1>2. /\ Holding = {} /\ Fetched = {} /\ Returned = {}
      /\ InUse = {} /\ Connected = {}
  BY DEF ConnPoolInit, Holding, Fetched, Returned, InUse, Connected, Placed
<1> QED
  BY <1>1, <1>2, <1>3, FS_EmptySet, ConnPoolAssumption, SMT
  DEF ConnPoolInit, ConnInv, WrappersConserved, CountersAgree, PutFits, Idling, Late, Filling

(* The idle timer takes a wrapper.                                         *)
LEMMA IdleTakeInv ==
  ASSUME ConnInv, IdleTake
  PROVE  ConnInv'
<1> USE DEF ConnInv
<1>1. borrower' = borrower
  BY DEF IdleTake, setting
<1>2. CountsAreNumbers /\ CountsStay
  BY <1>1, BorrowersStay
<1>3. ConnPoolTypeOK'
  BY <1>1, ConnPoolAssumption, SMT
  DEF IdleTake, setting, ConnPoolTypeOK
<1>4. ThreadsAgree'
  BY <1>3, ConnPoolAssumption, SMT
  DEF IdleTake, setting, ConnPoolTypeOK, ThreadsAgree, Filling
<1>5. WrappersConserved'
  BY <1>2, <1>3, SMT
  DEF IdleTake, setting, ConnPoolTypeOK, ThreadsAgree, WrappersConserved, CountsAreNumbers,
      CountsStay, Idling, Filling
<1>6. CountersAgree'
  BY <1>2, <1>3, SMT
  DEF IdleTake, setting, ConnPoolTypeOK, ThreadsAgree, CountersAgree, CountsAreNumbers,
      CountsStay, Idling, Late
<1>7. PutFits'
  BY <1>3
  DEF IdleTake, setting, ConnPoolTypeOK, ThreadsAgree, PutFits
<1> QED BY <1>3, <1>4, <1>5, <1>6, <1>7

(* The idle timer closes a connection.                                     *)
LEMMA IdleCloseInv ==
  ASSUME ConnInv, IdleClose
  PROVE  ConnInv'
<1> USE DEF ConnInv
<1>1. borrower' = borrower
  BY DEF IdleClose, setting, Adjust
<1>2. CountsAreNumbers /\ CountsStay
  BY <1>1, BorrowersStay
<1>3. ConnPoolTypeOK'
  BY <1>1, ConnPoolAssumption, SMT
  DEF IdleClose, setting, Adjust, ConnPoolTypeOK
<1>4. ThreadsAgree'
  BY <1>3, ConnPoolAssumption, SMT
  DEF IdleClose, setting, Adjust, ConnPoolTypeOK, ThreadsAgree, Filling
<1>5. WrappersConserved'
  BY <1>2, <1>3, SMT
  DEF IdleClose, setting, Adjust, ConnPoolTypeOK, ThreadsAgree, WrappersConserved,
      CountsAreNumbers, CountsStay, Idling, Filling
<1>6. CountersAgree'
  BY <1>2, <1>3, SMT
  DEF IdleClose, setting, Adjust, ConnPoolTypeOK, ThreadsAgree, CountersAgree, CountsAreNumbers,
      CountsStay, Idling, Late
<1>7. PutFits'
  BY <1>3
  DEF IdleClose, setting, Adjust, ConnPoolTypeOK, ThreadsAgree, PutFits
<1> QED BY <1>3, <1>4, <1>5, <1>6, <1>7

(* The idle timer puts a wrapper back.                                     *)
LEMMA IdleBackInv ==
  ASSUME ConnInv, IdleBack
  PROVE  ConnInv'
<1> USE DEF ConnInv
<1>1. borrower' = borrower
  BY DEF IdleBack, setting
<1>2. CountsAreNumbers /\ CountsStay
  BY <1>1, BorrowersStay
<1>3. ConnPoolTypeOK'
  BY <1>1, ConnPoolAssumption, SMT
  DEF IdleBack, setting, ConnPoolTypeOK
<1>4. ThreadsAgree'
  BY <1>3, ConnPoolAssumption, SMT
  DEF IdleBack, setting, ConnPoolTypeOK, ThreadsAgree, Filling
<1>5. WrappersConserved'
  BY <1>2, <1>3, SMT
  DEF IdleBack, setting, ConnPoolTypeOK, ThreadsAgree, WrappersConserved, CountsAreNumbers,
      CountsStay, Idling, Filling
<1>6. CountersAgree'
  BY <1>2, <1>3, SMT
  DEF IdleBack, setting, ConnPoolTypeOK, ThreadsAgree, CountersAgree, CountsAreNumbers,
      CountsStay, Idling, Late
<1>7. PutFits'
  BY <1>3
  DEF IdleBack, setting, ConnPoolTypeOK, ThreadsAgree, PutFits
<1> QED BY <1>3, <1>4, <1>5, <1>6, <1>7

(* SetCapacity swaps the capacity.                                         *)
LEMMA ResizeInv ==
  ASSUME ConnInv, NEW n \in Sizes, Resize(n)
  PROVE  ConnInv'
<1> USE DEF ConnInv
<1>1. borrower' = borrower
  BY DEF Resize, channel, PoolUnlocked
<1>2. CountsAreNumbers /\ CountsStay
  BY <1>1, BorrowersStay
<1>3. ConnPoolTypeOK'
  BY <1>1, ConnPoolAssumption, SMT
  DEF Resize, channel, PoolUnlocked, ConnPoolTypeOK
<1>4. ThreadsAgree'
  BY <1>3, ConnPoolAssumption, SMT
  DEF Resize, channel, PoolUnlocked, ConnPoolTypeOK, ThreadsAgree, Filling
<1>5. WrappersConserved'
  BY <1>2, <1>3, SMT
  DEF Resize, channel, PoolUnlocked, ConnPoolTypeOK, ThreadsAgree, WrappersConserved,
      CountsAreNumbers, CountsStay, Idling, Filling
<1>6. CountersAgree'
  BY <1>2, <1>3, SMT
  DEF Resize, channel, PoolUnlocked, ConnPoolTypeOK, ThreadsAgree, CountersAgree,
      CountsAreNumbers, CountsStay, Idling, Late
<1>7. PutFits'
  BY <1>3
  DEF Resize, channel, PoolUnlocked, ConnPoolTypeOK, ThreadsAgree, PutFits
<1> QED BY <1>3, <1>4, <1>5, <1>6, <1>7

(* SetCapacity takes a wrapper out or puts one in.                         *)
LEMMA ResizeStepInv ==
  ASSUME ConnInv, ResizeStep
  PROVE  ConnInv'
<1> USE DEF ConnInv
<1>1. borrower' = borrower
  BY DEF ResizeStep, setting, TakeOut
<1>2. CountsAreNumbers /\ CountsStay
  BY <1>1, BorrowersStay
<1>3. ConnPoolTypeOK'
  BY <1>1, ConnPoolAssumption, SMT
  DEF ResizeStep, setting, TakeOut, ConnPoolTypeOK
<1>4. ThreadsAgree'
  BY <1>3, ConnPoolAssumption, SMT
  DEF ResizeStep, setting, TakeOut, ConnPoolTypeOK, ThreadsAgree, Filling
<1>5. WrappersConserved'
  BY <1>2, <1>3, SMT
  DEF ResizeStep, setting, TakeOut, ConnPoolTypeOK, ThreadsAgree, WrappersConserved,
      CountsAreNumbers, CountsStay, Idling, Filling
<1>6. CountersAgree'
  <2>1. CASE resizer = "drain"
    <3>1. PICK kind \in {"close", "count"} : TakeOut(kind) /\ resizer' = kind
      BY <2>1 DEF ResizeStep
    <3>2. Late(resizer, {"close", "count"}) = 0 /\ Late(resizer', {"close", "count"}) = 1
      BY <2>1, <3>1 DEF Late
    <3>3. Late(resizer, {"added"}) = 0 /\ Late(resizer', {"added"}) = 0 /\ Late(resizer, {"close"}) = 0
      BY <2>1, <3>1 DEF Late
    <3>4. /\ Idling' = Idling /\ Idling \in Nat
          /\ \A S : Late(closer', S) = Late(closer, S) /\ Late(closer, S) \in Nat
          /\ \A S : Late(idler', S) = Late(idler, S) /\ Late(idler, S) \in Nat
          /\ counters' = counters /\ chanClosed' = chanClosed
      BY DEF ResizeStep, setting, Late, Idling
    <3>5. CASE kind = "close"
      <4>1. Late(resizer', {"close"}) = 1
        BY <3>1, <3>5 DEF Late
      <4>2. filled' = filled - 1 /\ empties' = empties
        BY <3>1, <3>5 DEF TakeOut
      <4> QED
        BY <1>2, <1>3, <3>2, <3>3, <3>4, <4>1, <4>2, SMT
        DEF ConnPoolTypeOK, CountersAgree, CountsAreNumbers, CountsStay
    <3>6. CASE kind = "count"
      <4>1. Late(resizer', {"close"}) = 0
        BY <3>1, <3>6 DEF Late
      <4>2. ~chanClosed => filled' = filled /\ empties' = empties - 1
        BY <3>1, <3>6 DEF TakeOut
      <4> QED
        BY <1>2, <1>3, <3>2, <3>3, <3>4, <4>1, <4>2, SMT
        DEF ConnPoolTypeOK, CountersAgree, CountsAreNumbers, CountsStay
    <3> QED BY <3>1, <3>5, <3>6
  <2>2. CASE resizer = "fill"
    BY <1>2, <1>3, <2>2, SMT
    DEF ResizeStep, setting, ConnPoolTypeOK, CountersAgree, CountsAreNumbers, CountsStay,
        Idling, Late
  <2> QED BY <2>1, <2>2 DEF ResizeStep
<1>7. PutFits'
  BY <1>3
  DEF ResizeStep, setting, TakeOut, ConnPoolTypeOK, ThreadsAgree, PutFits
<1> QED BY <1>3, <1>4, <1>5, <1>6, <1>7

(* SetCapacity counts it.                                                  *)
LEMMA ResizeCountInv ==
  ASSUME ConnInv, ResizeCount
  PROVE  ConnInv'
<1> USE DEF ConnInv
<1>1. borrower' = borrower
  BY DEF ResizeCount, setting, CountOut, Adjust
<1>2. CountsAreNumbers /\ CountsStay
  BY <1>1, BorrowersStay
<1>3. ConnPoolTypeOK'
  BY <1>1, ConnPoolAssumption, SMT
  DEF ResizeCount, setting, CountOut, Adjust, ConnPoolTypeOK
<1>4. ThreadsAgree'
  BY <1>3, ConnPoolAssumption, SMT
  DEF ResizeCount, setting, CountOut, Adjust, ConnPoolTypeOK, ThreadsAgree, Filling
<1>5. WrappersConserved'
  <2>1. (Filling' <=> Filling) /\ Idling' = Idling
    BY DEF ResizeCount, Filling, Idling
  <2> QED
    BY <1>2, <2>1 DEF ResizeCount, setting, WrappersConserved, CountsStay
<1>6. CountersAgree'
  <2>1. CASE resizer \in {"close", "count"}
    BY <1>2, <1>3, <2>1, SMT
    DEF ResizeCount, setting, CountOut, Adjust, ConnPoolTypeOK, CountersAgree, CountsAreNumbers,
        CountsStay, Idling, Late
  <2>2. CASE resizer = "added"
    BY <1>2, <1>3, <2>2, SMT
    DEF ResizeCount, setting, Adjust, ConnPoolTypeOK, CountersAgree, CountsAreNumbers,
        CountsStay, Idling, Late
  <2> QED BY <2>1, <2>2 DEF ResizeCount
<1>7. PutFits'
  BY <1>3
  DEF ResizeCount, setting, CountOut, Adjust, ConnPoolTypeOK, ThreadsAgree, PutFits
<1> QED BY <1>3, <1>4, <1>5, <1>6, <1>7

(* SetCapacity returns.                                                    *)
LEMMA ResizeEndInv ==
  ASSUME ConnInv, ResizeEnd
  PROVE  ConnInv'
<1> USE DEF ConnInv
<1>1. borrower' = borrower
  BY DEF ResizeEnd, channel, setting
<1>2. CountsAreNumbers /\ CountsStay
  BY <1>1, BorrowersStay
<1>3. ConnPoolTypeOK'
  BY <1>1, ConnPoolAssumption, SMT
  DEF ResizeEnd, channel, setting, ConnPoolTypeOK
<1>4. ThreadsAgree'
  BY <1>3, ConnPoolAssumption, SMT
  DEF ResizeEnd, channel, setting, ConnPoolTypeOK, ThreadsAgree, Filling
<1>5. WrappersConserved'
  BY <1>2, <1>3, SMT
  DEF ResizeEnd, channel, setting, ConnPoolTypeOK, ThreadsAgree, WrappersConserved,
      CountsAreNumbers, CountsStay, Idling, Filling
<1>6. CountersAgree'
  BY <1>2, <1>3, SMT
  DEF ResizeEnd, channel, setting, ConnPoolTypeOK, ThreadsAgree, CountersAgree,
      CountsAreNumbers, CountsStay, Idling, Late
<1>7. PutFits'
  BY <1>3
  DEF ResizeEnd, channel, setting, ConnPoolTypeOK, ThreadsAgree, PutFits
<1> QED BY <1>3, <1>4, <1>5, <1>6, <1>7

(* Close reads the pool.                                                   *)
LEMMA StartCloseInv ==
  ASSUME ConnInv, StartClose
  PROVE  ConnInv'
<1> USE DEF ConnInv
<1>1. borrower' = borrower
  BY DEF StartClose, channel, setting, PoolUnlocked
<1>2. CountsAreNumbers /\ CountsStay
  BY <1>1, BorrowersStay
<1>3. ConnPoolTypeOK'
  BY <1>1, ConnPoolAssumption, SMT
  DEF StartClose, channel, setting, PoolUnlocked, ConnPoolTypeOK
<1>4. ThreadsAgree'
  BY <1>3, ConnPoolAssumption, SMT
  DEF StartClose, channel, setting, PoolUnlocked, ConnPoolTypeOK, ThreadsAgree, Filling
<1>5. WrappersConserved'
  BY <1>2, <1>3, SMT
  DEF StartClose, channel, setting, PoolUnlocked, ConnPoolTypeOK, ThreadsAgree,
      WrappersConserved, CountsAreNumbers, CountsStay, Idling, Filling
<1>6. CountersAgree'
  BY <1>2, <1>3, SMT
  DEF StartClose, channel, setting, PoolUnlocked, ConnPoolTypeOK, ThreadsAgree, CountersAgree,
      CountsAreNumbers, CountsStay, Idling, Late
<1>7. PutFits'
  BY <1>3
  DEF StartClose, channel, setting, PoolUnlocked, ConnPoolTypeOK, ThreadsAgree, PutFits
<1> QED BY <1>3, <1>4, <1>5, <1>6, <1>7

(* Close sets the capacity to zero.                                        *)
LEMMA SwapToZeroInv ==
  ASSUME ConnInv, SwapToZero
  PROVE  ConnInv'
<1> USE DEF ConnInv
<1>1. borrower' = borrower
  BY DEF SwapToZero, channel
<1>2. CountsAreNumbers /\ CountsStay
  BY <1>1, BorrowersStay
<1>3. ConnPoolTypeOK'
  BY <1>1, ConnPoolAssumption, SMT
  DEF SwapToZero, channel, ConnPoolTypeOK
<1>4. ThreadsAgree'
  BY <1>3, ConnPoolAssumption, SMT
  DEF SwapToZero, channel, ConnPoolTypeOK, ThreadsAgree, Filling
<1>5. WrappersConserved'
  BY <1>2, <1>3, SMT
  DEF SwapToZero, channel, ConnPoolTypeOK, ThreadsAgree, WrappersConserved, CountsAreNumbers,
      CountsStay, Idling, Filling
<1>6. CountersAgree'
  BY <1>2, <1>3, SMT
  DEF SwapToZero, channel, ConnPoolTypeOK, ThreadsAgree, CountersAgree, CountsAreNumbers,
      CountsStay, Idling, Late
<1>7. PutFits'
  BY <1>3
  DEF SwapToZero, channel, ConnPoolTypeOK, ThreadsAgree, PutFits
<1> QED BY <1>3, <1>4, <1>5, <1>6, <1>7

(* Close takes a wrapper out.                                              *)
LEMMA DrainStepInv ==
  ASSUME ConnInv, DrainStep
  PROVE  ConnInv'
<1> USE DEF ConnInv
<1>1. borrower' = borrower
  BY DEF DrainStep, setting, TakeOut
<1>2. CountsAreNumbers /\ CountsStay
  BY <1>1, BorrowersStay
<1>3. ConnPoolTypeOK'
  BY <1>1, ConnPoolAssumption, SMT
  DEF DrainStep, setting, TakeOut, ConnPoolTypeOK
<1>4. ThreadsAgree'
  BY <1>3, ConnPoolAssumption, SMT
  DEF DrainStep, setting, TakeOut, ConnPoolTypeOK, ThreadsAgree, Filling
<1>5. WrappersConserved'
  BY <1>2, <1>3, SMT
  DEF DrainStep, setting, TakeOut, ConnPoolTypeOK, ThreadsAgree, WrappersConserved,
      CountsAreNumbers, CountsStay, Idling, Filling
<1>6. CountersAgree'
  BY <1>2, <1>3, SMT
  DEF DrainStep, setting, TakeOut, ConnPoolTypeOK, ThreadsAgree, CountersAgree,
      CountsAreNumbers, CountsStay, Idling, Late
<1>7. PutFits'
  BY <1>3
  DEF DrainStep, setting, TakeOut, ConnPoolTypeOK, ThreadsAgree, PutFits
<1> QED BY <1>3, <1>4, <1>5, <1>6, <1>7

(* Close counts it.                                                        *)
LEMMA DrainCountInv ==
  ASSUME ConnInv, DrainCount
  PROVE  ConnInv'
<1> USE DEF ConnInv
<1>1. borrower' = borrower
  BY DEF DrainCount, setting, CountOut, Adjust
<1>2. CountsAreNumbers /\ CountsStay
  BY <1>1, BorrowersStay
<1>3. ConnPoolTypeOK'
  BY <1>1, ConnPoolAssumption, SMT
  DEF DrainCount, setting, CountOut, Adjust, ConnPoolTypeOK
<1>4. ThreadsAgree'
  BY <1>3, ConnPoolAssumption, SMT
  DEF DrainCount, setting, CountOut, Adjust, ConnPoolTypeOK, ThreadsAgree, Filling
<1>5. WrappersConserved'
  BY <1>2, <1>3, SMT
  DEF DrainCount, setting, CountOut, Adjust, ConnPoolTypeOK, ThreadsAgree, WrappersConserved,
      CountsAreNumbers, CountsStay, Idling, Filling
<1>6. CountersAgree'
  BY <1>2, <1>3, SMT
  DEF DrainCount, setting, CountOut, Adjust, ConnPoolTypeOK, ThreadsAgree, CountersAgree,
      CountsAreNumbers, CountsStay, Idling, Late
<1>7. PutFits'
  BY <1>3
  DEF DrainCount, setting, CountOut, Adjust, ConnPoolTypeOK, ThreadsAgree, PutFits
<1> QED BY <1>3, <1>4, <1>5, <1>6, <1>7

(* Close closes the channel.                                               *)
LEMMA CloseChannelInv ==
  ASSUME ConnInv, CloseChannel
  PROVE  ConnInv'
<1> USE DEF ConnInv
<1>1. borrower' = borrower
  BY DEF CloseChannel, channel
<1>2. CountsAreNumbers /\ CountsStay
  BY <1>1, BorrowersStay
<1>3. ConnPoolTypeOK'
  BY <1>1, ConnPoolAssumption, SMT
  DEF CloseChannel, channel, ConnPoolTypeOK
<1>4. ThreadsAgree'
  BY <1>3, ConnPoolAssumption, SMT
  DEF CloseChannel, channel, ConnPoolTypeOK, ThreadsAgree, Filling
<1>5. WrappersConserved'
  BY <1>2, <1>3, SMT
  DEF CloseChannel, channel, ConnPoolTypeOK, ThreadsAgree, WrappersConserved, CountsAreNumbers,
      CountsStay, Idling, Filling
<1>6. CountersAgree'
  BY <1>2, <1>3, SMT
  DEF CloseChannel, channel, ConnPoolTypeOK, ThreadsAgree, CountersAgree, CountsAreNumbers,
      CountsStay, Idling, Late
<1>7. PutFits'
  BY <1>3
  DEF CloseChannel, channel, ConnPoolTypeOK, ThreadsAgree, PutFits
<1> QED BY <1>3, <1>4, <1>5, <1>6, <1>7

(* Close returns.                                                          *)
LEMMA CloseEndInv ==
  ASSUME ConnInv, CloseEnd
  PROVE  ConnInv'
<1> USE DEF ConnInv
<1>1. borrower' = borrower
  BY DEF CloseEnd, channel, PoolUnlocked
<1>2. CountsAreNumbers /\ CountsStay
  BY <1>1, BorrowersStay
<1>3. ConnPoolTypeOK'
  BY <1>1 DEF CloseEnd, channel, PoolUnlocked, ConnPoolTypeOK
<1>4. ThreadsAgree'
  BY <1>3, ConnPoolAssumption, SMT
  DEF CloseEnd, channel, PoolUnlocked, ConnPoolTypeOK, ThreadsAgree, Filling
<1>5. WrappersConserved'
  BY <1>2, <1>3, SMT
  DEF CloseEnd, channel, PoolUnlocked, ConnPoolTypeOK, ThreadsAgree, WrappersConserved,
      CountsAreNumbers, CountsStay, Idling, Filling
<1>6. CountersAgree'
  BY <1>2, <1>3, SMT
  DEF CloseEnd, channel, PoolUnlocked, ConnPoolTypeOK, ThreadsAgree, CountersAgree,
      CountsAreNumbers, CountsStay, Idling, Late
<1>7. PutFits'
  BY <1>3
  DEF CloseEnd, channel, PoolUnlocked, ConnPoolTypeOK, ThreadsAgree, PutFits
<1> QED BY <1>3, <1>4, <1>5, <1>6, <1>7

(* A borrower calls Get.                                                   *)
LEMMA GetConnInv ==
  ASSUME ConnInv, NEW b \in Borrowers, GetConn(b)
  PROVE  ConnInv'
<1> USE DEF ConnInv
<1>a. ThreadsAgree'
  BY DEF GetConn, channel, setting, PoolUnlocked, threads, ThreadsAgree, Filling
<1>1. CASE Moves(b, "wait")
  <2>0. borrower[b] = "out" /\ "wait" \in Places /\ Moves(b, "wait")
    BY <1>1 DEF GetConn, Places
  <2>a. borrower' \in [Borrowers -> Places] /\ CountsAreNumbers /\ CountsMove(b, "wait")
    BY <2>0, BorrowerMoves
  <2>1. /\ Cardinality(Holding') = Cardinality(Holding)
        /\ Cardinality(Fetched') = Cardinality(Fetched)
        /\ Cardinality(Returned') = Cardinality(Returned)
        /\ Cardinality(InUse') = Cardinality(InUse)
        /\ Cardinality(Connected') = Cardinality(Connected)
    BY <2>0, <2>a, SMT DEF CountsAreNumbers, CountsMove, One
  <2>2. ConnPoolTypeOK'
    BY <1>1, <2>0, <2>a, ConnPoolAssumption, SMT
    DEF GetConn, channel, setting, PoolUnlocked, threads, ConnPoolTypeOK, Places
  <2>3. WrappersConserved'
    BY <1>1, <2>0, <2>1, <2>2, <2>a, SMT
    DEF GetConn, channel, setting, PoolUnlocked, threads, Moves, ConnPoolTypeOK, ThreadsAgree,
        WrappersConserved, CountsAreNumbers, Idling, Filling
  <2>4. CountersAgree'
    BY <1>1, <2>0, <2>1, <2>2, <2>a, SMT
    DEF GetConn, channel, setting, PoolUnlocked, threads, Moves, ConnPoolTypeOK, CountersAgree,
        CountsAreNumbers, Idling, Late
  <2>5. PutFits'
    BY <1>1, <2>0, <2>2
    DEF GetConn, channel, setting, PoolUnlocked, threads, ConnPoolTypeOK, ThreadsAgree, PutFits
  <2> QED BY <1>a, <2>2, <2>3, <2>4, <2>5
<1> QED BY <1>1 DEF GetConn

(* A borrower is served or gives up.                                       *)
LEMMA FetchInv ==
  ASSUME ConnInv, NEW b \in Borrowers, Fetch(b)
  PROVE  ConnInv'
<1> USE DEF ConnInv
<1>a. ThreadsAgree'
  BY DEF Fetch, setting, threads, ThreadsAgree, Filling
<1>1. CASE Moves(b, "got")
  <2>0. borrower[b] = "wait" /\ "got" \in Places /\ Moves(b, "got")
    BY <1>1 DEF Fetch, Places
  <2>a. borrower' \in [Borrowers -> Places] /\ CountsAreNumbers /\ CountsMove(b, "got")
    BY <2>0, BorrowerMoves
  <2>1. /\ Cardinality(Holding') = Cardinality(Holding) + 1
        /\ Cardinality(Fetched') = Cardinality(Fetched) + 1
        /\ Cardinality(Returned') = Cardinality(Returned)
        /\ Cardinality(InUse') = Cardinality(InUse)
        /\ Cardinality(Connected') = Cardinality(Connected) + 1
    BY <2>0, <2>a, SMT DEF CountsAreNumbers, CountsMove, One
  <2>2. ConnPoolTypeOK'
    BY <1>1, <2>0, <2>a, ConnPoolAssumption, SMT
    DEF Fetch, setting, threads, ConnPoolTypeOK, Places
  <2>3. WrappersConserved'
    BY <1>1, <2>0, <2>1, <2>2, <2>a, SMT
    DEF Fetch, setting, threads, Moves, ConnPoolTypeOK, ThreadsAgree, WrappersConserved,
        CountsAreNumbers, Idling, Filling
  <2>4. CountersAgree'
    BY <1>1, <2>0, <2>1, <2>2, <2>a, SMT
    DEF Fetch, setting, threads, Moves, ConnPoolTypeOK, CountersAgree, CountsAreNumbers, Idling,
        Late
  <2>5. PutFits'
    BY <1>1, <2>0, <2>2
    DEF Fetch, setting, threads, ConnPoolTypeOK, ThreadsAgree, PutFits
  <2> QED BY <1>a, <2>2, <2>3, <2>4, <2>5
<1>2. CASE Moves(b, "make")
  <2>0. borrower[b] = "wait" /\ "make" \in Places /\ Moves(b, "make")
    BY <1>2 DEF Fetch, Places
  <2>a. borrower' \in [Borrowers -> Places] /\ CountsAreNumbers /\ CountsMove(b, "make")
    BY <2>0, BorrowerMoves
  <2>1. /\ Cardinality(Holding') = Cardinality(Holding) + 1
        /\ Cardinality(Fetched') = Cardinality(Fetched) + 1
        /\ Cardinality(Returned') = Cardinality(Returned)
        /\ Cardinality(InUse') = Cardinality(InUse)
        /\ Cardinality(Connected') = Cardinality(Connected)
    BY <2>0, <2>a, SMT DEF CountsAreNumbers, CountsMove, One
  <2>2. ConnPoolTypeOK'
    BY <1>2, <2>0, <2>a, ConnPoolAssumption, SMT
    DEF Fetch, setting, threads, ConnPoolTypeOK, Places
  <2>3. WrappersConserved'
    BY <1>2, <2>0, <2>1, <2>2, <2>a, SMT
    DEF Fetch, setting, threads, Moves, ConnPoolTypeOK, ThreadsAgree, WrappersConserved,
        CountsAreNumbers, Idling, Filling
  <2>4. CountersAgree'
    BY <1>2, <2>0, <2>1, <2>2, <2>a, SMT
    DEF Fetch, setting, threads, Moves, ConnPoolTypeOK, CountersAgree, CountsAreNumbers, Idling,
        Late
  <2>5. PutFits'
    BY <1>2, <2>0, <2>2
    DEF Fetch, setting, threads, ConnPoolTypeOK, ThreadsAgree, PutFits
  <2> QED BY <1>a, <2>2, <2>3, <2>4, <2>5
<1>3. CASE Moves(b, "out")
  <2>0. borrower[b] = "wait" /\ "out" \in Places /\ Moves(b, "out")
    BY <1>3 DEF Fetch, Places
  <2>a. borrower' \in [Borrowers -> Places] /\ CountsAreNumbers /\ CountsMove(b, "out")
    BY <2>0, BorrowerMoves
  <2>1. /\ Cardinality(Holding') = Cardinality(Holding)
        /\ Cardinality(Fetched') = Cardinality(Fetched)
        /\ Cardinality(Returned') = Cardinality(Returned)
        /\ Cardinality(InUse') = Cardinality(InUse)
        /\ Cardinality(Connected') = Cardinality(Connected)
    BY <2>0, <2>a, SMT DEF CountsAreNumbers, CountsMove, One
  <2>2. ConnPoolTypeOK'
    BY <1>3, <2>0, <2>a, ConnPoolAssumption, SMT
    DEF Fetch, setting, threads, ConnPoolTypeOK, Places
  <2>3. WrappersConserved'
    BY <1>3, <2>0, <2>1, <2>2, <2>a, SMT
    DEF Fetch, setting, threads, Moves, ConnPoolTypeOK, ThreadsAgree, WrappersConserved,
        CountsAreNumbers, Idling, Filling
  <2>4. CountersAgree'
    BY <1>3, <2>0, <2>1, <2>2, <2>a, SMT
    DEF Fetch, setting, threads, Moves, ConnPoolTypeOK, CountersAgree, CountsAreNumbers, Idling,
        Late
  <2>5. PutFits'
    BY <1>3, <2>0, <2>2
    DEF Fetch, setting, threads, ConnPoolTypeOK, ThreadsAgree, PutFits
  <2> QED BY <1>a, <2>2, <2>3, <2>4, <2>5
<1> QED BY <1>1, <1>2, <1>3 DEF Fetch

(* The factory connects or fails.                                          *)
LEMMA MakeInv ==
  ASSUME ConnInv, NEW b \in Borrowers, Make(b)
  PROVE  ConnInv'
<1> USE DEF ConnInv
<1>a. ThreadsAgree'
  BY DEF Make, setting, Adjust, threads, ThreadsAgree, Filling
<1>1. CASE Moves(b, "got")
  <2>0. borrower[b] = "make" /\ "got" \in Places /\ Moves(b, "got")
    BY <1>1 DEF Make, Places
  <2>a. borrower' \in [Borrowers -> Places] /\ CountsAreNumbers /\ CountsMove(b, "got")
    BY <2>0, BorrowerMoves
  <2>1. /\ Cardinality(Holding') = Cardinality(Holding)
        /\ Cardinality(Fetched') = Cardinality(Fetched)
        /\ Cardinality(Returned') = Cardinality(Returned)
        /\ Cardinality(InUse') = Cardinality(InUse)
        /\ Cardinality(Connected') = Cardinality(Connected) + 1
    BY <2>0, <2>a, SMT DEF CountsAreNumbers, CountsMove, One
  <2>2. ConnPoolTypeOK'
    BY <1>1, <2>0, <2>a, ConnPoolAssumption, SMT
    DEF Make, setting, Adjust, threads, ConnPoolTypeOK, Places
  <2>3. WrappersConserved'
    BY <1>1, <2>0, <2>1, <2>2, <2>a, SMT
    DEF Make, setting, Adjust, threads, Moves, ConnPoolTypeOK, ThreadsAgree, WrappersConserved,
        CountsAreNumbers, Idling, Filling
  <2>4. CountersAgree'
    BY <1>1, <2>0, <2>1, <2>2, <2>a, SMT
    DEF Make, setting, Adjust, threads, Moves, ConnPoolTypeOK, CountersAgree, CountsAreNumbers,
        Idling, Late
  <2>5. PutFits'
    BY <1>1, <2>0, <2>2
    DEF Make, setting, Adjust, threads, ConnPoolTypeOK, ThreadsAgree, PutFits
  <2> QED BY <1>a, <2>2, <2>3, <2>4, <2>5
<1>2. CASE Moves(b, "out")
  <2>0. borrower[b] = "make" /\ "out" \in Places /\ Moves(b, "out")
    BY <1>2 DEF Make, Places
  <2>a. borrower' \in [Borrowers -> Places] /\ CountsAreNumbers /\ CountsMove(b, "out")
    BY <2>0, BorrowerMoves
  <2>1. /\ Cardinality(Holding') = Cardinality(Holding) - 1
        /\ Cardinality(Fetched') = Cardinality(Fetched) - 1
        /\ Cardinality(Returned') = Cardinality(Returned)
        /\ Cardinality(InUse') = Cardinality(InUse)
        /\ Cardinality(Connected') = Cardinality(Connected)
    BY <2>0, <2>a, SMT DEF CountsAreNumbers, CountsMove, One
  <2>2. ConnPoolTypeOK'
    BY <1>2, <2>0, <2>a, ConnPoolAssumption, SMT
    DEF Make, setting, Adjust, threads, ConnPoolTypeOK, Places
  <2>3. WrappersConserved'
    BY <1>2, <2>0, <2>1, <2>2, <2>a, SMT
    DEF Make, setting, Adjust, threads, Moves, ConnPoolTypeOK, ThreadsAgree, WrappersConserved,
        CountsAreNumbers, Idling, Filling
  <2>4. CountersAgree'
    BY <1>2, <2>0, <2>1, <2>2, <2>a, SMT
    DEF Make, setting, Adjust, threads, Moves, ConnPoolTypeOK, CountersAgree, CountsAreNumbers,
        Idling, Late
  <2>5. PutFits'
    BY <1>2, <2>0, <2>2
    DEF Make, setting, Adjust, threads, ConnPoolTypeOK, ThreadsAgree, PutFits
  <2> QED BY <1>a, <2>2, <2>3, <2>4, <2>5
<1> QED BY <1>1, <1>2 DEF Make

(* A connection is counted as in use.                                      *)
LEMMA GotInv ==
  ASSUME ConnInv, NEW b \in Borrowers, Got(b)
  PROVE  ConnInv'
<1> USE DEF ConnInv
<1>a. ThreadsAgree'
  BY DEF Got, setting, Adjust, threads, ThreadsAgree, Filling
<1>1. CASE Moves(b, "using")
  <2>0. borrower[b] = "got" /\ "using" \in Places /\ Moves(b, "using")
    BY <1>1 DEF Got, Places
  <2>a. borrower' \in [Borrowers -> Places] /\ CountsAreNumbers /\ CountsMove(b, "using")
    BY <2>0, BorrowerMoves
  <2>1. /\ Cardinality(Holding') = Cardinality(Holding)
        /\ Cardinality(Fetched') = Cardinality(Fetched) - 1
        /\ Cardinality(Returned') = Cardinality(Returned)
        /\ Cardinality(InUse') = Cardinality(InUse) + 1
        /\ Cardinality(Connected') = Cardinality(Connected)
    BY <2>0, <2>a, SMT DEF CountsAreNumbers, CountsMove, One
  <2>2. ConnPoolTypeOK'
    BY <1>1, <2>0, <2>a, ConnPoolAssumption, SMT
    DEF Got, setting, Adjust, threads, ConnPoolTypeOK, Places
  <2>3. WrappersConserved'
    BY <1>1, <2>0, <2>1, <2>2, <2>a, SMT
    DEF Got, setting, Adjust, threads, Moves, ConnPoolTypeOK, ThreadsAgree, WrappersConserved,
        CountsAreNumbers, Idling, Filling
  <2>4. CountersAgree'
    BY <1>1, <2>0, <2>1, <2>2, <2>a, SMT
    DEF Got, setting, Adjust, threads, Moves, ConnPoolTypeOK, CountersAgree, CountsAreNumbers,
        Idling, Late
  <2>5. PutFits'
    BY <1>1, <2>0, <2>2
    DEF Got, setting, Adjust, threads, ConnPoolTypeOK, ThreadsAgree, PutFits
  <2> QED BY <1>a, <2>2, <2>3, <2>4, <2>5
<1> QED BY <1>1 DEF Got

(* A connection is counted as available.                                   *)
LEMMA SentInv ==
  ASSUME ConnInv, NEW b \in Borrowers, Sent(b)
  PROVE  ConnInv'
<1> USE DEF ConnInv
<1>a. ThreadsAgree'
  BY DEF Sent, setting, Adjust, threads, ThreadsAgree, Filling
<1>1. CASE Moves(b, "out")
  <2>0. borrower[b] = "sent" /\ "out" \in Places /\ Moves(b, "out")
    BY <1>1 DEF Sent, Places
  <2>a. borrower' \in [Borrowers -> Places] /\ CountsAreNumbers /\ CountsMove(b, "out")
    BY <2>0, BorrowerMoves
  <2>1. /\ Cardinality(Holding') = Cardinality(Holding)
        /\ Cardinality(Fetched') = Cardinality(Fetched)
        /\ Cardinality(Returned') = Cardinality(Returned) - 1
        /\ Cardinality(InUse') = Cardinality(InUse) - 1
        /\ Cardinality(Connected') = Cardinality(Connected)
    BY <2>0, <2>a, SMT DEF CountsAreNumbers, CountsMove, One
  <2>2. ConnPoolTypeOK'
    BY <1>1, <2>0, <2>a, ConnPoolAssumption, SMT
    DEF Sent, setting, Adjust, threads, ConnPoolTypeOK, Places
  <2>3. WrappersConserved'
    BY <1>1, <2>0, <2>1, <2>2, <2>a, SMT
    DEF Sent, setting, Adjust, threads, Moves, ConnPoolTypeOK, ThreadsAgree, WrappersConserved,
        CountsAreNumbers, Idling, Filling
  <2>4. CountersAgree'
    BY <1>1, <2>0, <2>1, <2>2, <2>a, SMT
    DEF Sent, setting, Adjust, threads, Moves, ConnPoolTypeOK, CountersAgree, CountsAreNumbers,
        Idling, Late
  <2>5. PutFits'
    BY <1>1, <2>0, <2>2
    DEF Sent, setting, Adjust, threads, ConnPoolTypeOK, ThreadsAgree, PutFits
  <2> QED BY <1>a, <2>2, <2>3, <2>4, <2>5
<1> QED BY <1>1 DEF Sent

(* A borrower calls Put: it panics only if the pool is gone.               *)
LEMMA PutConnInv ==
  ASSUME ConnInv, NEW b \in Borrowers, PutConn(b)
  PROVE  ConnInv'
<1> USE DEF ConnInv
<1>1. /\ borrower[b] = "using" /\ "put" \in Places /\ "drop" \in Places /\ "out" \in Places
      /\ UNCHANGED <<empties, filled, setting, threads>>
  BY DEF PutConn, Places
<1>2. ThreadsAgree'
  BY <1>1 DEF setting, threads, ThreadsAgree, Filling
<1>3. CASE connections /\ Moves(b, "put") /\ UNCHANGED <<counters, putPanics>>
  <2>1. borrower' \in [Borrowers -> Places] /\ CountsAreNumbers /\ CountsMove(b, "put")
    BY <1>1, <1>3, BorrowerMoves
  <2>2. /\ Cardinality(Holding') = Cardinality(Holding)
        /\ Cardinality(Fetched') = Cardinality(Fetched)
        /\ Cardinality(Returned') = Cardinality(Returned)
        /\ Cardinality(InUse') = Cardinality(InUse)
        /\ Cardinality(Connected') = Cardinality(Connected)
    BY <1>1, <2>1, SMT DEF CountsAreNumbers, CountsMove, One
  <2>3. ConnPoolTypeOK'
    BY <1>1, <1>3, <2>1, SMT DEF setting, threads, Adjust, ConnPoolTypeOK, Places
  <2>4. WrappersConserved'
    BY <1>1, <2>2, <2>1, <2>3, SMT
    DEF setting, threads, ConnPoolTypeOK, WrappersConserved, CountsAreNumbers, Idling, Filling
  <2>5. CountersAgree'
    BY <1>1, <1>3, <2>1, <2>2, <2>3, SMT
    DEF setting, threads, Adjust, ConnPoolTypeOK, CountersAgree, CountsAreNumbers, Idling, Late
  <2>6. PutFits'
    BY <1>1, <1>3 DEF setting, PutFits
  <2> QED BY <1>2, <2>3, <2>4, <2>5, <2>6
<1>4. CASE connections /\ Moves(b, "drop") /\ Adjust(0, -1, 0) /\ UNCHANGED putPanics
  <2>1. borrower' \in [Borrowers -> Places] /\ CountsAreNumbers /\ CountsMove(b, "drop")
    BY <1>1, <1>4, BorrowerMoves
  <2>2. /\ Cardinality(Holding') = Cardinality(Holding)
        /\ Cardinality(Fetched') = Cardinality(Fetched)
        /\ Cardinality(Returned') = Cardinality(Returned)
        /\ Cardinality(InUse') = Cardinality(InUse)
        /\ Cardinality(Connected') = Cardinality(Connected) - 1
    BY <1>1, <2>1, SMT DEF CountsAreNumbers, CountsMove, One
  <2>3. ConnPoolTypeOK'
    BY <1>1, <1>4, <2>1, SMT DEF setting, threads, Adjust, ConnPoolTypeOK, Places
  <2>4. WrappersConserved'
    BY <1>1, <2>2, <2>1, <2>3, SMT
    DEF setting, threads, ConnPoolTypeOK, WrappersConserved, CountsAreNumbers, Idling, Filling
  <2>5. CountersAgree'
    BY <1>1, <1>4, <2>1, <2>2, <2>3, SMT
    DEF setting, threads, Adjust, ConnPoolTypeOK, CountersAgree, CountsAreNumbers, Idling, Late
  <2>6. PutFits'
    BY <1>1, <1>4 DEF setting, PutFits
  <2> QED BY <1>2, <2>3, <2>4, <2>5, <2>6
<1>5. CASE ~connections
  <2>1. Moves(b, "out") /\ putPanics' = TRUE /\ counters' = counters
    BY <1>5 DEF PutConn
  <2>2. borrower' \in [Borrowers -> Places]
    BY <1>1, <2>1, BorrowerMoves
  <2>4. ConnPoolTypeOK'
    BY <1>1, <2>1, <2>2 DEF setting, threads, ConnPoolTypeOK, Places
  <2>5. chanClosed'
    BY <1>1, <1>5 DEF setting, ThreadsAgree
  <2>6. WrappersConserved' /\ CountersAgree' /\ PutFits'
    BY <2>5 DEF WrappersConserved, CountersAgree, PutFits
  <2> QED BY <1>2, <2>4, <2>6
<1> QED BY <1>3, <1>4, <1>5 DEF PutConn

(* A wrapper is put back: there is room for it, since the wrapper in the   *)
(* borrower's hands is one of those that the channel was made for.         *)
LEMMA PutBackInv ==
  ASSUME ConnInv, NEW b \in Borrowers, PutBack(b)
  PROVE  ConnInv'
<1> USE DEF ConnInv
<1>1. /\ borrower[b] \in {"put", "drop"} /\ "out" \in Places /\ "sent" \in Places
      /\ UNCHANGED <<counters, setting, threads>>
  BY DEF PutBack, Places
<1>2. ThreadsAgree'
  BY <1>1 DEF setting, threads, ThreadsAgree, Filling
<1>3. CASE chanClosed
  <2>1. Moves(b, "out") /\ UNCHANGED <<empties, filled>> /\ putPanics' = TRUE
    BY <1>3 DEF PutBack
  <2>2. borrower' \in [Borrowers -> Places]
    BY <1>1, <2>1, BorrowerMoves
  <2>3. ConnPoolTypeOK'
    BY <1>1, <2>1, <2>2 DEF setting, threads, ConnPoolTypeOK, Places
  <2>4. WrappersConserved' /\ CountersAgree' /\ PutFits'
    BY <1>1, <1>3 DEF setting, WrappersConserved, CountersAgree, PutFits
  <2> QED BY <1>2, <2>3, <2>4
<1>4. CASE ~chanClosed
  <2>1. borrower \in [Borrowers -> Places] /\ b \in Holding /\ IsFiniteSet(Holding)
    BY <1>1, ConnPoolAssumption, FS_Subset DEF ConnPoolTypeOK, Places, Holding, Placed
  <2>2. Cardinality(Holding) \in Nat /\ Cardinality(Holding) # 0
    BY <2>1, FS_CardinalityType, FS_EmptySet
  <2>3. empties + filled < MaxCap
    BY <1>4, <2>2, ConnPoolAssumption, SMT
    DEF ConnPoolTypeOK, ThreadsAgree, WrappersConserved, Idling, Filling
  <2>4. ~(chanClosed \/ empties + filled >= MaxCap)
    BY <1>4, <2>3, ConnPoolAssumption, SMT DEF ConnPoolTypeOK
  <2>5. /\ Moves(b, "sent") /\ putPanics' = putPanics
        /\ \/ borrower[b] = "put" /\ filled' = filled + 1 /\ empties' = empties
           \/ borrower[b] = "drop" /\ empties' = empties + 1 /\ filled' = filled
    BY <2>4 DEF PutBack
  <2>6. borrower' \in [Borrowers -> Places] /\ CountsAreNumbers /\ CountsMove(b, "sent")
    BY <1>1, <2>5, BorrowerMoves
  <2>7. /\ Cardinality(Holding') = Cardinality(Holding) - 1
        /\ Cardinality(Fetched') = Cardinality(Fetched)
        /\ Cardinality(Returned') = Cardinality(Returned) + 1
        /\ Cardinality(InUse') = Cardinality(InUse)
        /\ Cardinality(Connected') + (IF borrower[b] = "put" THEN 1 ELSE 0)
             = Cardinality(Connected)
    BY <1>1, <2>6, SMT DEF CountsAreNumbers, CountsMove, One
  <2>8. ConnPoolTypeOK'
    BY <1>1, <2>5, <2>6, SMT DEF setting, threads, ConnPoolTypeOK, Places
  <2>9. WrappersConserved'
    BY <1>1, <1>4, <2>5, <2>6, <2>7, <2>8, SMT
    DEF setting, threads, ConnPoolTypeOK, WrappersConserved, CountsAreNumbers, Idling, Filling
  <2>a. CountersAgree'
    BY <1>1, <1>4, <2>5, <2>6, <2>7, <2>8, SMT
    DEF setting, threads, ConnPoolTypeOK, CountersAgree, CountsAreNumbers, Idling, Late
  <2>b. PutFits'
    BY <1>1, <2>5 DEF setting, PutFits
  <2> QED BY <1>2, <2>8, <2>9, <2>a, <2>b
<1> QED BY <1>3, <1>4
-----------------------------------------------------------------------------
LEMMA ConnInvStep ==
  ASSUME ConnInv, [ConnPoolNext]_connPoolVars
  PROVE  ConnInv'
<1>1. ASSUME NEW b \in Borrowers, GetConn(b) \/ BorrowerStep(b)
      PROVE  ConnInv'
  BY <1>1, GetConnInv, FetchInv, MakeInv, GotInv, PutConnInv, PutBackInv, SentInv
  DEF BorrowerStep
<1>2. CASE IdlerStep
  BY <1>2, IdleTakeInv, IdleCloseInv, IdleBackInv DEF IdlerStep
<1>3. ASSUME NEW n \in Sizes, Resize(n)
      PROVE  ConnInv'
  BY <1>3, ResizeInv
<1>4. CASE ResizerStep
  BY <1>4, ResizeStepInv, ResizeCountInv, ResizeEndInv DEF ResizerStep
<1>5. CASE StartClose \/ CloserStep
  BY <1>5, StartCloseInv, SwapToZeroInv, DrainStepInv, DrainCountInv, CloseChannelInv,
     CloseEndInv
  DEF CloserStep
<1>6. CASE UNCHANGED connPoolVars
  <2>1. borrower' = borrower
    BY <1>6 DEF connPoolVars
  <2>2. /\ Holding' = Holding /\ Fetched' = Fetched /\ Returned' = Returned
        /\ InUse' = InUse /\ Connected' = Connected
    BY <2>1 DEF Holding, Fetched, Returned, InUse, Connected, Placed
  <2> QED
    BY <1>6, <2>2
    DEF connPoolVars, channel, setting, threads, ConnInv, ConnPoolTypeOK, ThreadsAgree,
        WrappersConserved, CountersAgree, PutFits, Idling, Late, Filling
<1> QED BY <1>1, <1>2, <1>3, <1>4, <1>5, <1>6 DEF ConnPoolNext
LEMMA ConnInvHolds == ConnPoolFairSpec => []ConnInv
<1>1. ConnPoolInit => ConnInv
  BY ConnInvInit
<1>2. ConnInv /\ [ConnPoolNext]_connPoolVars => ConnInv'
  BY ConnInvStep
<1> QED BY <1>1, <1>2, PTL DEF ConnPoolFairSpec

(* Until the channel is closed, the wrappers in the channel and in the     *)
(* hands of borrowers and of the idle timer are those of the capacity, for *)
(* any overlap of get, Put, SetCapacity, Close and closeIdleResources.     *)
THEOREM Conserved == ConnPoolFairSpec => []WrappersConserved
<1>1. ConnInv => WrappersConserved
  BY DEF ConnInv
<1> QED BY <1>1, ConnInvHolds, PTL

(* The exported counters of the resource pool are right.                   *)
THEOREM PoolCounted == ConnPoolFairSpec => []CountersAgree
<1>1. ConnInv => CountersAgree
  BY DEF ConnInv
<1> QED BY <1>1, ConnInvHolds, PTL

(* Put of the resource pool panics only on a closed channel: never with    *)
(* "attempt to Put into a full ResourcePool".                              *)
THEOREM NeverFull == ConnPoolFairSpec => []PutFits
<1>1. ConnInv => PutFits
  BY DEF ConnInv
<1> QED BY <1>1, ConnInvHolds, PTL

(* The accounts of the pool are right, for any number of borrowers and any *)
(* capacity.                                                               *)
THEOREM PoolIsExact == ConnPoolFairSpec => []PoolAccounts
<1>1. ConnInv => PoolAccounts
  BY DEF ConnInv, PoolAccounts
<1> QED BY <1>1, ConnInvHolds, PTL

(* Close closes the channel only when nothing is out but what a            *)
(* SetCapacity that overlaps with it still waits for.                      *)
THEOREM CloseIsLast == ConnPoolFairSpec => CloseWaits
<1> DEFINE Waited ==
      Cardinality(Holding) + Idling <= (IF resizer # "out" /\ ~Filling THEN resizeLeft ELSE 0)
<1>1. ASSUME ConnInv, ConnPoolNext, chanClosed', ~chanClosed
      PROVE  CloseChannel
  BY <1>1
  DEF ConnPoolNext, GetConn, BorrowerStep, Fetch, Make, Got, PutConn, PutBack, Sent, IdlerStep,
      IdleTake, IdleClose, IdleBack, Resize, ResizerStep, ResizeStep, ResizeCount, ResizeEnd,
      StartClose, CloserStep, SwapToZero, DrainStep, DrainCount, CloseEnd, setting
<1>2. ASSUME ConnInv, CloseChannel, ~chanClosed
      PROVE  Waited
  <2>1. Cardinality(Holding) \in Nat /\ Idling \in Nat
    <3>1. IsFiniteSet(Holding)
      BY ConnPoolAssumption, FS_Subset DEF Holding, Placed
    <3> QED BY <3>1, FS_CardinalityType DEF Idling
  <2>2. closeLeft = 0 /\ capacity = 0
    BY <1>2 DEF CloseChannel, ConnInv, ThreadsAgree
  <2>3. empties \in Nat /\ filled \in Nat /\ resizeLeft \in Nat
    BY <1>2 DEF ConnInv, ConnPoolTypeOK
  <2>4. resizer = "out" => resizeLeft = 0
    BY <1>2 DEF ConnInv, ThreadsAgree
  <2>5. empties + filled + Cardinality(Holding) + Idling
          = IF Filling THEN -resizeLeft ELSE resizeLeft
    BY <1>2, <2>2, <2>3, SMT DEF ConnInv, WrappersConserved
  <2> QED BY <2>1, <2>3, <2>4, <2>5, SMT
<1>3. ConnInv /\ [ConnPoolNext]_connPoolVars
        => [chanClosed' /\ ~chanClosed => Waited]_connPoolVars
  BY <1>1, <1>2
<1> QED BY <1>3, ConnInvHolds, PTL DEF ConnPoolFairSpec, CloseWaits
-----------------------------------------------------------------------------
(* The hot row protection.  Who is blocked, and what the channel holds.    *)
Senders ==
  \A k \in Keys :
    /\ IsInjective(sendq[k])
    /\ \A t \in Range(sendq[k]) : key[t] = k /\ tx[t] = "waiting"

SlotOK(k) ==
  IF hot[k] THEN slots[k] = Cardinality(Running(k)) /\ size[k] > 0
            ELSE /\ Cardinality(Active(k)) <= 1
                 /\ \A t \in Transactions : key[t] = k => tx[t] \in {"idle", "running"}

SlotInv == ~dryRun => \A k \in Keys : SlotOK(k)

IInv == TypeOK /\ Senders /\ SizesAgree /\ SlotInv
-----------------------------------------------------------------------------
(* A set of calls is finite; one call more or less changes its size by 1. *)
LEMMA CallsFinite ==
  ASSUME NEW S \in SUBSET Transactions
  PROVE  IsFiniteSet(S) /\ Cardinality(S) \in Nat
BY SerializerAssumption, FS_Subset, FS_CardinalityType

LEMMA OneMore ==
  ASSUME NEW S \in SUBSET Transactions, NEW T \in SUBSET Transactions, NEW t \in Transactions,
         t \notin S, \A u \in Transactions : u \in T <=> u = t \/ u \in S
  PROVE  Cardinality(T) = Cardinality(S) + 1
<1>1. T = S \cup {t}
  OBVIOUS
<1>. QED  BY <1>1, CallsFinite, FS_AddElement

LEMMA OneLess ==
  ASSUME NEW S \in SUBSET Transactions, NEW T \in SUBSET Transactions, NEW t \in Transactions,
         t \in S, \A u \in Transactions : u \in T <=> u # t /\ u \in S
  PROVE  Cardinality(T) = Cardinality(S) - 1
<1>1. T = S \ {t}
  OBVIOUS
<1>. QED  BY <1>1, CallsFinite, FS_RemoveElement

(* A call in flight is counted. *)
LEMMA Counted ==
  ASSUME TypeOK, SizesAgree, NEW t \in Transactions, tx[t] # "idle"
  PROVE  size[key[t]] >= 1 /\ globalSize >= 1
<1>. DEFINE B == {u \in Transactions : tx[u] # "idle"}
<1>1. key[t] \in Keys
  BY DEF TypeOK
<1>2. t \in Active(key[t]) /\ t \in B
  BY DEF Active
<1>3. Active(key[t]) \in SUBSET Transactions /\ B \in SUBSET Transactions
  BY DEF Active
<1>4. size[key[t]] = Cardinality(Active(key[t])) /\ globalSize = Cardinality(B)
  BY <1>1 DEF SizesAgree
<1>. HIDE DEF B
<1>5. Cardinality(Active(key[t])) # 0 /\ Cardinality(B) # 0
  BY <1>2, <1>3, CallsFinite, FS_EmptySet
<1>6. Cardinality(Active(key[t])) \in Nat /\ Cardinality(B) \in Nat
  BY <1>3, CallsFinite
<1>. QED  BY <1>4, <1>5, <1>6, SMT

(* The counters follow a call that arrives, leaves or goes on. *)
LEMMA Arrives ==
  ASSUME TypeOK, SizesAgree, NEW t \in Transactions, tx[t] = "idle", key' = key, Count(key[t]),
         \A u \in Transactions : tx'[u] # "idle" <=> u = t \/ tx[u] # "idle"
  PROVE  SizesAgree'
<1>. DEFINE B == {u \in Transactions : tx[u] # "idle"}
            C == {u \in Transactions : tx'[u] # "idle"}
<1>1. Cardinality(C) = Cardinality(B) + 1
  BY OneMore
<1>2. ASSUME NEW k \in Keys  PROVE size'[k] = Cardinality(Active(k)')
  <2>1. Active(k) \in SUBSET Transactions /\ Active(k)' \in SUBSET Transactions
    BY DEF Active
  <2>2. CASE k = key[t]
    <3>1. t \notin Active(k) /\ \A u \in Transactions : u \in Active(k)' <=> u = t \/ u \in Active(k)
      BY <2>2 DEF Active
    <3>2. Cardinality(Active(k)') = Cardinality(Active(k)) + 1
      BY <2>1, <3>1, OneMore
    <3>3. size'[k] = size[k] + 1
      BY <2>2 DEF Count, TypeOK
    <3>. QED  BY <3>2, <3>3 DEF SizesAgree
  <2>3. CASE k # key[t]
    <3>1. Active(k)' = Active(k)
      BY <2>3 DEF Active
    <3>2. size'[k] = size[k]
      BY <2>3 DEF Count, TypeOK
    <3>. QED  BY <3>1, <3>2 DEF SizesAgree
  <2>. QED  BY <2>2, <2>3
<1>3. globalSize' = Cardinality(C)
  BY <1>1 DEF SizesAgree, Count
<1>. QED  BY <1>2, <1>3 DEF SizesAgree

LEMMA Leaves ==
  ASSUME TypeOK, SizesAgree, NEW t \in Transactions, tx[t] # "idle", key' = key, Uncount(key[t]),
         \A u \in Transactions : tx'[u] # "idle" <=> u # t /\ tx[u] # "idle"
  PROVE  SizesAgree'
<1>. DEFINE B == {u \in Transactions : tx[u] # "idle"}
            C == {u \in Transactions : tx'[u] # "idle"}
<1>1. Cardinality(C) = Cardinality(B) - 1
  BY OneLess
<1>2. ASSUME NEW k \in Keys  PROVE size'[k] = Cardinality(Active(k)')
  <2>1. Active(k) \in SUBSET Transactions /\ Active(k)' \in SUBSET Transactions
    BY DEF Active
  <2>2. CASE k = key[t]
    <3>1. t \in Active(k) /\ \A u \in Transactions : u \in Active(k)' <=> u # t /\ u \in Active(k)
      BY <2>2 DEF Active
    <3>2. Cardinality(Active(k)') = Cardinality(Active(k)) - 1
      BY <2>1, <3>1, OneLess
    <3>3. size'[k] = size[k] - 1
      BY <2>2 DEF Uncount, TypeOK
    <3>. QED  BY <3>2, <3>3 DEF SizesAgree
  <2>3. CASE k # key[t]
    <3>1. Active(k)' = Active(k)
      BY <2>3 DEF Active
    <3>2. size'[k] = size[k]
      BY <2>3 DEF Uncount, TypeOK
    <3>. QED  BY <3>1, <3>2 DEF SizesAgree
  <2>. QED  BY <2>2, <2>3
<1>3. globalSize' = Cardinality(C)
  BY <1>1 DEF SizesAgree, Uncount
<1>. QED  BY <1>2, <1>3 DEF SizesAgree

LEMMA GoesOn ==
  ASSUME SizesAgree, key' = key, size' = size, globalSize' = globalSize,
         \A u \in Transactions : tx'[u] # "idle" <=> tx[u] # "idle"
  PROVE  SizesAgree'
<1>1. {u \in Transactions : tx'[u] # "idle"} = {u \in Transactions : tx[u] # "idle"}
  OBVIOUS
<1>2. \A k \in Keys : Active(k)' = Active(k)
  BY DEF Active
<1>. QED  BY <1>1, <1>2 DEF SizesAgree
-----------------------------------------------------------------------------
(* The mode of the serializer is fixed. *)
LEMMA ModeFixed ==
  ASSUME NEW t \in Transactions,
         Lock(t) \/ Send(t) \/ CancelEarly(t) \/ Cancel(t) \/ Unlock(t)
  PROVE  dryRun' = dryRun
BY DEF Lock, LockFirst, LockDryRun, LockLocked, Send, GetSlot, NoSlot, Block, CancelEarly, Cancel,
             Unlock, UnlockLast, UnlockNoSlot, UnlockHandOver, UnlockReturn

(* The head of a channel's senders waits, for the same key. *)
LEMMA HeadWaits ==
  ASSUME TypeOK, Senders, NEW k \in Keys, sendq[k] # << >>
  PROVE  /\ Head(sendq[k]) \in Transactions /\ key[Head(sendq[k])] = k
         /\ tx[Head(sendq[k])] = "waiting"
<1>1. sendq[k] \in Seq(Transactions) /\ IsInjective(sendq[k])
  BY DEF TypeOK, Senders
<1>2. Head(sendq[k]) \in Transactions /\ Head(sendq[k]) \in Range(sendq[k])
  BY <1>1, TailFacts
<1>. QED  BY <1>2 DEF Senders

(* Every step keeps the types. *)
LEMMA TypeStep ==
  ASSUME IInv, NEW t \in Transactions,
         Lock(t) \/ Send(t) \/ CancelEarly(t) \/ Cancel(t) \/ Unlock(t)
  PROVE  TypeOK'
<1>. USE SerializerAssumption
<1>0. /\ TypeOK /\ Senders /\ SizesAgree /\ key[t] \in Keys
      /\ sendq[key[t]] \in Seq(Transactions) /\ IsInjective(sendq[key[t]])
  BY DEF IInv, TypeOK, Senders
<1>1. ASSUME NEW u \in Transactions, Served(u)  PROVE ahead' \in [Transactions -> SUBSET Transactions]
  BY <1>0, <1>1 DEF TypeOK, Served
<1>2. ASSUME tx[t] # "idle", Uncount(key[t])  PROVE size' \in [Keys -> Nat] /\ globalSize' \in Nat
  BY <1>0, <1>2, Counted, SMT DEF TypeOK, Uncount
<1>3. CASE LockFirst(t)
  BY <1>0, <1>3, SMT DEF LockFirst, TypeOK, TxStates
<1>4. CASE LockDryRun(t)
  BY <1>0, <1>4, SMT DEF LockDryRun, Heat, Count, TypeOK, TxStates
<1>5. CASE LockLocked(t)
  BY <1>0, <1>5, SMT DEF LockLocked, Heat, Count, TypeOK, TxStates, Queued
<1>6. CASE GetSlot(t)
  BY <1>0, <1>1, <1>6, SMT DEF GetSlot, TypeOK, TxStates
<1>7. CASE NoSlot(t)
  BY <1>0, <1>7 DEF NoSlot, TypeOK, TxStates
<1>8. CASE Block(t)
  BY <1>0, <1>8, SMT DEF Block, TypeOK, TxStates
<1>9. CASE CancelEarly(t)
  BY <1>0, <1>1, <1>9 DEF CancelEarly, TypeOK, TxStates
<1>10. CASE Cancel(t)
  <2>1. PICK i \in 1..Len(sendq[key[t]]) : sendq' = [sendq EXCEPT ![key[t]] = Without(@, i)]
    BY <1>10 DEF Cancel
  <2>2. Without(sendq[key[t]], i) \in Seq(Transactions)
    BY <1>0, WithoutFacts
  <2>3. sendq' \in [Keys -> Seq(Transactions)]
    BY <1>0, <2>1, <2>2 DEF TypeOK
  <2>. QED  BY <1>0, <1>1, <1>10, <2>3 DEF Cancel, TypeOK, TxStates
<1>11. CASE UnlockLast(t)
  BY <1>0, <1>2, <1>11, SMT DEF UnlockLast, TypeOK, TxStates
<1>12. CASE UnlockNoSlot(t)
  BY <1>0, <1>2, <1>12 DEF UnlockNoSlot, TypeOK, TxStates
<1>13. CASE UnlockHandOver(t)
  <2>1. Head(sendq[key[t]]) \in Transactions /\ Tail(sendq[key[t]]) \in Seq(Transactions)
    BY <1>0, <1>13, EndsType DEF UnlockHandOver
  <2>2. sendq' \in [Keys -> Seq(Transactions)]
    BY <1>0, <1>13, <2>1 DEF UnlockHandOver, TypeOK
  <2>3. ahead' \in [Transactions -> SUBSET Transactions]
    BY <1>1, <1>13, <2>1 DEF UnlockHandOver
  <2>4. size' \in [Keys -> Nat] /\ globalSize' \in Nat
    BY <1>2, <1>13 DEF UnlockHandOver
  <2>. QED  BY <1>0, <1>13, <2>1, <2>2, <2>3, <2>4 DEF UnlockHandOver, TypeOK, TxStates
<1>14. CASE UnlockReturn(t)
  BY <1>0, <1>2, <1>14, SMT DEF UnlockReturn, TypeOK, TxStates
<1>. QED  BY <1>3, <1>4, <1>5, <1>6, <1>7, <1>8, <1>9, <1>10, <1>11, <1>12, <1>13, <1>14
         DEF Lock, Send, Unlock
-----------------------------------------------------------------------------
(* Every step keeps the counters right. *)
LEMMA SizeStep ==
  ASSUME IInv, NEW t \in Transactions,
         Lock(t) \/ Send(t) \/ CancelEarly(t) \/ Cancel(t) \/ Unlock(t)
  PROVE  SizesAgree'
<1>0. TypeOK /\ Senders /\ SizesAgree /\ key[t] \in Keys /\ tx \in [Transactions -> TxStates]
  BY DEF IInv, TypeOK
<1>1. CASE LockFirst(t)
  <2>1. \A u \in Transactions : tx'[u] # "idle" <=> u = t \/ tx[u] # "idle"
    BY <1>0, <1>1 DEF LockFirst
  <2>2. Count(key[t])
    BY <1>0, <1>1, SMT DEF LockFirst, Count, TypeOK
  <2>. QED  BY <1>0, <1>1, <2>1, <2>2, Arrives DEF LockFirst
<1>2. CASE LockDryRun(t)
  <2>1. \A u \in Transactions : tx'[u] # "idle" <=> u = t \/ tx[u] # "idle"
    BY <1>0, <1>2 DEF LockDryRun
  <2>. QED  BY <1>0, <1>2, <2>1, Arrives DEF LockDryRun
<1>3. CASE LockLocked(t)
  <2>1. \A u \in Transactions : tx'[u] # "idle" <=> u = t \/ tx[u] # "idle"
    BY <1>0, <1>3 DEF LockLocked
  <2>. QED  BY <1>0, <1>3, <2>1, Arrives DEF LockLocked
<1>4. CASE GetSlot(t)
  <2>1. \A u \in Transactions : tx'[u] # "idle" <=> tx[u] # "idle"
    BY <1>0, <1>4 DEF GetSlot
  <2>. QED  BY <1>0, <1>4, <2>1, GoesOn DEF GetSlot
<1>5. CASE NoSlot(t)
  <2>1. \A u \in Transactions : tx'[u] # "idle" <=> tx[u] # "idle"
    BY <1>0, <1>5 DEF NoSlot
  <2>. QED  BY <1>0, <1>5, <2>1, GoesOn DEF NoSlot
<1>6. CASE Block(t)
  <2>1. \A u \in Transactions : tx'[u] # "idle" <=> tx[u] # "idle"
    BY <1>0, <1>6 DEF Block
  <2>. QED  BY <1>0, <1>6, <2>1, GoesOn DEF Block
<1>7. CASE CancelEarly(t)
  <2>1. \A u \in Transactions : tx'[u] # "idle" <=> tx[u] # "idle"
    BY <1>0, <1>7 DEF CancelEarly
  <2>. QED  BY <1>0, <1>7, <2>1, GoesOn DEF CancelEarly
<1>8. CASE Cancel(t)
  <2>1. \A u \in Transactions : tx'[u] # "idle" <=> tx[u] # "idle"
    BY <1>0, <1>8 DEF Cancel
  <2>. QED  BY <1>0, <1>8, <2>1, GoesOn DEF Cancel
<1>9. CASE UnlockLast(t)
  <2>1. tx[t] # "idle" /\ \A u \in Transactions : tx'[u] # "idle" <=> u # t /\ tx[u] # "idle"
    BY <1>0, <1>9 DEF UnlockLast
  <2>. QED  BY <1>0, <1>9, <2>1, Leaves DEF UnlockLast
<1>10. CASE UnlockNoSlot(t)
  <2>1. tx[t] # "idle" /\ \A u \in Transactions : tx'[u] # "idle" <=> u # t /\ tx[u] # "idle"
    BY <1>0, <1>10 DEF UnlockNoSlot
  <2>. QED  BY <1>0, <1>10, <2>1, Leaves DEF UnlockNoSlot
<1>11. CASE UnlockHandOver(t)
  <2>1. Head(sendq[key[t]]) \in Transactions /\ tx[Head(sendq[key[t]])] = "waiting"
    BY <1>0, <1>11, HeadWaits DEF UnlockHandOver
  <2>2. \A u \in Transactions : tx'[u] # "idle" <=> u # t /\ tx[u] # "idle"
    BY <1>0, <1>11, <2>1 DEF UnlockHandOver
  <2>. QED  BY <1>0, <1>11, <2>2, Leaves DEF UnlockHandOver
<1>12. CASE UnlockReturn(t)
  <2>1. tx[t] # "idle" /\ \A u \in Transactions : tx'[u] # "idle" <=> u # t /\ tx[u] # "idle"
    BY <1>0, <1>12 DEF UnlockReturn
  <2>. QED  BY <1>0, <1>12, <2>1, Leaves DEF UnlockReturn
<1>. QED  BY <1>1, <1>2, <1>3, <1>4, <1>5, <1>6, <1>7, <1>8, <1>9, <1>10, <1>11, <1>12
         DEF Lock, Send, Unlock
-----------------------------------------------------------------------------
(* Every step keeps the blocked senders right. *)
LEMMA SameSenders ==
  ASSUME Senders, TypeOK, sendq' = sendq, key' = key,
         \A u \in Transactions : tx[u] = "waiting" => tx'[u] = "waiting"
  PROVE  Senders'
<1>1. \A k \in Keys : sendq[k] \in Seq(Transactions)
  BY DEF TypeOK
<1>2. \A k \in Keys : Range(sendq[k]) \subseteq Transactions
  BY <1>1, SMT DEF Range
<1>. QED  BY <1>2 DEF Senders

LEMMA SenderStep ==
  ASSUME IInv, NEW t \in Transactions,
         Lock(t) \/ Send(t) \/ CancelEarly(t) \/ Cancel(t) \/ Unlock(t)
  PROVE  Senders'
<1>0. /\ TypeOK /\ Senders /\ key[t] \in Keys /\ tx \in [Transactions -> TxStates]
      /\ sendq \in [Keys -> Seq(Transactions)]
  BY DEF IInv, TypeOK
<1>q. ASSUME NEW k \in Keys  PROVE Range(sendq[k]) \subseteq Transactions
  <2>1. sendq[k] \in Seq(Transactions)
    BY <1>0
  <2>. QED  BY <2>1, SMT DEF Range
<1>1. CASE LockFirst(t)
  <2>1. \A u \in Transactions : tx[u] = "waiting" => tx'[u] = "waiting"
    BY <1>0, <1>1 DEF LockFirst
  <2>. QED  BY <1>0, <1>1, <2>1, SameSenders DEF LockFirst
<1>2. CASE LockDryRun(t)
  <2>1. \A u \in Transactions : tx[u] = "waiting" => tx'[u] = "waiting"
    BY <1>0, <1>2 DEF LockDryRun
  <2>. QED  BY <1>0, <1>2, <2>1, SameSenders DEF LockDryRun
<1>3. CASE LockLocked(t)
  <2>1. \A u \in Transactions : tx[u] = "waiting" => tx'[u] = "waiting"
    BY <1>0, <1>3 DEF LockLocked
  <2>. QED  BY <1>0, <1>3, <2>1, SameSenders DEF LockLocked
<1>4. CASE GetSlot(t)
  <2>1. \A u \in Transactions : tx[u] = "waiting" => tx'[u] = "waiting"
    BY <1>0, <1>4 DEF GetSlot
  <2>. QED  BY <1>0, <1>4, <2>1, SameSenders DEF GetSlot
<1>5. CASE NoSlot(t)
  <2>1. \A u \in Transactions : tx[u] = "waiting" => tx'[u] = "waiting"
    BY <1>0, <1>5 DEF NoSlot
  <2>. QED  BY <1>0, <1>5, <2>1, SameSenders DEF NoSlot
<1>6. CASE Block(t)
  <2>. DEFINE q == sendq[key[t]]
  <2>1. q \in Seq(Transactions) /\ IsInjective(q) /\ t \notin Range(q)
    BY <1>0, <1>6 DEF Senders, Block
  <2>2. IsInjective(Append(q, t)) /\ Range(Append(q, t)) = Range(q) \cup {t}
    BY <2>1, AppendFacts
  <2>3. sendq'[key[t]] = Append(q, t) /\ \A k \in Keys : k # key[t] => sendq'[k] = sendq[k]
    BY <1>0, <1>6 DEF Block
  <2>4. key' = key /\ \A u \in Transactions : u = t \/ tx[u] = "waiting" => tx'[u] = "waiting"
    BY <1>0, <1>6 DEF Block
  <2>. HIDE DEF q
  <2>6. ASSUME NEW k \in Keys
        PROVE  IsInjective(sendq'[k]) /\ \A u \in Range(sendq'[k]) : key'[u] = k /\ tx'[u] = "waiting"
    <3>1. CASE k = key[t]
      <4>1. \A u \in Range(q) : u \in Transactions /\ key[u] = k /\ tx[u] = "waiting"
        BY <1>0, <1>q, <3>1 DEF Senders, q
      <4>2. sendq'[k] = Append(q, t) /\ key[t] = k
        BY <2>3, <3>1
      <4>. QED  BY <2>2, <2>4, <4>1, <4>2
    <3>2. CASE k # key[t]
      BY <1>0, <1>q, <2>3, <2>4, <3>2 DEF Senders
    <3>. QED  BY <3>1, <3>2
  <2>. QED  BY <2>6 DEF Senders
<1>7. CASE CancelEarly(t)
  <2>1. \A u \in Transactions : tx[u] = "waiting" => tx'[u] = "waiting"
    BY <1>0, <1>7 DEF CancelEarly
  <2>. QED  BY <1>0, <1>7, <2>1, SameSenders DEF CancelEarly
<1>8. CASE Cancel(t)
  <2>. DEFINE q == sendq[key[t]]
  <2>0. PICK i \in 1..Len(q) : q[i] = t /\ sendq' = [sendq EXCEPT ![key[t]] = Without(@, i)]
    BY <1>8 DEF Cancel
  <2>1. q \in Seq(Transactions) /\ IsInjective(q)
    BY <1>0 DEF Senders
  <2>2. IsInjective(Without(q, i)) /\ Range(Without(q, i)) = Range(q) \ {t}
    BY <2>0, <2>1, WithoutFacts
  <2>3. sendq'[key[t]] = Without(q, i) /\ \A k \in Keys : k # key[t] => sendq'[k] = sendq[k]
    BY <1>0, <2>0
  <2>4. key' = key /\ \A u \in Transactions : u # t /\ tx[u] = "waiting" => tx'[u] = "waiting"
    BY <1>0, <1>8 DEF Cancel
  <2>5. key[t] = key[t]
    OBVIOUS
  <2>. HIDE DEF q
  <2>6. ASSUME NEW k \in Keys
        PROVE  IsInjective(sendq'[k]) /\ \A u \in Range(sendq'[k]) : key'[u] = k /\ tx'[u] = "waiting"
    <3>1. CASE k = key[t]
      <4>1. \A u \in Range(q) : u \in Transactions /\ key[u] = k /\ tx[u] = "waiting"
        BY <1>0, <1>q, <3>1 DEF Senders, q
      <4>2. sendq'[k] = Without(q, i)
        BY <2>3, <3>1
      <4>3. \A u \in Range(sendq'[k]) : u \in Range(q) /\ u # t
        BY <2>2, <4>2
      <4>. QED  BY <2>2, <2>4, <4>1, <4>2, <4>3
    <3>2. CASE k # key[t]
      BY <1>0, <1>q, <2>3, <2>4, <2>5, <3>2 DEF Senders
    <3>. QED  BY <3>1, <3>2
  <2>. QED  BY <2>6 DEF Senders
<1>9. CASE UnlockLast(t)
  <2>1. \A u \in Transactions : tx[u] = "waiting" => tx'[u] = "waiting"
    BY <1>0, <1>9 DEF UnlockLast
  <2>. QED  BY <1>0, <1>9, <2>1, SameSenders DEF UnlockLast
<1>10. CASE UnlockNoSlot(t)
  <2>1. \A u \in Transactions : tx[u] = "waiting" => tx'[u] = "waiting"
    BY <1>0, <1>10 DEF UnlockNoSlot
  <2>. QED  BY <1>0, <1>10, <2>1, SameSenders DEF UnlockNoSlot
<1>11. CASE UnlockHandOver(t)
  <2>. DEFINE q == sendq[key[t]]
              h == Head(q)
  <2>1. q \in Seq(Transactions) /\ IsInjective(q) /\ q # << >>
    BY <1>0, <1>11 DEF Senders, UnlockHandOver
  <2>2. IsInjective(Tail(q)) /\ Range(Tail(q)) = Range(q) \ {h}
    BY <2>1, TailFacts
  <2>3. sendq'[key[t]] = Tail(q) /\ \A k \in Keys : k # key[t] => sendq'[k] = sendq[k]
    BY <1>0, <1>11 DEF UnlockHandOver
  <2>4. key' = key /\ \A u \in Transactions : u # h /\ tx[u] = "waiting" => tx'[u] = "waiting"
    BY <1>0, <1>11 DEF UnlockHandOver
  <2>5. key[h] = key[t]
    BY <1>0, <2>1, HeadWaits
  <2>. HIDE DEF q, h
  <2>6. ASSUME NEW k \in Keys
        PROVE  IsInjective(sendq'[k]) /\ \A u \in Range(sendq'[k]) : key'[u] = k /\ tx'[u] = "waiting"
    <3>1. CASE k = key[t]
      <4>1. \A u \in Range(q) : u \in Transactions /\ key[u] = k /\ tx[u] = "waiting"
        BY <1>0, <1>q, <3>1 DEF Senders, q
      <4>2. sendq'[k] = Tail(q)
        BY <2>3, <3>1
      <4>3. \A u \in Range(sendq'[k]) : u \in Range(q) /\ u # h
        BY <2>2, <4>2
      <4>. QED  BY <2>2, <2>4, <4>1, <4>2, <4>3
    <3>2. CASE k # key[t]
      BY <1>0, <1>q, <2>3, <2>4, <2>5, <3>2 DEF Senders
    <3>. QED  BY <3>1, <3>2
  <2>. QED  BY <2>6 DEF Senders
<1>12. CASE UnlockReturn(t)
  <2>1. \A u \in Transactions : tx[u] = "waiting" => tx'[u] = "waiting"
    BY <1>0, <1>12 DEF UnlockReturn
  <2>. QED  BY <1>0, <1>12, <2>1, SameSenders DEF UnlockReturn
<1>. QED  BY <1>1, <1>2, <1>3, <1>4, <1>5, <1>6, <1>7, <1>8, <1>9, <1>10, <1>11, <1>12
         DEF Lock, Send, Unlock
-----------------------------------------------------------------------------
(* Every step keeps the channels right. *)
LEMMA OtherKey ==
  ASSUME NEW k \in Keys, SlotOK(k), key' = key, hot'[k] = hot[k], slots'[k] = slots[k], size'[k] = size[k],
         \A u \in Transactions : key[u] = k => tx'[u] = tx[u]
  PROVE  SlotOK(k)'
<1>1. Running(k)' = Running(k) /\ Active(k)' = Active(k)
  BY DEF Running, Active
<1>. QED  BY <1>1 DEF SlotOK

LEMMA OwnKey ==
  ASSUME IInv, SizesAgree', ~dryRun, NEW t \in Transactions, NEW k \in Keys, key[t] = k,
         Lock(t) \/ Send(t) \/ CancelEarly(t) \/ Cancel(t) \/ Unlock(t)
  PROVE  SlotOK(k)'
<1>0. /\ TypeOK /\ Senders /\ SizesAgree /\ SlotOK(k)
      /\ tx \in [Transactions -> TxStates] /\ hot \in [Keys -> BOOLEAN]
      /\ size \in [Keys -> Nat] /\ slots \in [Keys -> 0..ConcurrentTransactions]
  BY DEF IInv, TypeOK, SlotInv
<1>a. /\ Running(k) \in SUBSET Transactions /\ Running(k)' \in SUBSET Transactions
      /\ Active(k) \in SUBSET Transactions /\ Active(k)' \in SUBSET Transactions
  BY DEF Running, Active
<1>b. Cardinality(Running(k)) \in Nat
  BY <1>a, CallsFinite
<1>c. size[k] = Cardinality(Active(k)) /\ size[k] \in Nat /\ size'[k] = Cardinality(Active(k)')
  BY <1>0 DEF SizesAgree
<1>d. tx[t] \notin {"idle", "running"} => hot[k]
  BY <1>0 DEF SlotOK
<1>e. tx[t] # "idle" /\ size[k] # 1 => hot[k] /\ size[k] > 1
  <2>1. tx[t] # "idle" => size[k] >= 1
    BY <1>0, Counted
  <2>2. ~hot[k] => Cardinality(Active(k)) <= 1
    BY <1>0 DEF SlotOK
  <2>. QED  BY <1>c, <2>1, <2>2, SMT
<1>f. hot[k] => slots[k] = Cardinality(Running(k)) /\ size[k] > 0
  BY <1>0 DEF SlotOK
<1>g. ~hot[k] => \A u \in Transactions : key[u] = k => tx[u] \in {"idle", "running"}
  BY <1>0 DEF SlotOK
<1>1. CASE LockFirst(t)
  <2>1. ~hot[k] /\ hot' = hot /\ key' = key /\ size'[k] = 1
    BY <1>0, <1>1, <1>f, SMT DEF LockFirst
  <2>2. \A u \in Transactions : key'[u] = k => tx'[u] \in {"idle", "running"}
    BY <1>0, <1>1, <1>g, <2>1 DEF LockFirst
  <2>. QED  BY <1>c, <2>1, <2>2, SMT DEF SlotOK
<1>2. CASE LockDryRun(t)
  BY <1>2 DEF LockDryRun
<1>3. CASE LockLocked(t)
  <2>1. hot'[k] /\ key' = key /\ slots'[k] = (IF hot[k] THEN slots[k] ELSE 1) /\ size'[k] = size[k] + 1
    BY <1>0, <1>3 DEF LockLocked, Heat, Count
  <2>2. Running(k)' = Running(k)
    BY <1>0, <1>3 DEF LockLocked, Running
  <2>3. slots'[k] = Cardinality(Running(k))
    <3>1. CASE hot[k]
      BY <1>f, <2>1, <3>1
    <3>2. CASE ~hot[k]
      <4>1. Running(k) = Active(k)
        BY <1>g, <3>2 DEF Running, Active
      <4>2. Cardinality(Active(k)) <= 1 /\ size[k] > 0
        BY <1>0, <1>3, <3>2 DEF SlotOK, LockLocked
      <4>. QED  BY <1>c, <2>1, <3>2, <4>1, <4>2, SMT
    <3>. QED  BY <3>1, <3>2
  <2>. QED  BY <1>c, <2>1, <2>2, <2>3, SMT DEF SlotOK
<1>4. CASE GetSlot(t)
  <2>1. hot[k] /\ hot' = hot /\ size' = size /\ key' = key /\ slots'[k] = slots[k] + 1
    BY <1>0, <1>4, <1>d DEF GetSlot
  <2>2. t \notin Running(k) /\ \A u \in Transactions : u \in Running(k)' <=> u = t \/ u \in Running(k)
    BY <1>0, <1>4 DEF GetSlot, Running
  <2>3. Cardinality(Running(k)') = Cardinality(Running(k)) + 1
    BY <1>a, <2>2, OneMore, SMT
  <2>. QED  BY <1>f, <2>1, <2>3 DEF SlotOK
<1>5. CASE NoSlot(t)
  <2>1. hot[k] /\ hot' = hot /\ size' = size /\ key' = key /\ slots' = slots
    BY <1>5, <1>d DEF NoSlot
  <2>2. Running(k)' = Running(k)
    BY <1>0, <1>5 DEF NoSlot, Running
  <2>. QED  BY <1>f, <2>1, <2>2 DEF SlotOK
<1>6. CASE Block(t)
  <2>1. hot[k] /\ hot' = hot /\ size' = size /\ key' = key /\ slots' = slots
    BY <1>6, <1>d DEF Block
  <2>2. Running(k)' = Running(k)
    BY <1>0, <1>6 DEF Block, Running
  <2>. QED  BY <1>f, <2>1, <2>2 DEF SlotOK
<1>7. CASE CancelEarly(t)
  <2>1. hot[k] /\ hot' = hot /\ size' = size /\ key' = key /\ slots' = slots
    BY <1>7, <1>d DEF CancelEarly
  <2>2. Running(k)' = Running(k)
    BY <1>0, <1>7 DEF CancelEarly, Running
  <2>. QED  BY <1>f, <2>1, <2>2 DEF SlotOK
<1>8. CASE Cancel(t)
  <2>1. hot[k] /\ hot' = hot /\ size' = size /\ key' = key /\ slots' = slots
    BY <1>8, <1>d DEF Cancel
  <2>2. Running(k)' = Running(k)
    BY <1>0, <1>8 DEF Cancel, Running
  <2>. QED  BY <1>f, <2>1, <2>2 DEF SlotOK
<1>9. CASE UnlockLast(t)
  <2>1. ~hot'[k] /\ key' = key /\ size'[k] = 0
    BY <1>0, <1>9, SMT DEF UnlockLast, Uncount
  <2>2. Active(k)' = {}
    BY <1>a, <1>c, <2>1, CallsFinite, FS_EmptySet
  <2>3. \A u \in Transactions : key'[u] = k => tx'[u] = "idle"
    BY <2>2 DEF Active
  <2>. QED  BY <1>c, <2>1, <2>3, SMT DEF SlotOK
<1>10. CASE UnlockNoSlot(t)
  <2>1. /\ hot[k] /\ size[k] > 1 /\ tx[t] = "cancelled"
        /\ hot' = hot /\ key' = key /\ slots' = slots /\ size'[k] = size[k] - 1
    BY <1>0, <1>10, <1>e DEF UnlockNoSlot, Uncount
  <2>2. Running(k)' = Running(k)
    BY <1>0, <1>10, <2>1 DEF UnlockNoSlot, Running
  <2>. QED  BY <1>c, <1>f, <2>1, <2>2, SMT DEF SlotOK
<1>11. CASE UnlockHandOver(t)
  <2>. DEFINE h == Head(sendq[k])
              M == Running(k) \ {t}
  <2>1. h \in Transactions /\ key[h] = k /\ tx[h] = "waiting"
    BY <1>0, <1>11, HeadWaits DEF UnlockHandOver
  <2>2. /\ hot[k] /\ size[k] > 1 /\ tx[t] = "running"
        /\ hot' = hot /\ key' = key /\ slots' = slots /\ size'[k] = size[k] - 1
    BY <1>0, <1>11, <1>e DEF UnlockHandOver, Uncount
  <2>3. tx' = [tx EXCEPT ![t] = "idle", ![h] = "running"]
    BY <1>11 DEF UnlockHandOver
  <2>. HIDE DEF h
  <2>4. t \in Running(k) /\ M \in SUBSET Transactions /\ h \notin M
    BY <2>1, <2>2 DEF Running
  <2>5. \A u \in Transactions : u \in Running(k)' <=> u = h \/ u \in M
    BY <1>0, <2>1, <2>2, <2>3 DEF Running
  <2>6. Cardinality(M) = Cardinality(Running(k)) - 1
    BY <1>a, <2>4, OneLess
  <2>. HIDE DEF M
  <2>7. Cardinality(Running(k)') = Cardinality(M) + 1
    BY <1>a, <2>1, <2>4, <2>5, OneMore
  <2>8. Cardinality(Running(k)') = Cardinality(Running(k))
    BY <1>b, <2>6, <2>7, SMT
  <2>. QED  BY <1>c, <1>f, <2>2, <2>8, SMT DEF SlotOK
<1>12. CASE UnlockReturn(t)
  <2>1. /\ hot[k] /\ size[k] > 1 /\ tx[t] = "running"
        /\ hot' = hot /\ key' = key /\ slots'[k] = slots[k] - 1 /\ size'[k] = size[k] - 1
    BY <1>0, <1>12, <1>e DEF UnlockReturn, Uncount
  <2>2. t \in Running(k) /\ \A u \in Transactions : u \in Running(k)' <=> u # t /\ u \in Running(k)
    BY <1>0, <1>12, <2>1 DEF UnlockReturn, Running
  <2>3. Cardinality(Running(k)') = Cardinality(Running(k)) - 1
    BY <1>a, <2>2, OneLess
  <2>. QED  BY <1>c, <1>f, <2>1, <2>3, SMT DEF SlotOK
<1>. QED  BY <1>1, <1>2, <1>3, <1>4, <1>5, <1>6, <1>7, <1>8, <1>9, <1>10, <1>11, <1>12
         DEF Lock, Send, Unlock

LEMMA SlotStep ==
  ASSUME IInv, SizesAgree', NEW t \in Transactions,
         Lock(t) \/ Send(t) \/ CancelEarly(t) \/ Cancel(t) \/ Unlock(t)
  PROVE  SlotInv'
<1>. SUFFICES ASSUME ~dryRun, NEW k \in Keys, k # key[t]  PROVE SlotOK(k)'
  BY OwnKey, ModeFixed DEF SlotInv
<1>0. /\ TypeOK /\ Senders /\ SlotOK(k) /\ key[t] \in Keys
      /\ tx \in [Transactions -> TxStates] /\ hot \in [Keys -> BOOLEAN]
      /\ size \in [Keys -> Nat] /\ slots \in [Keys -> 0..ConcurrentTransactions]
  BY DEF IInv, TypeOK, SlotInv
<1>. DEFINE Same == /\ key' = key /\ hot'[k] = hot[k] /\ slots'[k] = slots[k] /\ size'[k] = size[k]
                    /\ \A u \in Transactions : key[u] = k => tx'[u] = tx[u]
<1>1. CASE LockFirst(t)
  <2>1. Same
    BY <1>0, <1>1 DEF LockFirst
  <2>. QED  BY <1>0, <2>1, OtherKey
<1>2. CASE LockDryRun(t)
  BY <1>2 DEF LockDryRun
<1>3. CASE LockLocked(t)
  <2>1. Same
    BY <1>0, <1>3 DEF LockLocked, Heat, Count
  <2>. QED  BY <1>0, <2>1, OtherKey
<1>4. CASE GetSlot(t)
  <2>1. Same
    BY <1>0, <1>4 DEF GetSlot
  <2>. QED  BY <1>0, <2>1, OtherKey
<1>5. CASE NoSlot(t)
  <2>1. Same
    BY <1>0, <1>5 DEF NoSlot
  <2>. QED  BY <1>0, <2>1, OtherKey
<1>6. CASE Block(t)
  <2>1. Same
    BY <1>0, <1>6 DEF Block
  <2>. QED  BY <1>0, <2>1, OtherKey
<1>7. CASE CancelEarly(t)
  <2>1. Same
    BY <1>0, <1>7 DEF CancelEarly
  <2>. QED  BY <1>0, <2>1, OtherKey
<1>8. CASE Cancel(t)
  <2>1. Same
    BY <1>0, <1>8 DEF Cancel
  <2>. QED  BY <1>0, <2>1, OtherKey
<1>9. CASE UnlockLast(t)
  <2>1. Same
    BY <1>0, <1>9 DEF UnlockLast, Uncount
  <2>. QED  BY <1>0, <2>1, OtherKey
<1>10. CASE UnlockNoSlot(t)
  <2>1. Same
    BY <1>0, <1>10 DEF UnlockNoSlot, Uncount
  <2>. QED  BY <1>0, <2>1, OtherKey
<1>11. CASE UnlockHandOver(t)
  <2>1. key[Head(sendq[key[t]])] = key[t]
    BY <1>0, <1>11, HeadWaits DEF UnlockHandOver
  <2>2. Same
    BY <1>0, <1>11, <2>1 DEF UnlockHandOver, Uncount
  <2>. QED  BY <1>0, <2>2, OtherKey
<1>12. CASE UnlockReturn(t)
  <2>1. Same
    BY <1>0, <1>12 DEF UnlockReturn, Uncount
  <2>. QED  BY <1>0, <2>1, OtherKey
<1>. QED  BY <1>1, <1>2, <1>3, <1>4, <1>5, <1>6, <1>7, <1>8, <1>9, <1>10, <1>11, <1>12
         DEF Lock, Send, Unlock
-----------------------------------------------------------------------------
LEMMA InitInv ==
  ASSUME Init
  PROVE  IInv
<1>. USE SerializerAssumption
<1>1. TypeOK
  BY SMT DEF Init, TypeOK, TxStates
<1>2. Senders
  <2>1. \A k \in Keys : sendq[k] = << >> /\ DOMAIN sendq[k] = {}
    BY SMT DEF Init
  <2>. QED  BY <2>1 DEF Senders, Range, IsInjective
<1>3. (\A k \in Keys : Active(k) = {}) /\ {t \in Transactions : tx[t] # "idle"} = {}
  BY DEF Init, Active
<1>4. SizesAgree
  BY <1>3, FS_EmptySet DEF Init, SizesAgree
<1>5. SlotInv
  <2>. SUFFICES ASSUME NEW k \in Keys  PROVE SlotOK(k)
    BY DEF SlotInv
  <2>1. ~hot[k] /\ \A t \in Transactions : tx[t] = "idle"
    BY DEF Init
  <2>2. Cardinality(Active(k)) = 0
    BY <1>3, FS_EmptySet
  <2>. QED  BY <2>1, <2>2, SMT DEF SlotOK
<1>. QED  BY <1>1, <1>2, <1>4, <1>5 DEF IInv

(* The invariant of the hot row protection is inductive. *)
THEOREM SerializerInvariant == Spec => []IInv
<1>1. IInv /\ [Next]_vars => IInv'
  <2>. SUFFICES ASSUME IInv, [Next]_vars  PROVE IInv'
    OBVIOUS
  <2>1. CASE Next
    <3>1. PICK t \in Transactions : Lock(t) \/ Send(t) \/ CancelEarly(t) \/ Cancel(t) \/ Unlock(t)
      BY <2>1 DEF Next
    <3>2. TypeOK' /\ Senders' /\ SizesAgree'
      BY <3>1, TypeStep, SenderStep, SizeStep
    <3>3. SlotInv'
      BY <3>1, <3>2, SlotStep
    <3>. QED  BY <3>2, <3>3 DEF IInv
  <2>2. CASE UNCHANGED vars
    <3>1. /\ dryRun' = dryRun /\ key' = key /\ tx' = tx /\ size' = size /\ hot' = hot /\ slots' = slots
          /\ sendq' = sendq /\ globalSize' = globalSize /\ ahead' = ahead
      BY <2>2 DEF vars
    <3>2. TypeOK' /\ Senders'
      BY <3>1 DEF IInv, TypeOK, Senders
    <3>3. SizesAgree'
      BY <3>1, GoesOn DEF IInv
    <3>4. SlotInv'
      BY <3>1, OtherKey DEF IInv, SlotInv
    <3>. QED  BY <3>2, <3>3, <3>4 DEF IInv
  <2>. QED  BY <2>1, <2>2
<1>. QED  BY <1>1, InitInv, PTL DEF Spec

(* The channel of a row is never fuller than concurrentTransactions, and   *)
(* the counters unlockLocked decrements never become negative.             *)
THEOREM SerializerTypeCorrect == Spec => []TypeOK
<1>1. IInv => TypeOK
  BY DEF IInv
<1>. QED  BY <1>1, SerializerInvariant, PTL

(* q.size and globalSize always count the calls in flight. *)
THEOREM SizesAlwaysAgree == Spec => []SizesAgree
<1>1. IInv => SizesAgree
  BY DEF IInv
<1>. QED  BY <1>1, SerializerInvariant, PTL

(* The channel holds one element for each call let through: the receive in *)
(* unlockLocked never blocks.                                              *)
THEOREM SlotsAlwaysAgree == Spec => []SlotsAgree
<1>1. IInv => SlotsAgree
  BY DEF IInv, SlotInv, SlotOK, SlotsAgree
<1>. QED  BY <1>1, SerializerInvariant, PTL

(* At most concurrentTransactions transactions of a row are let through. *)
THEOREM RowsAreProtected == Spec => []RowsProtected
<1>1. IInv => RowsProtected
  <2>. SUFFICES ASSUME IInv, ~dryRun, NEW k \in Keys
                PROVE  Cardinality(Running(k)) <= ConcurrentTransactions
    BY DEF RowsProtected
  <2>1. SlotOK(k) /\ slots[k] \in 0..ConcurrentTransactions
    BY DEF IInv, SlotInv, TypeOK
  <2>2. CASE hot[k]
    BY <2>1, <2>2, SMT DEF SlotOK
  <2>3. CASE ~hot[k]
    <3>1. Active(k) \in SUBSET Transactions /\ Running(k) \in SUBSET Active(k)
      BY DEF Active, Running
    <3>2. Cardinality(Active(k)) <= 1
      BY <2>1, <2>3 DEF SlotOK
    <3>3. Running(k) \in SUBSET Transactions
      BY <3>1
    <3>4. Cardinality(Active(k)) \in Nat /\ Cardinality(Running(k)) \in Nat
      BY <3>1, <3>3, CallsFinite
    <3>5. Cardinality(Running(k)) <= Cardinality(Active(k))
      BY <3>1, CallsFinite, FS_Subset
    <3>. QED  BY <3>2, <3>4, <3>5, SerializerAssumption, SMT
  <2>. QED  BY <2>2, <2>3
<1>. QED  BY <1>1, SerializerInvariant, PTL
-----------------------------------------------------------------------------
(* The limits, by the counters the code compares with them.  A first call  *)
(* is let through whatever globalSize is: the bound is on those that wait. *)
Waiting == {t \in Transactions : tx[t] \in {"trying", "blocking", "waiting"}}

LimitInv ==
  ~dryRun => /\ \A k \in Keys : size[k] <= MaxQueueSize
             /\ Cardinality(Waiting) <= MaxGlobalQueueSize

(* Only LockLocked makes a call wait. *)
LEMMA WaitingStep ==
  ASSUME IInv, NEW t \in Transactions, ~LockLocked(t),
         Lock(t) \/ Send(t) \/ CancelEarly(t) \/ Cancel(t) \/ Unlock(t)
  PROVE  Waiting' \subseteq Waiting
<1>0. TypeOK /\ Senders /\ tx \in [Transactions -> TxStates] /\ key[t] \in Keys
  BY DEF IInv, TypeOK
<1>1. CASE LockFirst(t)
  BY <1>0, <1>1 DEF LockFirst, Waiting
<1>2. CASE LockDryRun(t)
  BY <1>0, <1>2 DEF LockDryRun, Waiting
<1>3. CASE GetSlot(t)
  BY <1>0, <1>3 DEF GetSlot, Waiting
<1>4. CASE NoSlot(t)
  BY <1>0, <1>4 DEF NoSlot, Waiting
<1>5. CASE Block(t)
  BY <1>0, <1>5 DEF Block, Waiting
<1>6. CASE CancelEarly(t)
  BY <1>0, <1>6 DEF CancelEarly, Waiting
<1>7. CASE Cancel(t)
  BY <1>0, <1>7 DEF Cancel, Waiting
<1>8. CASE UnlockLast(t)
  BY <1>0, <1>8 DEF UnlockLast, Waiting
<1>9. CASE UnlockNoSlot(t)
  BY <1>0, <1>9 DEF UnlockNoSlot, Waiting
<1>10. CASE UnlockHandOver(t)
  <2>1. Head(sendq[key[t]]) \in Transactions
    BY <1>0, <1>10, HeadWaits DEF UnlockHandOver
  <2>. QED  BY <1>0, <1>10, <2>1 DEF UnlockHandOver, Waiting
<1>11. CASE UnlockReturn(t)
  BY <1>0, <1>11 DEF UnlockReturn, Waiting
<1>. QED  BY <1>1, <1>2, <1>3, <1>4, <1>5, <1>6, <1>7, <1>8, <1>9, <1>10, <1>11
         DEF Lock, Send, Unlock

(* Only the Lock steps raise a queue's size: to 1, or to the limit. *)
LEMMA QueueLimitStep ==
  ASSUME IInv, ~dryRun, NEW t \in Transactions, NEW k \in Keys, size[k] <= MaxQueueSize,
         Lock(t) \/ Send(t) \/ CancelEarly(t) \/ Cancel(t) \/ Unlock(t)
  PROVE  size'[k] <= MaxQueueSize
<1>. USE SerializerAssumption
<1>0. size \in [Keys -> Nat] /\ key[t] \in Keys
  BY DEF IInv, TypeOK
<1>1. CASE LockFirst(t)
  BY <1>0, <1>1, SMT DEF LockFirst
<1>2. CASE LockLocked(t)
  BY <1>0, <1>2, SMT DEF LockLocked, Count, Exceeded
<1>3. ASSUME Uncount(key[t])  PROVE size'[k] <= MaxQueueSize
  BY <1>0, <1>3, SMT DEF Uncount
<1>4. CASE LockDryRun(t)
  BY <1>4 DEF LockDryRun
<1>5. CASE Send(t) \/ CancelEarly(t) \/ Cancel(t)
  BY <1>5 DEF Send, GetSlot, NoSlot, Block, CancelEarly, Cancel
<1>6. CASE Unlock(t)
  <2>1. Uncount(key[t])
    BY <1>6 DEF Unlock, UnlockLast, UnlockNoSlot, UnlockHandOver, UnlockReturn
  <2>. QED  BY <1>3, <2>1
<1>. QED  BY <1>1, <1>2, <1>4, <1>5, <1>6 DEF Lock

(* No row has more transactions than maxQueueSize, and no more than        *)
(* maxGlobalQueueSize wait, although the lock is released while they do.   *)
THEOREM LimitsAlwaysHold == Spec => []LimitsHold
<1>. USE SerializerAssumption
<1>1. Init => LimitInv
  <2>. SUFFICES ASSUME Init  PROVE LimitInv
    OBVIOUS
  <2>1. Waiting = {}
    BY DEF Init, Waiting
  <2>2. Cardinality(Waiting) = 0
    BY <2>1, FS_EmptySet
  <2>. QED  BY <2>2, SMT DEF Init, LimitInv
<1>2. IInv /\ LimitInv /\ [Next]_vars => LimitInv'
  <2>. SUFFICES ASSUME IInv, LimitInv, [Next]_vars  PROVE LimitInv'
    OBVIOUS
  <2>m. dryRun' = dryRun
    <3>1. CASE Next
      BY <3>1, ModeFixed DEF Next
    <3>2. CASE UNCHANGED vars
      BY <3>2 DEF vars
    <3>. QED  BY <3>1, <3>2
  <2>. SUFFICES ASSUME ~dryRun
                PROVE  /\ \A k \in Keys : size'[k] <= MaxQueueSize
                       /\ Cardinality(Waiting') <= MaxGlobalQueueSize
    BY <2>m DEF LimitInv
  <2>0. /\ \A k \in Keys : size[k] <= MaxQueueSize
        /\ Cardinality(Waiting) <= MaxGlobalQueueSize
    BY DEF LimitInv
  <2>w. Waiting \in SUBSET Transactions /\ Waiting' \in SUBSET Transactions
    BY DEF Waiting
  <2>s. ASSUME Waiting' \subseteq Waiting  PROVE Cardinality(Waiting') <= MaxGlobalQueueSize
    <3>1. Cardinality(Waiting') <= Cardinality(Waiting)
      BY <2>s, <2>w, CallsFinite, FS_Subset
    <3>. QED  BY <2>0, <2>w, <3>1, CallsFinite, SMT
  <2>1. CASE UNCHANGED vars
    <3>1. size' = size /\ Waiting' = Waiting
      BY <2>1 DEF vars, Waiting
    <3>. QED  BY <2>0, <3>1
  <2>2. CASE Next
    <3>1. PICK t \in Transactions : Lock(t) \/ Send(t) \/ CancelEarly(t) \/ Cancel(t) \/ Unlock(t)
      BY <2>2 DEF Next
    <3>2. \A k \in Keys : size'[k] <= MaxQueueSize
      BY <2>0, <3>1, QueueLimitStep
    <3>3. CASE ~LockLocked(t)
      BY <2>s, <3>1, <3>2, <3>3, WaitingStep
    <3>4. CASE LockLocked(t)
      <4>. DEFINE B == {u \in Transactions : tx[u] # "idle"}
      <4>1. Waiting \in SUBSET B /\ B \in SUBSET Transactions
        BY DEF Waiting
      <4>2. globalSize = Cardinality(B)
        BY DEF IInv, SizesAgree
      <4>. HIDE DEF B
      <4>3. Cardinality(Waiting) <= Cardinality(B)
        BY <4>1, CallsFinite, FS_Subset
      <4>4. tx \in [Transactions -> TxStates] /\ globalSize \in Nat /\ ~(globalSize >= MaxGlobalQueueSize)
        BY <3>4 DEF IInv, TypeOK, LockLocked, Exceeded
      <4>5. t \notin Waiting /\ \A u \in Transactions : u \in Waiting' <=> u = t \/ u \in Waiting
        BY <3>4, <4>4 DEF LockLocked, Waiting
      <4>6. Cardinality(Waiting') = Cardinality(Waiting) + 1 /\ Cardinality(Waiting) \in Nat
        BY <2>w, <4>5, OneMore, CallsFinite
      <4>7. Cardinality(Waiting') <= MaxGlobalQueueSize
        BY <4>2, <4>3, <4>4, <4>6, SMT
      <4>. QED  BY <3>2, <4>7
    <3>. QED  BY <3>3, <3>4
  <2>. QED  BY <2>1, <2>2
<1>3. IInv /\ LimitInv => LimitsHold
  <2>. SUFFICES ASSUME IInv, LimitInv, ~dryRun  PROVE LimitsHold
    BY DEF LimitsHold
  <2>1. key \in [Transactions -> Keys]
    BY DEF IInv, TypeOK
  <2>2. UNION {Queued(k) : k \in Keys} = Waiting
    BY <2>1, SMT DEF Queued, Waiting
  <2>3. \A k \in Keys : Cardinality(Active(k)) <= MaxQueueSize
    BY DEF IInv, SizesAgree, LimitInv
  <2>. QED  BY <2>2, <2>3 DEF LimitsHold, LimitInv
<1>. QED  BY <1>1, <1>2, <1>3, SerializerInvariant, PTL DEF Spec

(* Counters, channel and limits are right at every moment, for any number  *)
(* of calls, rows and slots.                                               *)
THEOREM QueuesAlwaysAgree == Spec => []QueuesAgree
<1>1. SizesAgree /\ SlotsAgree /\ LimitsHold => QueuesAgree
  BY DEF QueuesAgree
<1>. QED  BY <1>1, SizesAlwaysAgree, SlotsAlwaysAgree, LimitsAlwaysHold, PTL
=============================================================================
