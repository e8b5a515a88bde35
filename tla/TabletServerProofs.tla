------------------------- MODULE TabletServerProofs --------------------------
(***************************************************************************)
(* For any clients, redo log, capacities and limits: a transition of the   *)
(* tablet has one owner, the limiter counts the transactions, and the mode *)
(* of the transaction engine is the one that the serving type asks for.    *)
(*                                                                         *)
(* The transaction engine alone, for any number of threads that call it at *)
(* any time, and any clients: the state is the one that the last caller    *)
(* asked for, and a ReadOnly engine has no read-write transaction, except  *)
(* one that overtook the wait for the begins.                              *)
(*                                                                         *)
(* Then the engine in the tablet, whose threads call it one at a time but  *)
(* may also stop it gently: its pool counts what it lends and a closed one *)
(* has lent nothing, and both results hold there too.                      *)
(***************************************************************************)
EXTENDS TabletServer, FiniteSetTheorems, TLAPS

(* The backends that are tried on a leaf, and the time they may take.      *)
USE ZenonT(10), SMTT(20)

Labels == Owning \cup {"none", "reserve", "service"}
States == Transient \cup {"NotConnected", "NotServing", "Serving"}

(* A transition has one owner: TransitionOwned for the two threads.        *)
OwnInv ==
  /\ thread \in [Controllers -> Labels] /\ tsState \in States
  /\ thread[Manager] \notin Owning \/ thread[Checker] \notin Owning
  /\ tsState \in Transient <=> thread[Manager] \in Owning \/ thread[Checker] \in Owning
-----------------------------------------------------------------------------
LEMMA OwnInvOwned == OwnInv => TransitionOwned
<1> SUFFICES ASSUME OwnInv PROVE TransitionOwned
  OBVIOUS
<1>1. CASE thread[Manager] \in Owning
  <2>1. /\ \A d \in Controllers \ {Manager} : thread[d] \notin Owning
        /\ thread[Manager] \in Owning <=> tsState \in Transient
    BY <1>1, TabletServerAssumption DEF OwnInv
  <2> QED BY <2>1, TabletServerAssumption DEF TransitionOwned
<1>2. CASE thread[Manager] \notin Owning
  <2>1. /\ \A d \in Controllers \ {Checker} : thread[d] \notin Owning
        /\ thread[Checker] \in Owning <=> tsState \in Transient
    BY <1>2, TabletServerAssumption DEF OwnInv
  <2> QED BY <2>1, TabletServerAssumption DEF TransitionOwned
<1> QED BY <1>1, <1>2

LEMMA OwnInvInit == TabletInit => OwnInv
BY TabletServerAssumption DEF TabletInit, OwnInv, Labels, States, Owning, Transient

(* The manager's own steps.                                                *)
LEMMA ManagerInv ==
  ASSUME OwnInv,
         \/ \E type \in TabletTypes, serving \in BOOLEAN : SetServingType(type, serving)
         \/ ManagerStep
  PROVE  OwnInv'
<1> USE TabletServerAssumption DEF OwnInv, Labels, States, Owning, Transient, At, To
<1>1. ASSUME NEW type \in TabletTypes, NEW serving \in BOOLEAN, SetServingType(type, serving)
      PROVE  OwnInv'
  BY <1>1 DEF SetServingType
<1>2. CASE FullStart
  BY <1>2 DEF FullStart
<1>3. CASE ServeNewType
  BY <1>3 DEF ServeNewType, Invoke
<1>4. CASE Accepted
  BY <1>4 DEF Accepted
<1>5. CASE CloseAll
  BY <1>5 DEF CloseAll, Invoke
<1>6. CASE ClosedAll
  BY <1>6 DEF ClosedAll
<1> QED BY <1>1, <1>2, <1>3, <1>4, <1>5, <1>6 DEF ManagerStep

(* The checker's own steps.                                                *)
LEMMA CheckerInv ==
  ASSUME OwnInv, CheckMySQL \/ CheckerStep
  PROVE  OwnInv'
<1> USE TabletServerAssumption DEF OwnInv, Labels, States, Owning, Transient, At, To
<1>1. CASE CheckMySQL
  BY <1>1 DEF CheckMySQL
<1>2. CASE Checked
  BY <1>2 DEF Checked
<1>3. CASE StopService
  BY <1>3 DEF StopService
<1> QED BY <1>1, <1>2, <1>3 DEF CheckerStep

(* The steps of a shutdown, which both threads run.                        *)
LEMMA ShutdownInv ==
  ASSUME OwnInv, NEW c \in Controllers, ShutdownStep(c)
  PROVE  OwnInv'
<1> USE TabletServerAssumption DEF OwnInv, Labels, States, Owning, Transient, At, To
<1>1. CASE WaitForShutdown(c)
  BY <1>1 DEF WaitForShutdown, Invoke
<1>2. CASE Stopped(c)
  BY <1>2 DEF Stopped
<1>3. CASE WaitRequests(c)
  BY <1>3 DEF WaitRequests
<1>4. CASE Down(c)
  BY <1>4 DEF Down
<1> QED BY <1>1, <1>2, <1>3, <1>4 DEF ShutdownStep

LEMMA OwnInvStep ==
  ASSUME OwnInv, [TabletNext]_allVars
  PROVE  OwnInv'
<1>1. CASE TabletStep
  BY <1>1, ManagerInv, CheckerInv, ShutdownInv DEF TabletStep
<1>2. CASE RequestStep
  <2>1. UNCHANGED <<thread, tsState>>
    BY <1>2 DEF RequestStep, AdmitBegin, AdmitUse, GetAsked, tabletVars
  <2> QED BY <2>1 DEF OwnInv
<1>3. CASE UNCHANGED tabletVars
  BY <1>3 DEF tabletVars, OwnInv
<1> QED BY <1>1, <1>2, <1>3 DEF TabletNext, allVars

(* While the tablet is Transitioning or ShuttingDown exactly one thread,   *)
(* SetServingType's or CheckMySQL's, is going to take it out of that       *)
(* state, and in other states none is.                                     *)
THEOREM OneOwner == TabletSpec => []TransitionOwned
<1>1. TabletInit => OwnInv
  BY OwnInvInit
<1>2. OwnInv /\ [TabletNext]_allVars => OwnInv'
  BY OwnInvStep
<1>3. OwnInv => TransitionOwned
  BY OwnInvOwned
<1> QED BY <1>1, <1>2, <1>3, PTL DEF TabletSpec
-----------------------------------------------------------------------------
(* The limiter.  A client's transaction has a slot of it in these stages.  *)
Slotted == {"queue", "conn", "exec", "idle", "busy", "prepared", "stray", "doomed", "ending"}
Slots(f) == {t \in Clients : f[t] \in Slotted}

LimiterInv ==
  /\ stage \in [Txs -> Stages]
  /\ usage \in Nat /\ leaked \in Nat
  /\ LimiterAccounts

LEMMA GrantedSlots == Granted = Slots(stage)
BY DEF Granted, Slots, Slotted, In, Held, BeginStages, Txs

LEMMA SlotsFinite ==
  ASSUME NEW f
  PROVE  IsFiniteSet(Slots(f)) /\ Cardinality(Slots(f)) \in Nat
<1>1. Slots(f) \subseteq Txs
  BY DEF Slots, Txs
<1>2. IsFiniteSet(Slots(f))
  BY <1>1, TxPoolAssumption, FS_Subset
<1> QED BY <1>2, FS_CardinalityType

(* A step that neither takes nor gives back a slot.                        *)
LEMMA SlotsStay ==
  ASSUME LimiterInv, stage' \in [Txs -> Stages], Slots(stage') = Slots(stage),
         usage' = usage, leaked' = leaked
  PROVE  LimiterInv'
<1>1. Granted' = Slots(stage') /\ Granted = Slots(stage)
  BY GrantedSlots DEF Granted, Slots, Slotted, In, Held, BeginStages, Txs
<1> QED BY <1>1 DEF LimiterInv, LimiterAccounts

(* One transaction moves.                                                  *)
LEMMA TxMoves ==
  ASSUME LimiterInv, NEW t \in Txs, NEW l \in Stages, stage' = [stage EXCEPT ![t] = l]
  PROVE  /\ stage' \in [Txs -> Stages]
         /\ t \notin Clients \/ (l \in Slotted <=> stage[t] \in Slotted)
              => Slots(stage') = Slots(stage)
         /\ t \in Clients /\ l \in Slotted /\ stage[t] \notin Slotted
              => Cardinality(Slots(stage')) = Cardinality(Slots(stage)) + 1
         /\ t \in Clients /\ l \notin Slotted /\ stage[t] \in Slotted
              => Cardinality(Slots(stage)) = Cardinality(Slots(stage')) + 1
<1>1. stage \in [Txs -> Stages] /\ stage' \in [Txs -> Stages]
  BY DEF LimiterInv
<1>2. ASSUME t \notin Clients \/ (l \in Slotted <=> stage[t] \in Slotted)
      PROVE  Slots(stage') = Slots(stage)
  BY <1>1, <1>2 DEF Slots, Txs
<1>3. ASSUME t \in Clients, l \in Slotted, stage[t] \notin Slotted
      PROVE  Cardinality(Slots(stage')) = Cardinality(Slots(stage)) + 1
  <2>1. Slots(stage') = Slots(stage) \cup {t} /\ t \notin Slots(stage)
    BY <1>1, <1>3 DEF Slots, Txs
  <2> QED BY <2>1, SlotsFinite, FS_AddElement
<1>4. ASSUME t \in Clients, l \notin Slotted, stage[t] \in Slotted
      PROVE  Cardinality(Slots(stage)) = Cardinality(Slots(stage')) + 1
  <2>1. Slots(stage) = Slots(stage') \cup {t} /\ t \notin Slots(stage')
    BY <1>1, <1>4 DEF Slots, Txs
  <2> QED BY <2>1, SlotsFinite, FS_AddElement
<1> QED BY <1>1, <1>2, <1>3, <1>4

LEMMA TxMovesInside ==
  ASSUME LimiterInv, NEW t \in Txs, NEW l \in Stages, stage' = [stage EXCEPT ![t] = l],
         t \notin Clients \/ (l \in Slotted <=> stage[t] \in Slotted), UNCHANGED limiter
  PROVE  LimiterInv'
<1>1. stage' \in [Txs -> Stages] /\ Slots(stage') = Slots(stage)
  BY TxMoves
<1>2. usage' = usage /\ leaked' = leaked
  BY DEF limiter
<1> QED BY <1>1, <1>2, SlotsStay

(* Some transactions with a slot are locked in order to roll them back.    *)
LEMMA DoomInv ==
  ASSUME LimiterInv, NEW S \in SUBSET In({"idle", "prepared"}), NEW c, Doom(S, c),
         UNCHANGED limiter
  PROVE  LimiterInv'
<1>1. stage' \in [Txs -> Stages]
  BY DEF Doom, LimiterInv, Stages, BeginStages
<1>2. \A t \in Txs : stage'[t] \in Slotted <=> stage[t] \in Slotted
  BY DEF Doom, LimiterInv, In, Slotted
<1>3. Slots(stage') = Slots(stage)
  BY <1>2 DEF Slots, Txs
<1>4. usage' = usage /\ leaked' = leaked
  BY DEF limiter
<1> QED BY <1>1, <1>3, <1>4, SlotsStay

(* open changes stages of the redo log's transactions only.                *)
LEMMA OpenInv ==
  ASSUME LimiterInv, NEW s, Open(s)
  PROVE  LimiterInv'
<1>1. PICK P \in SUBSET (In({"new"}) \cap Redo) : \E L \in SUBSET ((In({"new"}) \cap Redo) \ P) :
        /\ stage' = [t \in Txs |-> IF t \in P THEN "prepared"
                                   ELSE IF t \in L THEN "stray" ELSE stage[t]]
        /\ UNCHANGED limiter
  BY DEF Open
<1>2. PICK L \in SUBSET ((In({"new"}) \cap Redo) \ P) :
        /\ stage' = [t \in Txs |-> IF t \in P THEN "prepared"
                                   ELSE IF t \in L THEN "stray" ELSE stage[t]]
        /\ UNCHANGED limiter
  BY <1>1
<1>3. stage' \in [Txs -> Stages]
  BY <1>2 DEF LimiterInv, Stages, BeginStages
<1>4. \A t \in Clients : stage'[t] = stage[t]
  BY <1>2, TxPoolAssumption DEF Txs
<1>5. Slots(stage') = Slots(stage)
  BY <1>4 DEF Slots
<1>6. usage' = usage /\ leaked' = leaked
  BY <1>2 DEF limiter
<1> QED BY <1>3, <1>5, <1>6, SlotsStay

(* A client's transaction takes a slot, gives it back, or, refused for     *)
(* waiterCap, leaves it behind.                                            *)
LEMMA SlotTaken ==
  ASSUME LimiterInv, NEW t \in Clients, stage[t] \notin Slotted,
         NEW l \in Stages \cap Slotted, stage' = [stage EXCEPT ![t] = l],
         usage' = usage + 1, leaked' = leaked
  PROVE  LimiterInv'
<1>1. t \in Txs /\ l \in Stages /\ l \in Slotted
  BY DEF Txs
<1>2. stage' \in [Txs -> Stages] /\ Cardinality(Slots(stage')) = Cardinality(Slots(stage)) + 1
  BY <1>1, TxMoves
<1>3. Granted' = Slots(stage') /\ Granted = Slots(stage)
  BY GrantedSlots DEF Granted, Slots, Slotted, In, Held, BeginStages, Txs
<1>4. Cardinality(Slots(stage)) \in Nat
  BY SlotsFinite
<1> QED BY <1>2, <1>3, <1>4, SMT DEF LimiterInv, LimiterAccounts

LEMMA SlotGivenBack ==
  ASSUME LimiterInv, NEW t \in Clients, stage[t] \in Slotted,
         NEW l \in Stages \ Slotted, stage' = [stage EXCEPT ![t] = l],
         Release \/ (usage' = usage /\ leaked' = leaked + 1)
  PROVE  LimiterInv'
<1>1. t \in Txs /\ l \in Stages /\ l \notin Slotted
  BY DEF Txs
<1>2. stage' \in [Txs -> Stages] /\ Cardinality(Slots(stage)) = Cardinality(Slots(stage')) + 1
  BY <1>1, TxMoves
<1>3. Granted' = Slots(stage') /\ Granted = Slots(stage)
  BY GrantedSlots DEF Granted, Slots, Slotted, In, Held, BeginStages, Txs
<1>4. Cardinality(Slots(stage')) \in Nat
  BY SlotsFinite
<1>5. usage = Cardinality(Slots(stage')) + 1 + leaked /\ leaked \in Nat /\ usage \in Nat
  BY <1>2, <1>3 DEF LimiterInv, LimiterAccounts
<1>6. usage' \in Nat /\ leaked' \in Nat /\ usage' = Cardinality(Slots(stage')) + leaked'
  BY <1>4, <1>5, SMT DEF Release
<1> QED BY <1>2, <1>3, <1>6 DEF LimiterInv, LimiterAccounts
-----------------------------------------------------------------------------
LEMMA Kinds ==
  /\ Slotted \subseteq Stages
  /\ {"new", "request", "limit", "over"} \subseteq Stages \ Slotted
  /\ Clients \subseteq Txs /\ Redo \subseteq Txs /\ Clients \cap Redo = {}
BY TxPoolAssumption DEF Slotted, Stages, BeginStages, Txs

(* The steps of Begin.                                                     *)
LEMMA BeginLimiter ==
  ASSUME LimiterInv, NEW t \in Clients, BeginStep(t)
  PROVE  LimiterInv'
<1>1. CASE LimiterGet(t)
  <2>1. stage[t] \notin Slotted /\ "queue" \in Stages \cap Slotted /\ "over" \in Stages \ Slotted
    BY <1>1, Kinds DEF LimiterGet, Slotted
  <2>2. CASE usage' = usage + 1 /\ leaked' = leaked /\ stage' = [stage EXCEPT ![t] = "queue"]
    BY <2>1, <2>2, SlotTaken
  <2>3. CASE UNCHANGED limiter /\ stage' = [stage EXCEPT ![t] = "over"]
    <3>1. t \in Txs /\ "over" \in Stages /\ ("over" \in Slotted <=> stage[t] \in Slotted)
      BY <2>1, Kinds
    <3> QED BY <3>1, <2>3, TxMovesInside
  <2> QED BY <1>1, <2>2, <2>3 DEF LimiterGet
<1>2. CASE CountWaiter(t)
  <2>1. /\ t \in Txs /\ stage[t] \in Slotted /\ "conn" \in Stages /\ "conn" \in Slotted
        /\ "over" \in Stages \ Slotted
    BY <1>2, Kinds DEF CountWaiter, Slotted
  <2>2. CASE UNCHANGED limiter /\ stage' = [stage EXCEPT ![t] = "conn"]
    BY <2>1, <2>2, TxMovesInside
  <2>3. CASE usage' = usage /\ leaked' = leaked + 1 /\ stage' = [stage EXCEPT ![t] = "over"]
    BY <2>1, <2>3, SlotGivenBack
  <2> QED BY <1>2, <2>2, <2>3 DEF CountWaiter, limiter
<1>3. CASE PoolGet(t)
  <2>1. t \in Txs /\ "exec" \in Stages /\ "exec" \in Slotted /\ stage[t] \in Slotted
    BY <1>3, Kinds DEF PoolGet, Slotted
  <2> QED BY <1>3, <2>1, TxMovesInside DEF PoolGet
<1>4. CASE BeginFails(t)
  <2>1. stage[t] \in Slotted /\ "over" \in Stages \ Slotted
    BY <1>4, Kinds DEF BeginFails, Slotted
  <2> QED BY <1>4, <2>1, SlotGivenBack DEF BeginFails
<1>5. CASE Register(t)
  <2>1. t \in Txs /\ "idle" \in Stages /\ "idle" \in Slotted /\ stage[t] \in Slotted
    BY <1>5, Kinds DEF Register, Slotted
  <2> QED BY <1>5, <2>1, TxMovesInside DEF Register
<1> QED BY <1>1, <1>2, <1>3, <1>4, <1>5 DEF BeginStep

(* Using, concluding and killing transactions.                             *)
LEMMA UseLimiter ==
  ASSUME LimiterInv, NEW t \in Txs, Use(t) \/ Recycle(t) \/ Finish(t) \/ Resolve(t) \/ Unregister(t)
  PROVE  LimiterInv'
<1>1. {"idle", "busy", "ending"} \subseteq Stages \cap Slotted
  BY Kinds DEF Slotted
<1>2. stage[t] \in Slotted /\ UNCHANGED limiter
  BY DEF Use, Recycle, Finish, Resolve, Unregister, Slotted
<1>3. PICK l \in {"idle", "busy", "ending"} : stage' = [stage EXCEPT ![t] = l]
  BY DEF Use, Recycle, Finish, Resolve, Unregister
<1>4. l \in Stages /\ l \in Slotted
  BY <1>1
<1> QED BY <1>2, <1>3, <1>4, TxMovesInside

LEMMA AgainLimiter ==
  ASSUME LimiterInv, NEW t \in Clients, Again(t)
  PROVE  LimiterInv'
<1>1. t \in Txs /\ "new" \in Stages /\ ("new" \in Slotted <=> stage[t] \in Slotted)
  BY Kinds DEF Again
<1> QED BY <1>1, TxMovesInside DEF Again

LEMMA ConcludeLimiter ==
  ASSUME LimiterInv, NEW t \in Txs, Conclude(t)
  PROVE  LimiterInv'
<1>1. stage[t] \in Slotted
  BY DEF Conclude, Slotted
<1>2. CASE t \in Clients
  <2>1. "over" \in Stages \ Slotted /\ t \notin Redo
    BY <1>2, Kinds
  <2>2. Release /\ stage' = [stage EXCEPT ![t] = "over"]
    BY <1>2, <2>1 DEF Conclude
  <2> QED BY <1>1, <1>2, <2>1, <2>2, SlotGivenBack
<1>3. CASE t \notin Clients
  <2>1. PICK l \in {"new", "over"} : stage' = [stage EXCEPT ![t] = l]
    BY DEF Conclude
  <2>2. l \in Stages
    BY Kinds
  <2>3. UNCHANGED limiter
    BY <1>3 DEF Conclude
  <2> QED BY <1>3, <2>1, <2>2, <2>3, TxMovesInside
<1> QED BY <1>2, <1>3

LEMMA PoolLimiter ==
  ASSUME LimiterInv, PoolStep
  PROVE  LimiterInv'
<1>1. ASSUME NEW t \in Clients, BeginStep(t) \/ Recycle(t) \/ Finish(t) \/ Again(t)
      PROVE  LimiterInv'
  BY <1>1, BeginLimiter, UseLimiter, AgainLimiter, Kinds
<1>2. ASSUME NEW t \in Txs, Unregister(t) \/ Conclude(t)
      PROVE  LimiterInv'
  BY <1>2, UseLimiter, ConcludeLimiter
<1>3. CASE Kill
  <2>1. PICK S \in SUBSET Outdated : Doom(S, Killer)
    BY <1>3 DEF Kill
  <2>2. S \in SUBSET In({"idle", "prepared"}) /\ UNCHANGED limiter
    BY <1>3, <2>1 DEF Kill, Outdated, In
  <2> QED BY <2>1, <2>2, DoomInv
<1> QED BY <1>1, <1>2, <1>3 DEF PoolStep

LEMMA GateLimiter ==
  ASSUME LimiterInv, NEW t \in Clients, Gate(t, "request")
  PROVE  LimiterInv'
<1>1. PICK l \in {"limit", "over"} : stage' = [stage EXCEPT ![t] = l]
  BY DEF Gate
<1>2. t \in Txs /\ l \in Stages /\ (l \in Slotted <=> stage[t] \in Slotted)
  BY Kinds DEF Gate
<1> QED BY <1>1, <1>2, TxMovesInside DEF Gate

(* A step that leaves the stages and the limiter alone.                    *)
LEMMA StageStays ==
  ASSUME LimiterInv, stage' = stage, UNCHANGED limiter
  PROVE  LimiterInv'
<1>1. usage' = usage /\ leaked' = leaked
  BY DEF limiter
<1>2. stage' \in [Txs -> Stages] /\ Slots(stage') = Slots(stage)
  BY DEF LimiterInv
<1> QED BY <1>1, <1>2, SlotsStay

(* The engine: FetchAll, RollbackNonBusy and TxPool.Close doom, open       *)
(* restores, and the other steps leave the transactions alone.             *)
LEMMA EngineLimiter ==
  ASSUME LimiterInv, NEW c \in Controllers, EngineStep(c)
  PROVE  LimiterInv'
<1>1. CASE FetchAll(c)
  <2>1. In({"prepared"}) \in SUBSET In({"idle", "prepared"})
    BY DEF In
  <2> QED BY <1>1, <2>1, DoomInv DEF FetchAll
<1>2. CASE RollbackNonBusy(c) \/ StopTicks(c)
  <2>1. Outdated \in SUBSET In({"idle", "prepared"})
    BY DEF In, Outdated
  <2> QED BY <1>2, <2>1, DoomInv DEF RollbackNonBusy, StopTicks
<1>3. CASE Open(teState')
  BY <1>3, OpenInv
<1>4. CASE stage' = stage /\ UNCHANGED limiter
  BY <1>4, StageStays
<1>5. CASE OpenFromNotServing(c) \/ EndLocked(c) \/ EndTransition(c)
  <2>1. Open(teState') \/ UNCHANGED poolVars
    BY <1>5 DEF OpenFromNotServing, EndLocked, EndTransition
  <2>2. UNCHANGED poolVars => stage' = stage /\ UNCHANGED limiter
    BY DEF poolVars
  <2> QED BY <2>1, <2>2, <1>3, <1>4
<1>6. CASE StartDrain(c) \/ Drain(c) \/ Drained(c)
  BY <1>4, <1>6 DEF StartDrain, Drain, Drained
<1>7. CASE UNCHANGED poolVars
  <2>1. stage' = stage /\ UNCHANGED limiter
    BY <1>7 DEF poolVars
  <2> QED BY <1>4, <2>1
<1>8. CASE \/ WaitBegins(c) \/ NothingToDo(c) \/ Redirect(c) \/ StartTransition(c)
           \/ CloseLocked(c) \/ BlockUntilEnd(c) \/ CloseSignal(c)
  BY <1>7, <1>8
  DEF WaitBegins, NothingToDo, Redirect, StartTransition, CloseLocked, BlockUntilEnd, CloseSignal
<1>9. CASE Spawn(c) \/ EmptyInTime(c) \/ RollbackDone(c) \/ WaitForEmpty(c) \/ Join(c)
  BY <1>7, <1>9 DEF Spawn, EmptyInTime, RollbackDone, WaitForEmpty, Join
<1> QED BY <1>1, <1>2, <1>5, <1>6, <1>8, <1>9 DEF EngineStep, CloseStep

(* Admitted requests.                                                      *)
LEMMA RequestLimiter ==
  ASSUME LimiterInv, RequestStep
  PROVE  LimiterInv'
<1>1. ASSUME NEW t \in Clients, AdmitBegin(t)
      PROVE  LimiterInv'
  <2>1. t \in Txs /\ "request" \in Stages /\ ("request" \in Slotted <=> stage[t] \in Slotted)
    BY <1>1, Kinds DEF AdmitBegin
  <2> QED BY <1>1, <2>1, TxMovesInside DEF AdmitBegin
<1>2. CASE UNCHANGED poolVars
  <2>1. stage' = stage /\ UNCHANGED limiter
    BY <1>2 DEF poolVars
  <2> QED BY <2>1, StageStays
<1>3. ASSUME NEW t \in Clients, AdmitUse(t) \/ GetAsked(t)
      PROVE  LimiterInv'
  <2>1. Use(t) \/ UNCHANGED poolVars
    BY <1>3 DEF AdmitUse, GetAsked
  <2> QED BY <1>2, <2>1, UseLimiter, Kinds
<1>4. ASSUME NEW t \in Redo, Resolve(t)
      PROVE  LimiterInv'
  BY <1>4, UseLimiter, Kinds
<1> QED BY <1>1, <1>3, <1>4, GateLimiter DEF RequestStep

(* The tablet calls the engine, which changes no transaction by itself.    *)
LEMMA TabletLimiter ==
  ASSUME LimiterInv, TabletStep
  PROVE  LimiterInv'
<1>1. UNCHANGED poolVars
  BY DEF TabletStep, SetServingType, ManagerStep, FullStart, ServeNewType, Accepted, CloseAll,
      ClosedAll, Invoke, Call, CheckMySQL, CheckerStep, Checked, StopService, ShutdownStep,
      WaitForShutdown, Stopped, WaitRequests, Down
<1>2. stage' = stage /\ UNCHANGED limiter
  BY <1>1 DEF poolVars
<1> QED BY <1>2, StageStays

LEMMA LimiterStep ==
  ASSUME LimiterInv, [TabletNext]_allVars
  PROVE  LimiterInv'
<1>1. CASE UNCHANGED allVars
  <2>1. stage' = stage /\ UNCHANGED limiter
    BY <1>1 DEF allVars, poolVars
  <2> QED BY <2>1, StageStays
<1> QED
  BY <1>1, TabletLimiter, RequestLimiter, PoolLimiter, EngineLimiter DEF TabletNext

LEMMA LimiterInit == TabletInit => LimiterInv
<1> SUFFICES ASSUME TabletInit PROVE LimiterInv
  OBVIOUS
<1>1. stage = [t \in Txs |-> "new"] /\ usage = 0 /\ leaked = 0
  BY DEF TabletInit, TxEngineInit, TxPoolInit
<1>2. Slots(stage) = {}
  BY <1>1 DEF Slots, Slotted, Txs
<1>3. Granted = {}
  BY <1>2, GrantedSlots
<1> QED BY <1>1, <1>3, Kinds, FS_EmptySet, SMT DEF LimiterInv, LimiterAccounts

(* The limiter counts every transaction that got past it, and besides only *)
(* what calls refused for waiterCap left behind, whatever Begin, the       *)
(* killer, the closes and the transitions of the tablet overlap.           *)
THEOREM LimiterIsExact == TabletSpec => []LimiterAccounts
<1>1. TabletInit => LimiterInv
  BY LimiterInit
<1>2. LimiterInv /\ [TabletNext]_allVars => LimiterInv'
  BY LimiterStep
<1>3. LimiterInv => LimiterAccounts
  BY DEF LimiterInv
<1> QED BY <1>1, <1>2, <1>3, PTL DEF TabletSpec
-----------------------------------------------------------------------------
(* The engine under the tablet: only the owner of the transition calls it, *)
(* so that of its calls one runs at a time.                                *)
Calling == {"accept", "stopping", "closing"}
Closing == {"spawn", "empty", "join", "ticks", "stray", "drain", "shut"}
Mode(type) == IF type = "MASTER" THEN "ReadWrite" ELSE "ReadOnly"
Accept(type) == IF type = "MASTER" THEN "AcceptReadWrite" ELSE "AcceptReadOnly"

EngineTypes ==
  /\ pc \in [Controllers -> Closing \cup {"idle", "begins", "lock", "signal"}]
  /\ call \in [Controllers -> DOMAIN Target]
  /\ stateLock \in Controllers \cup {None}
  /\ teState \in EngineStates
  /\ tsType \in TabletTypes

(* Who calls the engine, and with what.                                    *)
Calls(c) ==
  /\ pc[c] # "idle" => thread[c] \in Calling
  /\ thread[c] = "accept" => c = Manager /\ call[c] = Accept(tsType)
  /\ thread[c] \in {"stopping", "closing"} => call[c] = "StopGently"

(* A close runs under the lock, or in a transition that is going to end in *)
(* the state that was asked for; there is no other transition.             *)
Closes(c) ==
  /\ stateLock = c => pc[c] \in Closing
  /\ pc[c] \in Closing /\ stateLock # c =>
       teState = "Transitioning" /\ call[c] # "StopGently" /\ nextState = Target[call[c]]
  /\ teState = "Transitioning" /\ thread[c] \in Owning =>
       pc[c] \in Closing /\ stateLock = None

(* What a call leaves.                                                     *)
Leaves(c) ==
  /\ thread[c] \in Calling /\ pc[c] \in {"idle", "signal"} => teState = Target[call[c]]
  /\ thread[c] \in {"requests", "down", "probe", "start"} => teState = "NotServing"

EngineInv ==
  /\ OwnInv /\ EngineTypes
  /\ \A c \in Controllers : Calls(c) /\ Closes(c) /\ Leaves(c)
  /\ tsState = "Serving" => teState = Mode(tsType)
  /\ tsState \in {"NotServing", "NotConnected"} => teState = "NotServing"
-----------------------------------------------------------------------------
LEMMA Targets ==
  /\ DOMAIN Target = {"Stop", "StopGently", "AcceptReadWrite", "AcceptReadOnly"}
  /\ Target["Stop"] = "NotServing" /\ Target["StopGently"] = "NotServing"
  /\ Target["AcceptReadWrite"] = "ReadWrite" /\ Target["AcceptReadOnly"] = "ReadOnly"
  /\ \A m \in DOMAIN Target : Target[m] \in EngineStates \ {"Transitioning"}
  /\ \A type : Accept(type) \in DOMAIN Target /\ Target[Accept(type)] = Mode(type)
  /\ \A type : Accept(type) # "StopGently"
BY SMT DEF Target, EngineStates, Accepting, Accept, Mode

(* Who does not own the transition does not call the engine.               *)
LEMMA Others ==
  ASSUME EngineInv, NEW c \in Controllers, thread[c] \notin Owning
  PROVE  pc[c] = "idle" /\ stateLock # c
BY DEF EngineInv, Calls, Closes, Calling, Closing, Owning

LEMMA OneCaller ==
  ASSUME EngineInv, NEW c \in Controllers, pc[c] # "idle"
  PROVE  /\ thread[c] \in Owning /\ tsState \in Transient
         /\ \A d \in Controllers \ {c} : thread[d] \notin Owning
<1>1. thread[c] \in Owning
  BY DEF EngineInv, Calls, Calling, Owning
<1> QED BY <1>1, TabletServerAssumption DEF EngineInv, OwnInv

(* What is left to show of a step of the engine.                           *)
LEMMA EngineFrame ==
  ASSUME EngineInv, NEW c \in Controllers, pc[c] # "idle", UNCHANGED tabletVars,
         EngineTypes', Calls(c)', Closes(c)', Leaves(c)',
         \A d \in Controllers \ {c} : pc'[d] = pc[d], stateLock' \in {stateLock, c, None}
  PROVE  EngineInv'
<1>1. UNCHANGED <<tsState, tsType, thread>>
  BY DEF tabletVars
<1>2. OwnInv'
  BY <1>1 DEF EngineInv, OwnInv
<1>3. tsState \in Transient
  BY OneCaller
<1>4. ASSUME NEW d \in Controllers \ {c}
      PROVE  (Calls(d) /\ Closes(d) /\ Leaves(d))'
  <2>1. thread[d] \notin Owning
    BY OneCaller
  <2>2. pc[d] = "idle" /\ stateLock # d
    BY <2>1, Others
  <2>3. pc'[d] = "idle" /\ stateLock' # d
    BY <2>2, TxPoolAssumption
  <2> QED BY <1>1, <2>1, <2>3 DEF Calls, Closes, Leaves, Calling, Closing, Owning
<1> QED BY <1>1, <1>2, <1>3, <1>4 DEF EngineInv, Transient

(* A step that changes neither where the callers are nor the state.        *)
LEMMA EngineStays ==
  ASSUME EngineInv, UNCHANGED tabletVars,
         UNCHANGED <<teState, nextState, stateLock, call, pc>>
  PROVE  EngineInv'
<1>1. UNCHANGED <<tsState, tsType, thread>>
  BY DEF tabletVars
<1>2. OwnInv' /\ EngineTypes'
  BY <1>1 DEF EngineInv, OwnInv, EngineTypes
<1>3. ASSUME NEW c \in Controllers PROVE (Calls(c) /\ Closes(c) /\ Leaves(c))'
  BY <1>1 DEF EngineInv, Calls, Closes, Leaves
<1> QED BY <1>1, <1>2, <1>3 DEF EngineInv

(* close goes on.                                                          *)
LEMMA CloseGoesOn ==
  ASSUME EngineInv, NEW c \in Controllers, UNCHANGED tabletVars,
         UNCHANGED <<teState, nextState, stateLock, call>>,
         pc[c] \in Closing, NEW l \in Closing, Goto(c, l)
  PROVE  EngineInv'
<1>1. UNCHANGED <<tsState, tsType, thread>>
  BY DEF tabletVars
<1>2. pc' = [pc EXCEPT ![c] = l] /\ pc \in [Controllers -> Closing \cup {"idle", "begins", "lock", "signal"}]
  BY DEF Goto, EngineInv, EngineTypes
<1>3. pc'[c] = l /\ pc[c] # "idle" /\ \A d \in Controllers \ {c} : pc'[d] = pc[d]
  BY <1>2 DEF Closing
<1>4. EngineTypes'
  BY <1>1, <1>2 DEF EngineInv, EngineTypes
<1>5. Calls(c)' /\ Closes(c)' /\ Leaves(c)'
  BY <1>1, <1>3 DEF EngineInv, Calls, Closes, Leaves, Closing
<1> QED BY <1>3, <1>4, <1>5, EngineFrame

(* The call takes the lock.                                                *)
LEMMA LockedSteps ==
  ASSUME EngineInv, NEW c \in Controllers, UNCHANGED tabletVars,
         \/ WaitBegins(c) \/ NothingToDo(c) \/ OpenFromNotServing(c) \/ Redirect(c)
         \/ StartTransition(c) \/ CloseLocked(c)
  PROVE  EngineInv'
<1>1. UNCHANGED <<tsState, tsType, thread>>
  BY DEF tabletVars
<1>2. /\ pc \in [Controllers -> Closing \cup {"idle", "begins", "lock", "signal"}]
      /\ call \in [Controllers -> DOMAIN Target] /\ teState \in EngineStates
      /\ stateLock \in Controllers \cup {None}
  BY DEF EngineInv, EngineTypes
<1>3. pc[c] \in {"begins", "lock"} /\ pc[c] # "idle" /\ pc[c] \notin Closing /\ call' = call
  BY DEF WaitBegins, NothingToDo, OpenFromNotServing, Redirect, StartTransition, CloseLocked,
         Locked, Closing
<1>4. /\ thread[c] \in Calling /\ teState # "Transitioning"
      /\ thread[c] = "accept" \/ call[c] = "StopGently"
      /\ thread[c] = "accept" => c = Manager /\ call[c] = Accept(tsType)
      /\ thread[c] \in {"stopping", "closing"} => call[c] = "StopGently"
  BY <1>3 DEF EngineInv, Calls, Closes, Calling, Owning
<1>5. ASSUME NEW l \in Closing \cup {"idle", "begins", "lock", "signal"}, pc' = [pc EXCEPT ![c] = l]
      PROVE  /\ pc'[c] = l /\ \A d \in Controllers \ {c} : pc'[d] = pc[d]
             /\ pc' \in [Controllers -> Closing \cup {"idle", "begins", "lock", "signal"}]
             /\ Calls(c)'
  BY <1>1, <1>2, <1>3, <1>4, <1>5 DEF Calls
<1>6. CASE WaitBegins(c)
  <2>1. pc' = [pc EXCEPT ![c] = "lock"] /\ UNCHANGED <<teState, nextState, stateLock>>
    BY <1>6 DEF WaitBegins, Goto
  <2>2. EngineTypes'
    BY <1>1, <1>2, <1>3, <1>5, <2>1 DEF EngineInv, EngineTypes
  <2>3. Closes(c)' /\ Leaves(c)'
    BY <1>1, <1>3, <1>4, <1>5, <2>1 DEF EngineInv, Closes, Leaves, Calling, Closing
  <2> QED BY <1>3, <1>5, <2>1, <2>2, <2>3, EngineFrame
<1>7. CASE NothingToDo(c)
  <2>1. /\ pc' = [pc EXCEPT ![c] = "idle"] /\ UNCHANGED <<teState, nextState, stateLock>>
        /\ teState = Target[call[c]]
    BY <1>7 DEF NothingToDo, Goto
  <2>2. EngineTypes'
    BY <1>1, <1>2, <1>3, <1>5, <2>1 DEF EngineInv, EngineTypes
  <2>3. Closes(c)' /\ Leaves(c)'
    BY <1>1, <1>3, <1>4, <1>5, <2>1 DEF EngineInv, Closes, Leaves, Calling, Closing
  <2> QED BY <1>3, <1>5, <2>1, <2>2, <2>3, EngineFrame
<1>8. CASE OpenFromNotServing(c)
  <2>1. /\ pc' = [pc EXCEPT ![c] = "idle"] /\ UNCHANGED <<nextState, stateLock>>
        /\ teState' = Target[call[c]] /\ stateLock = None
    BY <1>8 DEF OpenFromNotServing, Goto, Locked
  <2>2. teState' \in EngineStates \ {"Transitioning"}
    BY <1>2, <2>1, Targets
  <2>3. EngineTypes'
    BY <1>1, <1>2, <1>3, <1>5, <2>1, <2>2 DEF EngineInv, EngineTypes
  <2>4. Closes(c)' /\ Leaves(c)'
    BY <1>1, <1>3, <1>4, <1>5, <2>1, <2>2, TxPoolAssumption DEF Closes, Leaves, Calling, Closing
  <2> QED BY <1>3, <1>5, <2>1, <2>3, <2>4, EngineFrame
<1>9. CASE Redirect(c)
  BY <1>4, <1>9 DEF Redirect
<1>10. CASE StartTransition(c)
  <2>1. /\ teState' = "Transitioning" /\ nextState' = Target[call[c]] /\ stateLock' = None
        /\ call[c] # "StopGently" /\ stateLock = None
    BY <1>10 DEF StartTransition, Locked
  <2>2. pc' = [pc EXCEPT ![c] = "spawn"]
    <3>1. \A d \in Controllers : pc[d] # "blocked"
      BY <1>2 DEF Closing
    <3> QED BY <1>2, <1>10, <3>1 DEF StartTransition
  <2>3. EngineTypes'
    BY <1>1, <1>2, <1>3, <1>5, <2>1, <2>2 DEF EngineInv, EngineTypes, EngineStates, Closing
  <2>4. Closes(c)' /\ Leaves(c)'
    BY <1>1, <1>3, <1>4, <1>5, <2>1, <2>2, TxPoolAssumption DEF Closes, Leaves, Calling, Closing
  <2> QED BY <1>3, <1>5, <2>1, <2>2, <2>3, <2>4, EngineFrame DEF Closing
<1>11. CASE CloseLocked(c)
  <2>1. /\ pc' = [pc EXCEPT ![c] = "spawn"] /\ UNCHANGED <<teState, nextState>>
        /\ stateLock' = c
    BY <1>11 DEF CloseLocked, Goto
  <2>2. EngineTypes'
    BY <1>1, <1>2, <1>3, <1>5, <2>1 DEF EngineInv, EngineTypes, Closing
  <2>3. Closes(c)' /\ Leaves(c)'
    BY <1>1, <1>3, <1>4, <1>5, <2>1 DEF EngineInv, Closes, Leaves, Calling, Closing
  <2> QED BY <1>3, <1>5, <2>1, <2>2, <2>3, EngineFrame DEF Closing
<1> QED BY <1>6, <1>7, <1>8, <1>9, <1>10, <1>11

(* The call ends.                                                          *)
LEMMA EndSteps ==
  ASSUME EngineInv, NEW c \in Controllers, UNCHANGED tabletVars,
         EndLocked(c) \/ EndTransition(c) \/ CloseSignal(c)
  PROVE  EngineInv'
<1>1. UNCHANGED <<tsState, tsType, thread>>
  BY DEF tabletVars
<1>2. /\ pc \in [Controllers -> Closing \cup {"idle", "begins", "lock", "signal"}]
      /\ call \in [Controllers -> DOMAIN Target] /\ teState \in EngineStates
      /\ stateLock \in Controllers \cup {None}
  BY DEF EngineInv, EngineTypes
<1>3. pc[c] \in {"shut", "signal"} /\ pc[c] # "idle" /\ call' = call
  BY DEF EndLocked, EndTransition, CloseSignal
<1>4. thread[c] \in Calling /\ Calls(c)
  BY <1>3 DEF EngineInv, Calls
<1>5. PICK l \in {"idle", "signal"} : pc' = [pc EXCEPT ![c] = l]
  <2>1. CASE EndLocked(c) \/ EndTransition(c)
    BY <2>1 DEF EndLocked, EndTransition, Goto
  <2>2. CASE CloseSignal(c)
    <3>1. \A d \in Controllers : pc[d] # "blocked"
      BY <1>2 DEF Closing
    <3>2. pc' = [pc EXCEPT ![c] = "idle"]
      BY <1>2, <2>2, <3>1 DEF CloseSignal
    <3> QED BY <3>2
  <2> QED BY <2>1, <2>2
<1>6. /\ pc'[c] = l /\ \A d \in Controllers \ {c} : pc'[d] = pc[d]
      /\ pc' \in [Controllers -> Closing \cup {"idle", "begins", "lock", "signal"}]
  BY <1>2, <1>5
<1>7. Calls(c)'
  BY <1>1, <1>3, <1>4 DEF Calls
<1>8. teState' = Target[call[c]] /\ stateLock' = None
  <2>1. CASE EndLocked(c)
    BY <2>1 DEF EndLocked
  <2>2. CASE EndTransition(c)
    BY <2>2, TxPoolAssumption DEF EndTransition, EngineInv, Closes, Closing
  <2>3. CASE CloseSignal(c)
    <3>1. pc[c] = "signal" /\ teState' = teState /\ stateLock' = stateLock
      BY <2>3 DEF CloseSignal
    <3>2. teState = Target[call[c]]
      BY <1>4, <3>1 DEF EngineInv, Leaves
    <3>3. \A d \in Controllers : stateLock # d
      <4>1. stateLock # c
        BY <3>1 DEF EngineInv, Closes, Closing
      <4>2. \A d \in Controllers \ {c} : stateLock # d
        BY <1>3, OneCaller, Others
      <4> QED BY <4>1, <4>2
    <3> QED BY <1>2, <3>1, <3>2, <3>3
  <2> QED BY <2>1, <2>2, <2>3
<1>9. teState' \in EngineStates \ {"Transitioning"}
  BY <1>2, <1>8, Targets
<1>10. EngineTypes'
  BY <1>1, <1>2, <1>3, <1>6, <1>8, <1>9 DEF EngineInv, EngineTypes
<1>11. Closes(c)'
  BY <1>6, <1>8, <1>9, TxPoolAssumption DEF Closes, Closing
<1>12. Leaves(c)'
  BY <1>1, <1>3, <1>4, <1>8 DEF Leaves, Calling
<1> QED BY <1>3, <1>6, <1>7, <1>8, <1>10, <1>11, <1>12, EngineFrame

LEMMA EngineKeeps ==
  ASSUME EngineInv, NEW c \in Controllers, EngineStep(c), UNCHANGED tabletVars
  PROVE  EngineInv'
<1>1. CASE BlockUntilEnd(c)
  BY <1>1 DEF BlockUntilEnd, EngineInv, EngineTypes, Closing
<1>2. CASE FetchAll(c) \/ EmptyInTime(c) \/ RollbackNonBusy(c) \/ RollbackDone(c)
  BY <1>2, EngineStays DEF FetchAll, EmptyInTime, RollbackNonBusy, RollbackDone
<1>3. CASE Drain(c)
  <2>1. UNCHANGED <<teState, nextState, stateLock, call, pc>>
    BY <1>3 DEF Drain, engineVars
  <2> QED BY <2>1, EngineStays
<1>4. CASE Spawn(c) \/ WaitForEmpty(c) \/ Join(c) \/ StopTicks(c) \/ StartDrain(c) \/ Drained(c)
  <2>1. PICK l \in Closing : Goto(c, l)
    BY <1>4 DEF Spawn, WaitForEmpty, Join, StopTicks, StartDrain, Drained, Closing
  <2>2. pc[c] \in Closing /\ UNCHANGED <<teState, nextState, stateLock, call>>
    BY <1>4 DEF Spawn, WaitForEmpty, Join, StopTicks, StartDrain, Drained, Closing
  <2> QED BY <2>1, <2>2, CloseGoesOn
<1> QED
  BY <1>1, <1>2, <1>3, <1>4, LockedSteps, EndSteps DEF EngineStep, CloseStep
-----------------------------------------------------------------------------
Stopping == {"requests", "down", "probe", "start"}

(* What is left to show of a step of the tablet that does not call the     *)
(* engine.                                                                 *)
Keeps(c) ==
  \/ thread'[c] = thread[c] /\ (thread[c] = "accept" => tsType' = tsType)
  \/ /\ pc[c] = "idle" /\ thread'[c] \notin Calling
     /\ thread'[c] \in Stopping => teState = "NotServing"
     /\ thread'[c] \in Owning => teState # "Transitioning"

LEMMA TabletFrame ==
  ASSUME EngineInv, OwnInv', tsType' \in TabletTypes, UNCHANGED engineVars,
         \A c \in Controllers : Keeps(c),
         tsState' = "Serving" => teState = Mode(tsType'),
         tsState' \in {"NotServing", "NotConnected"} => teState = "NotServing"
  PROVE  EngineInv'
<1>1. UNCHANGED <<teState, nextState, stateLock, call, pc>>
  BY DEF engineVars
<1>2. EngineTypes'
  BY <1>1 DEF EngineInv, EngineTypes
<1>3. ASSUME NEW c \in Controllers PROVE (Calls(c) /\ Closes(c) /\ Leaves(c))'
  <2>0. Calls(c) /\ Closes(c) /\ Leaves(c) /\ Keeps(c)
    BY DEF EngineInv
  <2>1. CASE thread'[c] = thread[c] /\ (thread[c] = "accept" => tsType' = tsType)
    BY <1>1, <2>0, <2>1 DEF Calls, Closes, Leaves
  <2>2. CASE /\ pc[c] = "idle" /\ thread'[c] \notin Calling
             /\ thread'[c] \in Stopping => teState = "NotServing"
             /\ thread'[c] \in Owning => teState # "Transitioning"
    BY <1>1, <2>0, <2>2 DEF Calls, Closes, Leaves, Calling, Closing, Stopping
  <2> QED BY <2>0, <2>1, <2>2 DEF Keeps
<1> QED BY <1>1, <1>2, <1>3 DEF EngineInv

(* A thread calls the engine.                                              *)
LEMMA InvokeKeeps ==
  ASSUME EngineInv, OwnInv', NEW c \in Controllers, NEW from \in Owning, NEW m \in DOMAIN Target,
         NEW to \in Calling, Invoke(c, from, m, to),
         to = "accept" => c = Manager /\ m = Accept(tsType), to # "accept" => m = "StopGently"
  PROVE  EngineInv'
<1>1. /\ pc \in [Controllers -> Closing \cup {"idle", "begins", "lock", "signal"}]
      /\ call \in [Controllers -> DOMAIN Target] /\ thread \in [Controllers -> Labels]
  BY DEF EngineInv, EngineTypes, OwnInv
<1>2. /\ thread[c] \in Owning /\ pc[c] = "idle"
      /\ thread' = [thread EXCEPT ![c] = to] /\ call' = [call EXCEPT ![c] = m]
      /\ pc' = [pc EXCEPT ![c] = IF m = "StopGently" THEN "lock" ELSE "begins"]
      /\ UNCHANGED <<teState, nextState, stateLock, tsState, tsType>>
  BY DEF Invoke, At, To, Call, Goto
<1>3. EngineTypes'
  BY <1>1, <1>2 DEF EngineInv, EngineTypes
<1>4. (Calls(c) /\ Closes(c) /\ Leaves(c))'
  <2>1. thread'[c] = to /\ call'[c] = m /\ pc'[c] \in {"lock", "begins"}
    BY <1>1, <1>2
  <2>2. teState # "Transitioning" /\ stateLock # c
    BY <1>2 DEF EngineInv, Closes, Closing
  <2> QED BY <1>2, <2>1, <2>2 DEF Calls, Closes, Leaves, Calling, Closing
<1>5. ASSUME NEW d \in Controllers \ {c}
      PROVE  (Calls(d) /\ Closes(d) /\ Leaves(d))'
  <2>1. thread'[d] = thread[d] /\ call'[d] = call[d] /\ pc'[d] = pc[d]
    BY <1>1, <1>2
  <2> QED BY <1>2, <2>1 DEF EngineInv, Calls, Closes, Leaves
<1>6. tsState \in Transient
  BY <1>2, TabletServerAssumption DEF EngineInv, OwnInv
<1> QED BY <1>2, <1>3, <1>4, <1>5, <1>6 DEF EngineInv, Transient

LEMMA AtRest ==
  ASSUME EngineInv
  PROVE  /\ \A c \in Controllers : thread[c] \notin Calling => pc[c] = "idle"
         /\ \A c \in Controllers :
              thread[c] \in Owning /\ pc[c] = "idle" => teState # "Transitioning"
         /\ tsState \notin Transient => teState # "Transitioning"
         /\ \A c \in Controllers : thread[c] \in Labels
         /\ thread \in [Controllers -> Labels] /\ tsType \in TabletTypes
         /\ Manager \in Controllers /\ Checker \in Controllers
<1>1. \A c \in Controllers : thread[c] \notin Calling => pc[c] = "idle"
  BY DEF EngineInv, Calls
<1>2. \A c \in Controllers :
        thread[c] \in Owning /\ pc[c] = "idle" => teState # "Transitioning"
  BY DEF EngineInv, Closes, Closing
<1>3. tsState \notin Transient => teState # "Transitioning"
  BY DEF EngineInv, OwnInv, States, Mode
<1> QED BY <1>1, <1>2, <1>3, TabletServerAssumption DEF EngineInv, EngineTypes, OwnInv

LEMMA ManagerKeeps ==
  ASSUME EngineInv,
         \/ \E type \in TabletTypes, serving \in BOOLEAN : SetServingType(type, serving)
         \/ ManagerStep
  PROVE  EngineInv'
<1>1. OwnInv'
  BY ManagerInv DEF EngineInv
<1>2. ASSUME NEW c \in Controllers, c # Manager, thread'[c] = thread[c]
      PROVE  Keeps(c)
  <2>1. thread[c] # "accept"
    BY <1>2 DEF EngineInv, Calls
  <2> QED BY <1>2, <2>1 DEF Keeps
<1>3. ASSUME NEW type \in TabletTypes, NEW serving \in BOOLEAN, SetServingType(type, serving)
      PROVE  EngineInv'
  <2>1. thread[Manager] = "none" /\ pc[Manager] = "idle" /\ UNCHANGED engineVars /\ tsType' = type
    BY <1>3, AtRest DEF SetServingType, At, Calling
  <2>2. CASE tsState \in {"NotConnected", "NotServing", "Serving"}
    <3>1. teState # "Transitioning"
      BY <2>2, AtRest DEF Transient
    <3>2. thread'[Manager] = "start" => teState = "NotServing"
      BY <1>3, <2>1, AtRest DEF SetServingType, At, To, EngineInv
    <3>3. thread'[Manager] \in {"none", "start", "serve", "stop"}
      BY <1>3, <2>1, AtRest DEF SetServingType, At, To
    <3>4. Keeps(Manager)
      BY <2>1, <3>1, <3>2, <3>3 DEF Keeps, Calling, Stopping
    <3>5. \A c \in Controllers \ {Manager} : thread'[c] = thread[c]
      BY <1>3, AtRest DEF SetServingType, To
    <3>6. \A c \in Controllers : Keeps(c)
      BY <1>2, <3>4, <3>5
    <3>7. /\ tsState' # "Serving"
          /\ tsState' \in {"NotServing", "NotConnected"} => tsState' = tsState
      BY <1>3, <2>2 DEF SetServingType, Transient
    <3> QED BY <1>1, <2>1, <3>6, <3>7, TabletFrame DEF EngineInv
  <2>3. CASE tsState \notin {"NotConnected", "NotServing", "Serving"}
    <3>1. UNCHANGED <<tsState, thread>>
      BY <1>3, <2>3 DEF SetServingType
    <3>2. Keeps(Manager)
      BY <2>1, <3>1 DEF Keeps
    <3>3. \A c \in Controllers : Keeps(c)
      BY <1>2, <3>1, <3>2
    <3> QED BY <1>1, <2>1, <2>3, <3>1, <3>3, TabletFrame DEF EngineInv
  <2> QED BY <2>2, <2>3
<1>4. CASE FullStart
  <2>1. /\ thread[Manager] = "start" /\ pc[Manager] = "idle"
        /\ UNCHANGED <<engineVars, tsState, tsType>>
    BY <1>4, AtRest DEF FullStart, At, Calling
  <2>2. /\ thread'[Manager] \in {"serve", "closeall"}
        /\ \A c \in Controllers \ {Manager} : thread'[c] = thread[c]
    BY <1>4, AtRest DEF FullStart, To
  <2>3. teState # "Transitioning"
    BY <2>1, AtRest DEF Owning
  <2>4. Keeps(Manager)
    BY <2>1, <2>2, <2>3 DEF Keeps, Calling, Stopping
  <2>5. \A c \in Controllers : Keeps(c)
    BY <1>2, <2>2, <2>4
  <2> QED BY <1>1, <2>1, <2>5, TabletFrame, AtRest DEF EngineInv
<1>5. CASE ServeNewType
  <2>1. Invoke(Manager, "serve", Accept(tsType), "accept")
    BY <1>5 DEF ServeNewType, Accept
  <2>2. "serve" \in Owning /\ "accept" \in Calling /\ Accept(tsType) \in DOMAIN Target
    BY Targets DEF Owning, Calling
  <2> QED BY <1>1, <2>1, <2>2, AtRest, InvokeKeeps
<1>6. CASE Accepted
  <2>1. /\ thread[Manager] = "accept" /\ pc[Manager] = "idle" /\ UNCHANGED <<engineVars, tsType>>
        /\ \/ tsState' = "Serving" /\ thread'[Manager] = "none"
           \/ tsState' = tsState /\ thread'[Manager] = "closeall"
        /\ \A c \in Controllers \ {Manager} : thread'[c] = thread[c]
    BY <1>6, AtRest DEF Accepted, At, To
  <2>2. teState = Mode(tsType)
    BY <2>1, AtRest, Targets DEF EngineInv, Calls, Leaves, Calling
  <2>3. teState # "Transitioning"
    BY <2>2 DEF Mode
  <2>4. Keeps(Manager)
    BY <2>1, <2>3 DEF Keeps, Calling, Stopping
  <2>5. \A c \in Controllers : Keeps(c)
    BY <1>2, <2>1, <2>4
  <2> QED BY <1>1, <2>1, <2>2, <2>5, TabletFrame, AtRest DEF EngineInv
<1>7. CASE CloseAll
  <2>1. "closeall" \in Owning /\ "closing" \in Calling /\ "StopGently" \in DOMAIN Target
    BY Targets DEF Owning, Calling
  <2> QED BY <1>1, <1>7, <2>1, AtRest, InvokeKeeps DEF CloseAll
<1>8. CASE ClosedAll
  <2>1. /\ thread[Manager] = "closing" /\ pc[Manager] = "idle" /\ UNCHANGED <<engineVars, tsType>>
        /\ tsState' = "NotConnected" /\ thread'[Manager] = "none"
        /\ \A c \in Controllers \ {Manager} : thread'[c] = thread[c]
    BY <1>8, AtRest DEF ClosedAll, At, To
  <2>2. teState = "NotServing"
    BY <2>1, AtRest, Targets DEF EngineInv, Calls, Leaves, Calling
  <2>3. Keeps(Manager)
    BY <2>1, <2>2 DEF Keeps, Calling, Stopping
  <2>4. \A c \in Controllers : Keeps(c)
    BY <1>2, <2>1, <2>3
  <2> QED BY <1>1, <2>1, <2>2, <2>4, TabletFrame, AtRest DEF EngineInv
<1> QED BY <1>3, <1>4, <1>5, <1>6, <1>7, <1>8 DEF ManagerStep

LEMMA CheckerKeeps ==
  ASSUME EngineInv, CheckMySQL \/ CheckerStep
  PROVE  EngineInv'
<1>1. OwnInv'
  BY CheckerInv DEF EngineInv
<1>2. /\ thread[Checker] \in {"none", "reserve", "probe", "service"} /\ pc[Checker] = "idle"
      /\ UNCHANGED <<engineVars, tsType>>
      /\ \A c \in Controllers \ {Checker} : thread'[c] = thread[c]
  BY AtRest DEF CheckMySQL, CheckerStep, Checked, StopService, At, To, Calling
<1>3. CASE CheckMySQL
  <2>1. /\ tsState \in {"Serving", "NotServing"}
        /\ \/ tsState' = tsState /\ thread'[Checker] = "reserve"
           \/ tsState = "NotServing" /\ tsState' = "Transitioning" /\ thread'[Checker] = "probe"
    BY <1>3, AtRest DEF CheckMySQL, To
  <2>2. teState # "Transitioning" /\ (tsState = "NotServing" => teState = "NotServing")
    BY <2>1, AtRest DEF EngineInv, Transient
  <2>3. \A c \in Controllers : Keeps(c)
    BY <1>2, <2>1, <2>2 DEF Keeps, Calling, Stopping, Owning
  <2> QED BY <1>1, <1>2, <2>1, <2>3, TabletFrame, AtRest DEF EngineInv
<1>4. CASE Checked
  <2>1. /\ thread'[Checker] \in {"none", "service"}
        /\ \/ tsState' = tsState
           \/ thread[Checker] = "probe" /\ tsState' = "NotServing"
    BY <1>4, AtRest DEF Checked, At, To
  <2>2. thread[Checker] = "probe" => teState = "NotServing"
    BY AtRest DEF EngineInv, Leaves
  <2>3. \A c \in Controllers : Keeps(c)
    BY <1>2, <2>1 DEF Keeps, Calling, Stopping, Owning
  <2> QED BY <1>1, <1>2, <2>1, <2>2, <2>3, TabletFrame, AtRest DEF EngineInv
<1>5. CASE StopService
  <2>1. \/ /\ tsState \in {"Serving", "NotServing"} /\ tsState' = "ShuttingDown"
           /\ thread'[Checker] = "stop"
        \/ tsState' = tsState /\ thread'[Checker] = "none"
    BY <1>5, AtRest DEF StopService, To
  <2>2. tsState \in {"Serving", "NotServing"} => teState # "Transitioning"
    BY AtRest DEF Transient
  <2>3. \A c \in Controllers : Keeps(c)
    BY <1>2, <2>1, <2>2 DEF Keeps, Calling, Stopping, Owning
  <2> QED BY <1>1, <1>2, <2>1, <2>3, TabletFrame, AtRest DEF EngineInv
<1> QED BY <1>3, <1>4, <1>5 DEF CheckerStep

LEMMA ShutdownKeeps ==
  ASSUME EngineInv, NEW c \in Controllers, ShutdownStep(c)
  PROVE  EngineInv'
<1>1. OwnInv'
  BY ShutdownInv DEF EngineInv
<1>2. CASE WaitForShutdown(c)
  <2>1. "stop" \in Owning /\ "stopping" \in Calling /\ "StopGently" \in DOMAIN Target
    BY Targets DEF Owning, Calling
  <2> QED BY <1>1, <1>2, <2>1, InvokeKeeps DEF WaitForShutdown
<1>3. CASE Stopped(c) \/ WaitRequests(c) \/ Down(c)
  <2>1. /\ thread[c] \in {"stopping", "requests", "down"} /\ pc[c] = "idle"
        /\ thread'[c] \in {"requests", "down", "none"} /\ UNCHANGED <<engineVars, tsType>>
        /\ \A d \in Controllers \ {c} : thread'[d] = thread[d]
        /\ tsState' = tsState \/ tsState' \in {"NotServing", "NotConnected"}
    BY <1>3, AtRest DEF Stopped, WaitRequests, Down, At, To, Calling
  <2>2. teState = "NotServing"
    BY <2>1, Targets DEF EngineInv, Calls, Leaves, Calling
  <2>3. \A d \in Controllers : Keeps(d)
    BY <2>1, <2>2 DEF Keeps, Calling, Stopping, Owning
  <2> QED BY <1>1, <2>1, <2>2, <2>3, TabletFrame, AtRest DEF EngineInv
<1> QED BY <1>2, <1>3 DEF ShutdownStep

LEMMA EngineInvInit == TabletInit => EngineInv
<1> SUFFICES ASSUME TabletInit PROVE EngineInv
  OBVIOUS
<1>1. OwnInv
  BY OwnInvInit
<1>2. /\ \A c \in Controllers : pc[c] = "idle" /\ thread[c] = "none"
      /\ stateLock = None /\ teState = "NotServing" /\ tsState = "NotConnected"
  BY DEF TabletInit, TxEngineInit
<1>3. EngineTypes
  BY Targets
  DEF TabletInit, TxEngineInit, EngineTypes, EngineStates, TabletTypes
<1>4. \A c \in Controllers : Calls(c) /\ Closes(c) /\ Leaves(c)
  BY <1>2, TxPoolAssumption DEF Calls, Closes, Leaves, Calling, Closing, Owning
<1> QED BY <1>1, <1>2, <1>3, <1>4 DEF EngineInv

LEMMA EngineInvStep ==
  ASSUME EngineInv, [TabletNext]_allVars
  PROVE  EngineInv'
<1>1. CASE TabletStep
  BY <1>1, ManagerKeeps, CheckerKeeps, ShutdownKeeps DEF TabletStep
<1>2. ASSUME NEW c \in Controllers, EngineStep(c), UNCHANGED tabletVars
      PROVE  EngineInv'
  BY <1>2, EngineKeeps
<1>3. CASE /\ UNCHANGED <<teState, nextState, stateLock, call, pc>>
           /\ UNCHANGED <<tsState, tsType, thread>>
  <2>1. OwnInv' /\ EngineTypes'
    BY <1>3 DEF EngineInv, OwnInv, EngineTypes
  <2>2. ASSUME NEW c \in Controllers PROVE (Calls(c) /\ Closes(c) /\ Leaves(c))'
    BY <1>3 DEF EngineInv, Calls, Closes, Leaves
  <2> QED BY <1>3, <2>1, <2>2 DEF EngineInv
<1>4. CASE RequestStep \/ (PoolStep /\ UNCHANGED tabletVars) \/ UNCHANGED allVars
  <2>1. /\ UNCHANGED <<teState, nextState, stateLock, call, pc>>
        /\ UNCHANGED <<tsState, tsType, thread>>
    BY <1>4
    DEF RequestStep, AdmitBegin, AdmitUse, GetAsked, Gate, PoolStep, allVars, engineVars, tabletVars
  <2> QED BY <1>3, <2>1
<1> QED BY <1>1, <1>2, <1>4 DEF TabletNext

(* A tablet that serves has its engine in the mode of its type, although   *)
(* decideAction changes the type even when it refuses the call, and the    *)
(* engine's calls may redirect each other.                                 *)
THEOREM ModeMatches == TabletSpec => []ServingTypeMatches
<1>1. TabletInit => EngineInv
  BY EngineInvInit
<1>2. EngineInv /\ [TabletNext]_allVars => EngineInv'
  BY EngineInvStep
<1>3. EngineInv => ServingTypeMatches
  BY DEF EngineInv, ServingTypeMatches, Mode
<1> QED BY <1>1, <1>2, <1>3, PTL DEF TabletSpec
-----------------------------------------------------------------------------
Swept    == {"join", "ticks", "stray", "drain", "shut"}
Sweeping == {"spawn", "empty"} \cup Swept
Places   == Sweeping \cup {"idle", "begins", "lock", "signal", "block", "blocked", "lost"}
InPool   == {"idle", "busy", "prepared", "stray", "doomed"}

(* The types the argument needs.                                           *)
PlaceTypes ==
  /\ pc \in [Controllers -> Places]
  /\ call \in [Controllers -> DOMAIN Target]
  /\ stateLock \in Controllers \cup {None}
  /\ teState \in EngineStates /\ wanted \in EngineStates \ {"Transitioning"}
  /\ stage \in [Txs -> Stages]

(* A close runs under the lock of a ReadOnly engine or in the transition;  *)
(* one runs at a time.  A transition is headed to the state that was asked *)
(* for last, and without one that state has been reached.                  *)
RequestInv ==
  /\ \A c \in Controllers : pc[c] \in Sweeping =>
       \/ stateLock = c /\ teState = "ReadOnly" /\ wanted = Target[call[c]]
       \/ stateLock = None /\ teState = "Transitioning"
  /\ \A c \in Controllers : stateLock = c => pc[c] \in Sweeping
  /\ \A c, d \in Controllers : pc[c] \in Sweeping /\ pc[d] \in Sweeping => c = d
  /\ teState = "Transitioning" =>
       /\ stateLock = None /\ nextState = wanted
       /\ \E c \in Controllers : pc[c] \in Sweeping
  /\ teState # "Transitioning" /\ stateLock = None => teState = wanted
  /\ \A c \in Controllers : call[c] # "StopGently"

(* Whoever has waited for the begins finds only those that overtook it,    *)
(* and so does its transition; once its close has seen the pool empty only *)
(* those can be in the pool.                                               *)
WriteInv ==
  /\ \A c \in Controllers :
       pc[c] = "lock" /\ call[c] # "StopGently" => Begins \subseteq overtook
  /\ teState = "Transitioning" => Begins \subseteq overtook
  /\ teState = "Transitioning" /\ (\E c \in Controllers : pc[c] \in Swept) =>
       Registered \subseteq overtook
  /\ teState = "ReadOnly" => Begins \cup Registered \subseteq Readers \cup overtook
-----------------------------------------------------------------------------
LEMMA TargetStates ==
  /\ DOMAIN Target = {"Stop", "StopGently", "AcceptReadWrite", "AcceptReadOnly"}
  /\ \A m \in DOMAIN Target : Target[m] \in EngineStates \ {"Transitioning"}
BY SMT DEF Target, EngineStates, Accepting

(* A transaction is in Begin or in the pool only if it was before, and in  *)
(* the pool only if it was in one of the two.                              *)
Settles ==
  /\ stage' \in [Txs -> Stages]
  /\ \A t \in Txs : /\ stage'[t] \in BeginStages => stage[t] \in BeginStages
                    /\ stage'[t] \in InPool => stage[t] \in InPool \cup BeginStages

LEMMA SettlesFalls ==
  ASSUME Settles
  PROVE  Begins' \subseteq Begins /\ Registered' \subseteq Begins \cup Registered
BY DEF Settles, Begins, Registered, In, InPool

(* The steps of the pool settle.                                           *)
LEMMA PoolStepSettles ==
  ASSUME stage \in [Txs -> Stages],
         \/ PoolStep
         \/ \E t \in Txs : Use(t) \/ Resolve(t)
  PROVE  Settles
<1>1. CASE \E t \in Txs : Use(t) \/ Resolve(t)
  BY <1>1 DEF Use, Resolve, Settles, Stages, BeginStages, InPool
<1>2. CASE \E t \in Clients : BeginStep(t)
  <2>1. PICK t \in Clients : BeginStep(t)
    BY <1>2
  <2>2. t \in Txs
    BY DEF Txs
  <2>3. PICK s \in {"queue", "over", "conn", "exec", "idle"} : stage' = [stage EXCEPT ![t] = s]
    BY <2>1 DEF BeginStep, LimiterGet, CountWaiter, PoolGet, BeginFails, Register
  <2>4. stage[t] \in BeginStages
    BY <2>1 DEF BeginStep, LimiterGet, CountWaiter, PoolGet, BeginFails, Register, BeginStages
  <2> QED BY <2>2, <2>3, <2>4 DEF Settles, Stages, BeginStages, InPool
<1>3. CASE \E t \in Clients : Recycle(t) \/ Finish(t) \/ Again(t)
  BY <1>3 DEF Recycle, Finish, Again, Settles, Stages, BeginStages, InPool, Txs
<1>4. CASE \E t \in Txs : Unregister(t) \/ Conclude(t)
  BY <1>4 DEF Unregister, Conclude, Settles, Stages, BeginStages, InPool
<1>5. CASE Kill
  <2>1. PICK S \in SUBSET Outdated : Doom(S, Killer)
    BY <1>5 DEF Kill
  <2> QED BY <2>1 DEF Doom, Outdated, In, Settles, Stages, BeginStages, InPool
<1> QED BY <1>1, <1>2, <1>3, <1>4, <1>5 DEF PoolStep

LEMMA DoomSettles ==
  ASSUME stage \in [Txs -> Stages], NEW S \in SUBSET In({"idle", "prepared"}), NEW c, Doom(S, c)
  PROVE  Settles
BY DEF Doom, In, Settles, Stages, BeginStages, InPool

(* open restores prepared transactions of a ReadWrite engine only.         *)
LEMMA OpenRestores ==
  ASSUME stage \in [Txs -> Stages], NEW s, Open(s)
  PROVE  /\ stage' \in [Txs -> Stages] /\ Begins' = Begins
         /\ s # "ReadWrite" => Registered' = Registered
<1>1. PICK P \in SUBSET (In({"new"}) \cap Redo) : \E L \in SUBSET ((In({"new"}) \cap Redo) \ P) :
        /\ s # "ReadWrite" => P \cup L = {}
        /\ stage' = [t \in Txs |-> IF t \in P THEN "prepared"
                                   ELSE IF t \in L THEN "stray" ELSE stage[t]]
  BY DEF Open
<1>2. PICK L \in SUBSET ((In({"new"}) \cap Redo) \ P) :
        /\ s # "ReadWrite" => P \cup L = {}
        /\ stage' = [t \in Txs |-> IF t \in P THEN "prepared"
                                   ELSE IF t \in L THEN "stray" ELSE stage[t]]
  BY <1>1
<1>3. \A t \in P \cup L : stage[t] = "new"
  BY DEF In
<1>4. stage' \in [Txs -> Stages]
  BY <1>2 DEF Stages
<1>5. \A t \in Txs : stage'[t] \in BeginStages <=> stage[t] \in BeginStages
  BY <1>2, <1>3 DEF BeginStages
<1>6. s # "ReadWrite" => \A t \in Txs : stage'[t] = stage[t]
  BY <1>2
<1> QED BY <1>4, <1>5, <1>6 DEF Begins, Registered, In
-----------------------------------------------------------------------------
(* WriteInv is kept by a step in which transactions only settle and every  *)
(* caller that is behind the lock, and every swept close, was there        *)
(* before.                                                                 *)
LEMMA WriteFrame ==
  ASSUME WriteInv, Settles, UNCHANGED <<teState, call, overtook>>,
         \A c \in Controllers : /\ pc'[c] = "lock" => pc[c] = "lock"
                                /\ pc'[c] \in Swept => pc[c] \in Swept
  PROVE  WriteInv'
<1>1. Begins' \subseteq Begins /\ Registered' \subseteq Begins \cup Registered
  BY SettlesFalls
<1>2. \A c \in Controllers :
        pc'[c] = "lock" /\ call'[c] # "StopGently" => Begins' \subseteq overtook'
  BY <1>1 DEF WriteInv
<1>3. teState' = "Transitioning" => Begins' \subseteq overtook'
  BY <1>1 DEF WriteInv
<1>4. teState' = "Transitioning" /\ (\E c \in Controllers : pc'[c] \in Swept) =>
        Registered' \subseteq overtook'
  BY <1>1 DEF WriteInv
<1>5. teState' = "ReadOnly" => Begins' \cup Registered' \subseteq Readers \cup overtook'
  BY <1>1 DEF WriteInv
<1> QED BY <1>2, <1>3, <1>4, <1>5 DEF WriteInv

LEMMA StageSettles ==
  ASSUME stage \in [Txs -> Stages], stage' = stage
  PROVE  Settles
BY DEF Settles

(* close.                                                                  *)
LEMMA CloseSettles ==
  ASSUME PlaceTypes, NEW c \in Controllers, CloseStep(c)
  PROVE  Settles
<1>1. CASE FetchAll(c)
  <2>1. In({"prepared"}) \in SUBSET In({"idle", "prepared"})
    BY DEF In
  <2> QED BY <1>1, <2>1, DoomSettles DEF FetchAll, PlaceTypes
<1>2. CASE RollbackNonBusy(c) \/ StopTicks(c)
  <2>1. Outdated \in SUBSET In({"idle", "prepared"})
    BY DEF In, Outdated
  <2> QED BY <1>2, <2>1, DoomSettles DEF RollbackNonBusy, StopTicks, PlaceTypes
<1>3. CASE stage' = stage
  BY <1>3, StageSettles DEF PlaceTypes
<1> QED BY <1>1, <1>2, <1>3
  DEF CloseStep, Spawn, EmptyInTime, RollbackDone, WaitForEmpty, Join, StartDrain, Drain,
      Drained, poolVars

(* A close that finds the pool empty finds only what overtook it later.    *)
LEMMA CloseWrites ==
  ASSUME PlaceTypes, WriteInv, NEW c \in Controllers, CloseStep(c)
  PROVE  WriteInv'
<1>1. UNCHANGED <<teState, call, overtook>>
  BY DEF CloseStep, Spawn, FetchAll, EmptyInTime, RollbackNonBusy, RollbackDone, WaitForEmpty,
         Join, StopTicks, StartDrain, Drain, Drained, engineVars, history
<1>2. Settles
  BY CloseSettles
<1>3. CASE ~WaitForEmpty(c)
  <2>1. \A d \in Controllers : /\ pc'[d] = "lock" => pc[d] = "lock"
                               /\ pc'[d] \in Swept => pc[d] \in Swept
    BY <1>3 DEF PlaceTypes, CloseStep, Spawn, FetchAll, EmptyInTime, RollbackNonBusy, RollbackDone,
         Join, StopTicks, StartDrain, Drain, Drained, engineVars, Goto, Swept
  <2> QED BY <1>1, <1>2, <2>1, WriteFrame
<1>4. CASE WaitForEmpty(c)
  <2>1. Registered = {} /\ stage' = stage /\ pc' = [pc EXCEPT ![c] = "join"]
    BY <1>4 DEF WaitForEmpty, Goto, poolVars
  <2>2. Registered' = {} /\ Begins' = Begins
    BY <2>1 DEF Registered, Begins, In
  <2>3. \A d \in Controllers : pc'[d] = "lock" => pc[d] = "lock"
    BY <2>1 DEF PlaceTypes
  <2> QED BY <1>1, <2>2, <2>3 DEF WriteInv
<1> QED BY <1>3, <1>4

(* The other steps of a call: what they need of the state.                 *)
LEMMA CallWrites ==
  ASSUME PlaceTypes, WriteInv, NEW c \in Controllers, EngineStep(c),
         OpenFromNotServing(c) => Registered \subseteq Readers \cup overtook,
         StartTransition(c) => \A d \in Controllers : pc[d] \notin Swept,
         EndTransition(c) => teState = "Transitioning",
         EndLocked(c) => teState = "ReadOnly" \/ Target[call[c]] # "ReadOnly"
  PROVE  WriteInv'
<1>1. UNCHANGED <<call, overtook>>
  BY DEF EngineStep, WaitBegins, NothingToDo, OpenFromNotServing, Redirect, StartTransition,
         CloseLocked, BlockUntilEnd, EndLocked, EndTransition, CloseSignal, Locked,
         CloseStep, Spawn, FetchAll, EmptyInTime, RollbackNonBusy, RollbackDone, WaitForEmpty,
         Join, StopTicks, StartDrain, Drain, Drained, engineVars, history
<1>2. CASE WaitBegins(c)
  <2>1. Begins = {} /\ stage' = stage /\ pc' = [pc EXCEPT ![c] = "lock"] /\ teState' = teState
    BY <1>2 DEF WaitBegins, Goto, poolVars
  <2>2. Registered' = Registered /\ Begins' = {}
    BY <2>1 DEF Registered, Begins, In
  <2>3. \A d \in Controllers : pc'[d] \in Swept => pc[d] \in Swept
    BY <2>1 DEF PlaceTypes, Swept
  <2>4. Registered \subseteq Readers \cup overtook \/ teState # "ReadOnly"
    BY DEF WriteInv
  <2> QED BY <1>1, <2>1, <2>2, <2>3, <2>4 DEF WriteInv
<1>3. CASE NothingToDo(c) \/ Redirect(c) \/ CloseLocked(c) \/ BlockUntilEnd(c)
  <2>1. stage' = stage /\ teState' = teState
    BY <1>3 DEF NothingToDo, Redirect, CloseLocked, BlockUntilEnd, poolVars
  <2>2. \A d \in Controllers : /\ pc'[d] = "lock" => pc[d] = "lock"
                               /\ pc'[d] \in Swept => pc[d] \in Swept
    BY <1>3 DEF PlaceTypes, NothingToDo, Redirect, CloseLocked, BlockUntilEnd, Goto, Swept
  <2> QED BY <1>1, <2>1, <2>2, StageSettles, WriteFrame DEF PlaceTypes
<1>4. CASE OpenFromNotServing(c)
  <2>1. pc[c] = "lock" /\ pc' = [pc EXCEPT ![c] = "idle"] /\ Open(teState')
        /\ Target[call[c]] \in Accepting /\ teState' = Target[call[c]]
    BY <1>4 DEF OpenFromNotServing, Locked, Goto
  <2>2. call[c] # "StopGently" /\ teState' # "Transitioning"
    BY <2>1, SMT DEF Target, Accepting
  <2>3. Begins \subseteq overtook
    BY <2>1, <2>2 DEF WriteInv
  <2>4. Begins' = Begins /\ (teState' = "ReadOnly" => Registered' = Registered)
    BY <2>1, OpenRestores DEF PlaceTypes
  <2>5. Registered \subseteq Readers \cup overtook
    BY <1>4
  <2>6. teState' = "ReadOnly" => Begins' \cup Registered' \subseteq Readers \cup overtook'
    BY <1>1, <2>3, <2>4, <2>5
  <2> QED BY <1>1, <2>2, <2>3, <2>4, <2>6 DEF WriteInv
<1>5. CASE StartTransition(c)
  <2>1. /\ pc[c] = "lock" /\ call[c] # "StopGently" /\ teState' = "Transitioning"
        /\ stage' = stage
        /\ \A d \in Controllers : pc[d] \notin Swept
    BY <1>5 DEF StartTransition, Locked, poolVars
  <2>2. Begins' = Begins /\ Begins \subseteq overtook
    BY <2>1 DEF WriteInv, Begins, In
  <2>3. \A d \in Controllers : pc'[d] \notin Swept
    BY <1>5, <2>1 DEF StartTransition, Swept
  <2> QED BY <1>1, <2>1, <2>2, <2>3 DEF WriteInv
<1>6. CASE EndLocked(c)
  <2>1. /\ pc' = [pc EXCEPT ![c] = "idle"] /\ teState' = Target[call[c]]
        /\ stage' = stage \/ Open(teState')
        /\ teState = "ReadOnly" \/ teState' # "ReadOnly"
    BY <1>6 DEF EndLocked, Goto, poolVars
  <2>2. teState' # "Transitioning"
    BY <2>1, TargetStates DEF PlaceTypes
  <2>3. Begins' = Begins /\ (teState' = "ReadOnly" => Registered' = Registered)
    <3>1. CASE stage' = stage
      BY <3>1 DEF Begins, Registered, In
    <3>2. CASE Open(teState')
      BY <3>2, OpenRestores DEF PlaceTypes
    <3> QED BY <2>1, <3>1, <3>2
  <2>4. \A d \in Controllers : pc'[d] = "lock" => pc[d] = "lock"
    BY <2>1 DEF PlaceTypes
  <2> QED BY <1>1, <2>1, <2>2, <2>3, <2>4 DEF WriteInv
<1>7. CASE EndTransition(c)
  <2>1. /\ pc[c] \in Swept /\ pc' = [pc EXCEPT ![c] = "signal"]
        /\ stage' = stage \/ Open(teState')
        /\ teState = "Transitioning"
    BY <1>7 DEF EndTransition, Goto, poolVars, Swept
  <2>2. Begins \subseteq overtook /\ Registered \subseteq overtook
    BY <2>1 DEF WriteInv
  <2>3. Begins' = Begins /\ (teState' # "ReadWrite" => Registered' = Registered)
    <3>1. CASE stage' = stage
      BY <3>1 DEF Begins, Registered, In
    <3>2. CASE Open(teState')
      BY <3>2, OpenRestores DEF PlaceTypes
    <3> QED BY <2>1, <3>1, <3>2
  <2> QED BY <1>1, <2>2, <2>3 DEF WriteInv
<1>8. CASE CloseSignal(c)
  <2>1. stage' = stage /\ teState' = teState
    BY <1>8 DEF CloseSignal, poolVars
  <2>2. \A d \in Controllers : /\ pc'[d] = "lock" => pc[d] = "lock"
                               /\ pc'[d] \in Swept => pc[d] \in Swept
    BY <1>8 DEF CloseSignal, Swept
  <2> QED BY <1>1, <2>1, <2>2, StageSettles, WriteFrame DEF PlaceTypes
<1> QED BY <1>2, <1>3, <1>4, <1>5, <1>6, <1>7, <1>8, CloseWrites DEF EngineStep

(* Begin is refused, or only a Begin that overtakes nobody is not noted.   *)
LEMMA GateWrites ==
  ASSUME PlaceTypes, WriteInv, NEW t \in Clients, NEW from, Gate(t, from),
         from \notin BeginStages \cup InPool
  PROVE  WriteInv'
<1>1. t \in Txs /\ UNCHANGED <<teState, pc, call>> /\ stage[t] = from
  BY DEF Gate, Txs
<1>2. CASE ~Accepts(t)
  <2>1. stage' = [stage EXCEPT ![t] = "over"] /\ overtook' = overtook \ {t}
    BY <1>2 DEF Gate
  <2>2. Begins' = Begins /\ Registered' = Registered /\ t \notin Begins \cup Registered
    BY <1>1, <2>1 DEF Begins, Registered, In, PlaceTypes, BeginStages, InPool
  <2> QED BY <1>1, <2>1, <2>2 DEF WriteInv
<1>3. CASE Accepts(t) /\ \E c \in Controllers : pc[c] = "lock"
  <2>1. stage' = [stage EXCEPT ![t] = "limit"] /\ overtook' = overtook \cup {t}
    BY <1>3 DEF Gate
  <2>2. Begins' = Begins \cup {t} /\ Registered' = Registered
    BY <1>1, <2>1 DEF Begins, Registered, In, PlaceTypes, BeginStages, InPool
  <2> QED BY <1>1, <2>1, <2>2 DEF WriteInv
<1>4. CASE Accepts(t) /\ ~\E c \in Controllers : pc[c] = "lock"
  <2>1. stage' = [stage EXCEPT ![t] = "limit"] /\ overtook' = overtook \ {t}
    BY <1>4 DEF Gate
  <2>2. Begins' = Begins \cup {t} /\ Registered' = Registered /\ t \notin Begins \cup Registered
    BY <1>1, <2>1 DEF Begins, Registered, In, PlaceTypes, BeginStages, InPool
  <2>3. teState # "Transitioning" /\ (teState = "ReadOnly" => t \in Readers)
    BY <1>4 DEF Accepts
  <2> QED BY <1>1, <1>4, <2>1, <2>2, <2>3 DEF WriteInv
<1> QED BY <1>2, <1>3, <1>4

-----------------------------------------------------------------------------
(* The engine alone.  A stopped engine has no read-write transaction       *)
(* either.                                                                 *)
AloneInv ==
  /\ PlaceTypes /\ RequestInv /\ WriteInv
  /\ teState = "NotServing" => Begins \cup Registered \subseteq Readers \cup overtook

LEMMA AloneInit == TxEngineInit => AloneInv
<1> SUFFICES ASSUME TxEngineInit PROVE AloneInv
  OBVIOUS
<1>1. stage = [t \in Txs |-> "new"]
  BY DEF TxEngineInit, TxPoolInit
<1>2. Begins = {} /\ Registered = {}
  BY <1>1 DEF Begins, Registered, In, BeginStages
<1>3. PlaceTypes
  BY <1>1 DEF TxEngineInit, PlaceTypes, Places, Stages, EngineStates, Accepting, Target
<1>4. RequestInv
  BY TxPoolAssumption DEF TxEngineInit, RequestInv, Sweeping, Swept
<1>5. WriteInv
  BY <1>2 DEF WriteInv
<1> QED BY <1>2, <1>3, <1>4, <1>5 DEF AloneInv

(* Each step keeps the types.                                              *)
LEMMA PlaceTypesStep ==
  ASSUME PlaceTypes, RequestInv, NEW c \in Controllers, EngineStep(c)
  PROVE  PlaceTypes'
<1>1. /\ pc \in [Controllers -> Places] /\ call \in [Controllers -> DOMAIN Target]
      /\ stateLock \in Controllers \cup {None} /\ stage \in [Txs -> Stages]
      /\ teState \in EngineStates /\ wanted \in EngineStates \ {"Transitioning"}
      /\ Target[call[c]] \in EngineStates \ {"Transitioning"}
  BY TargetStates DEF PlaceTypes
<1>2. CASE CloseStep(c)
  <2>1. Settles
    BY <1>2, CloseSettles
  <2>2. UNCHANGED <<teState, call, stateLock, wanted>>
    BY <1>2 DEF CloseStep, Spawn, FetchAll, EmptyInTime, RollbackNonBusy, RollbackDone,
         WaitForEmpty, Join, StopTicks, StartDrain, Drain, Drained, engineVars, history
  <2>3. pc' \in [Controllers -> Places]
    BY <1>1, <1>2 DEF CloseStep, Spawn, FetchAll, EmptyInTime, RollbackNonBusy, RollbackDone,
         WaitForEmpty, Join, StopTicks, StartDrain, Drain, Drained, engineVars, Goto,
         Places, Sweeping, Swept
  <2> QED BY <1>1, <2>1, <2>2, <2>3 DEF PlaceTypes, Settles
<1>3. CASE WaitBegins(c) \/ NothingToDo(c) \/ Redirect(c) \/ CloseLocked(c) \/ BlockUntilEnd(c)
  BY <1>1, <1>3 DEF WaitBegins, NothingToDo, Redirect, CloseLocked, BlockUntilEnd, Locked, Goto,
       history, poolVars, PlaceTypes, Places, Sweeping
<1>4. CASE StartTransition(c)
  BY <1>1, <1>4 DEF StartTransition, Locked, poolVars, PlaceTypes, Places, Sweeping, EngineStates
<1>5. CASE CloseSignal(c)
  BY <1>1, <1>5 DEF CloseSignal, history, poolVars, PlaceTypes, Places
<1>6. CASE OpenFromNotServing(c)
  <2>1. Open(teState')
    BY <1>6 DEF OpenFromNotServing
  <2> QED BY <1>1, <1>6, <2>1, OpenRestores
        DEF OpenFromNotServing, Locked, Goto, PlaceTypes, Places
<1>7. CASE EndLocked(c)
  <2>1. stage' = stage \/ Open(teState')
    BY <1>7 DEF EndLocked, poolVars
  <2>2. stage' \in [Txs -> Stages]
    BY <1>1, <2>1, OpenRestores
  <2> QED BY <1>1, <1>7, <2>2 DEF EndLocked, Goto, PlaceTypes, Places, history
<1>8. CASE EndTransition(c)
  <2>1. stage' = stage \/ Open(teState')
    BY <1>8 DEF EndTransition, poolVars
  <2>2. stage' \in [Txs -> Stages]
    BY <1>1, <2>1, OpenRestores
  <2>3. teState' = wanted
    BY <1>8, TxPoolAssumption DEF EndTransition, RequestInv, Sweeping, Swept
  <2> QED BY <1>1, <1>8, <2>2, <2>3 DEF EndTransition, Goto, PlaceTypes, Places, history
<1> QED BY <1>2, <1>3, <1>4, <1>5, <1>6, <1>7, <1>8 DEF EngineStep

(* The calls of the engine keep RequestInv.                                *)
LEMMA RequestKeeps ==
  ASSUME PlaceTypes, RequestInv, NEW c \in Controllers, EngineStep(c)
  PROVE  RequestInv'
<1>1. /\ pc \in [Controllers -> Places] /\ call \in [Controllers -> DOMAIN Target]
      /\ stateLock \in Controllers \cup {None} /\ None \notin Controllers
      /\ teState \in EngineStates /\ wanted \in EngineStates \ {"Transitioning"}
      /\ Target[call[c]] \in EngineStates \ {"Transitioning"}
      /\ call' = call /\ call[c] # "StopGently"
  <2>1. call' = call
    BY DEF EngineStep, WaitBegins, NothingToDo, OpenFromNotServing, Redirect, StartTransition,
         CloseLocked, BlockUntilEnd, EndLocked, EndTransition, CloseSignal,
         CloseStep, Spawn, FetchAll, EmptyInTime, RollbackNonBusy, RollbackDone, WaitForEmpty,
         Join, StopTicks, StartDrain, Drain, Drained, engineVars
  <2> QED BY <2>1, TargetStates, TxPoolAssumption DEF PlaceTypes, RequestInv
<1>2. CASE CloseStep(c)
  <2>1. UNCHANGED <<teState, nextState, stateLock, wanted>>
    BY <1>2 DEF CloseStep, Spawn, FetchAll, EmptyInTime, RollbackNonBusy, RollbackDone,
         WaitForEmpty, Join, StopTicks, StartDrain, Drain, Drained, engineVars, history
  <2>2. \A d \in Controllers : pc'[d] \in Sweeping <=> pc[d] \in Sweeping
    BY <1>1, <1>2 DEF CloseStep, Spawn, FetchAll, EmptyInTime, RollbackNonBusy, RollbackDone,
         WaitForEmpty, Join, StopTicks, StartDrain, Drain, Drained, engineVars, Goto,
         Sweeping, Swept
  <2> QED BY <1>1, <2>1, <2>2 DEF RequestInv
<1>3. CASE WaitBegins(c) \/ BlockUntilEnd(c) \/ CloseSignal(c)
  <2>1. UNCHANGED <<teState, nextState, stateLock, wanted>>
    BY <1>3 DEF WaitBegins, BlockUntilEnd, CloseSignal, history
  <2>2. \A d \in Controllers : pc'[d] \in Sweeping <=> pc[d] \in Sweeping
    BY <1>1, <1>3 DEF WaitBegins, BlockUntilEnd, CloseSignal, Goto, Sweeping, Swept
  <2> QED BY <1>1, <2>1, <2>2 DEF RequestInv
<1>4. CASE NothingToDo(c) \/ OpenFromNotServing(c)
  <2>1. /\ stateLock = None /\ stateLock' = None
        /\ teState # "Transitioning" /\ teState' = Target[call[c]] /\ wanted' = Target[call[c]]
    BY <1>1, <1>4 DEF NothingToDo, OpenFromNotServing, Locked
  <2>2. \A d \in Controllers : pc'[d] \in Sweeping => pc[d] \in Sweeping
    BY <1>1, <1>4 DEF NothingToDo, OpenFromNotServing, Goto, Sweeping, Swept
  <2>3. \A d \in Controllers : pc[d] \notin Sweeping
    BY <1>1, <2>1 DEF RequestInv
  <2> QED BY <1>1, <2>1, <2>2, <2>3 DEF RequestInv
<1>5. CASE Redirect(c)
  <2>1. /\ stateLock = None /\ stateLock' = None
        /\ teState = "Transitioning" /\ teState' = teState
        /\ nextState' = Target[call[c]] /\ wanted' = Target[call[c]]
    BY <1>5 DEF Redirect, Locked
  <2>2. \A d \in Controllers : pc'[d] \in Sweeping <=> pc[d] \in Sweeping
    BY <1>1, <1>5 DEF Redirect, Locked, Goto, Sweeping, Swept
  <2> QED BY <1>1, <2>1, <2>2 DEF RequestInv
<1>6. CASE StartTransition(c)
  <2>1. /\ stateLock = None /\ stateLock' = None
        /\ teState = "ReadWrite" /\ teState' = "Transitioning"
        /\ nextState' = Target[call[c]] /\ wanted' = Target[call[c]]
    BY <1>6 DEF StartTransition, Locked
  <2>2. \A d \in Controllers : pc[d] \notin Sweeping
    BY <1>1, <2>1 DEF RequestInv
  <2>3. \A d \in Controllers : pc'[d] \in Sweeping <=> d = c
    BY <1>1, <1>6, <2>2 DEF StartTransition, Sweeping, Swept
  <2> QED BY <1>1, <2>1, <2>3 DEF RequestInv
<1>7. CASE CloseLocked(c)
  <2>1. /\ stateLock = None /\ stateLock' = c
        /\ teState = "ReadOnly" /\ teState' = teState
        /\ wanted' = Target[call[c]]
    BY <1>1, <1>7 DEF CloseLocked, Locked
  <2>2. \A d \in Controllers : pc[d] \notin Sweeping
    BY <1>1, <2>1 DEF RequestInv
  <2>3. \A d \in Controllers : pc'[d] \in Sweeping <=> d = c
    BY <1>1, <1>7, <2>2 DEF CloseLocked, Goto, Sweeping, Swept
  <2> QED BY <1>1, <2>1, <2>3 DEF RequestInv
<1>8. CASE EndLocked(c) \/ EndTransition(c)
  <2>1. pc[c] \in Sweeping /\ stateLock' = None /\ UNCHANGED wanted
    BY <1>8 DEF EndLocked, EndTransition, history, Sweeping, Swept
  <2>2. teState' = wanted
    BY <1>1, <1>8, <2>1 DEF EndLocked, EndTransition, RequestInv
  <2>3. \A d \in Controllers : pc'[d] \notin Sweeping
    <3>1. \A d \in Controllers : pc[d] \in Sweeping => d = c
      BY <2>1 DEF RequestInv
    <3> QED BY <1>1, <1>8, <3>1 DEF EndLocked, EndTransition, Goto, Sweeping, Swept
  <2> QED BY <1>1, <2>1, <2>2, <2>3 DEF RequestInv
<1> QED BY <1>2, <1>3, <1>4, <1>5, <1>6, <1>7, <1>8 DEF EngineStep

(* The steps of one call.                                                  *)
LEMMA AloneEngineStep ==
  ASSUME AloneInv, NEW c \in Controllers, EngineStep(c)
  PROVE  AloneInv'
<1>1. PlaceTypes /\ RequestInv /\ WriteInv
      /\ (teState = "NotServing" => Begins \cup Registered \subseteq Readers \cup overtook)
  BY DEF AloneInv
<1>2. PlaceTypes' /\ RequestInv'
  BY <1>1, PlaceTypesStep, RequestKeeps
<1>3. OpenFromNotServing(c) => Registered \subseteq Readers \cup overtook
  BY <1>1 DEF OpenFromNotServing
<1>4. StartTransition(c) => \A d \in Controllers : pc[d] \notin Swept
  BY <1>1, TxPoolAssumption DEF StartTransition, Locked, RequestInv, Sweeping
<1>5. EndTransition(c) => teState = "Transitioning"
  BY <1>1, TxPoolAssumption DEF EndTransition, RequestInv, Sweeping, Swept
<1>6. EndLocked(c) => teState = "ReadOnly"
  BY <1>1, TxPoolAssumption DEF EndLocked, RequestInv, Sweeping, Swept
<1>7. WriteInv'
  BY <1>1, <1>3, <1>4, <1>5, <1>6, CallWrites
<1>8. ASSUME teState' = "NotServing" PROVE Begins' \cup Registered' \subseteq Readers \cup overtook'
  <2>1. overtook' = overtook
    BY DEF EngineStep, WaitBegins, NothingToDo, OpenFromNotServing, Redirect, StartTransition,
         CloseLocked, BlockUntilEnd, EndLocked, EndTransition, CloseSignal, Locked,
         CloseStep, Spawn, FetchAll, EmptyInTime, RollbackNonBusy, RollbackDone, WaitForEmpty,
         Join, StopTicks, StartDrain, Drain, Drained, engineVars, history
  <2>2. CASE EndLocked(c) \/ EndTransition(c)
    <3>1. stage' = stage
      BY <1>8, <2>2 DEF EndLocked, EndTransition, poolVars
    <3>2. Registered' = Registered /\ Begins' = Begins
      BY <3>1 DEF Registered, Begins, In
    <3>3. pc[c] \in Swept
      BY <2>2 DEF EndLocked, EndTransition, Swept
    <3> QED BY <1>1, <1>5, <1>6, <2>1, <2>2, <3>2, <3>3 DEF WriteInv
  <2>3. CASE ~(EndLocked(c) \/ EndTransition(c))
    <3>1. teState = "NotServing" /\ ~OpenFromNotServing(c)
      BY <1>8, <2>3 DEF EngineStep, WaitBegins, NothingToDo, OpenFromNotServing, Redirect,
           StartTransition, CloseLocked, BlockUntilEnd, CloseSignal, Accepting,
           CloseStep, Spawn, FetchAll, EmptyInTime, RollbackNonBusy, RollbackDone, WaitForEmpty,
           Join, StopTicks, StartDrain, Drain, Drained, engineVars
    <3>2. Settles
      <4>1. CASE CloseStep(c)
        BY <1>1, <4>1, CloseSettles
      <4>2. CASE ~CloseStep(c)
        <5>1. stage' = stage
          BY <2>3, <3>1, <4>2 DEF EngineStep, WaitBegins, NothingToDo, Redirect,
               StartTransition, CloseLocked, BlockUntilEnd, CloseSignal, poolVars
        <5> QED BY <1>1, <5>1, StageSettles DEF PlaceTypes
      <4> QED BY <4>1, <4>2
    <3>3. Begins' \cup Registered' \subseteq Begins \cup Registered
      BY <3>2, SettlesFalls
    <3> QED BY <1>1, <2>1, <3>1, <3>3
  <2> QED BY <2>2, <2>3
<1> QED BY <1>2, <1>7, <1>8 DEF AloneInv

(* A new call, and the steps of clients and of the pool.                   *)
LEMMA AloneOtherStep ==
  ASSUME AloneInv,
         \/ \E c \in Controllers : \E m \in DOMAIN Target \ {"StopGently"} : Call(c, m)
         \/ \E t \in Clients : Gate(t, "new")
         \/ \E t \in Txs : (Use(t) \/ Resolve(t)) /\ UNCHANGED engineVars
         \/ PoolStep
  PROVE  AloneInv'
<1>1. PlaceTypes /\ RequestInv /\ WriteInv
      /\ (teState = "NotServing" => Begins \cup Registered \subseteq Readers \cup overtook)
  BY DEF AloneInv
<1>2. CASE \E c \in Controllers : \E m \in DOMAIN Target \ {"StopGently"} : Call(c, m)
  <2>1. PICK c \in Controllers, m \in DOMAIN Target \ {"StopGently"} : Call(c, m)
    BY <1>2
  <2>2. /\ pc[c] = "idle" /\ pc' = [pc EXCEPT ![c] = "begins"] /\ call' = [call EXCEPT ![c] = m]
        /\ UNCHANGED <<stage, teState, nextState, stateLock, wanted, overtook>>
    BY <2>1 DEF Call, Goto, poolVars, history
  <2>3. \A d \in Controllers :
          /\ pc'[d] = "lock" => pc[d] = "lock" /\ call'[d] = call[d]
          /\ pc'[d] \in Swept <=> pc[d] \in Swept
          /\ pc'[d] \in Sweeping <=> pc[d] \in Sweeping
          /\ pc[d] \in Sweeping => call'[d] = call[d]
          /\ call'[d] # "StopGently"
    BY <1>1, <2>2 DEF PlaceTypes, RequestInv, Swept, Sweeping
  <2>4. PlaceTypes'
    BY <1>1, <2>2 DEF PlaceTypes, Places
  <2>5. RequestInv'
    BY <1>1, <2>2, <2>3 DEF RequestInv
  <2>6. Begins' = Begins /\ Registered' = Registered
    BY <2>2 DEF Begins, Registered, In
  <2>7. WriteInv'
    BY <1>1, <2>2, <2>3, <2>6 DEF WriteInv
  <2> QED BY <1>1, <2>2, <2>4, <2>5, <2>6, <2>7 DEF AloneInv
<1>3. CASE \E t \in Clients : Gate(t, "new")
  <2>1. PICK t \in Clients : Gate(t, "new")
    BY <1>3
  <2>2. WriteInv'
    BY <1>1, <2>1, GateWrites DEF BeginStages, InPool
  <2>3. /\ UNCHANGED <<teState, nextState, stateLock, call, pc, wanted>>
        /\ stage' = [stage EXCEPT ![t] = IF Accepts(t) THEN "limit" ELSE "over"]
        /\ stage[t] = "new" /\ t \in Txs
    BY <2>1 DEF Gate, Txs
  <2>4. PlaceTypes' /\ RequestInv'
    BY <1>1, <2>3 DEF PlaceTypes, RequestInv, Stages, BeginStages
  <2>5. teState' = "NotServing" => Begins' \cup Registered' \subseteq Readers \cup overtook'
    <3> SUFFICES ASSUME teState' = "NotServing"
                 PROVE  Begins' \cup Registered' \subseteq Readers \cup overtook'
      OBVIOUS
    <3>1. overtook' = overtook \ {t} /\ stage' = [stage EXCEPT ![t] = "over"]
      BY <2>1, <2>3 DEF Gate, Accepts
    <3>2. Begins' = Begins /\ Registered' = Registered /\ t \notin Begins \cup Registered
      BY <1>1, <2>3, <3>1 DEF Begins, Registered, In, PlaceTypes, BeginStages
    <3> QED BY <1>1, <2>3, <3>1, <3>2
  <2> QED BY <2>2, <2>4, <2>5 DEF AloneInv
<1>4. CASE PoolStep \/ \E t \in Txs : (Use(t) \/ Resolve(t)) /\ UNCHANGED engineVars
  <2>1. Settles
    BY <1>1, <1>4, PoolStepSettles DEF PlaceTypes
  <2>2. UNCHANGED <<teState, nextState, stateLock, call, pc, wanted, overtook>>
    BY <1>4 DEF PoolStep, engineVars, history
  <2>3. PlaceTypes' /\ RequestInv'
    BY <1>1, <2>1, <2>2 DEF PlaceTypes, RequestInv, Settles
  <2>4. WriteInv'
    BY <1>1, <2>1, <2>2, WriteFrame
  <2>5. Begins' \cup Registered' \subseteq Begins \cup Registered
    BY <2>1, SettlesFalls
  <2> QED BY <1>1, <2>2, <2>3, <2>4, <2>5 DEF AloneInv
<1> QED BY <1>2, <1>3, <1>4

(* AloneInv is an invariant of the engine alone.                           *)
THEOREM EngineAloneInvariant == EngineSpec => []AloneInv
<1>1. TxEngineInit => AloneInv
  BY AloneInit
<1>2. ASSUME AloneInv, EngineAlone PROVE AloneInv'
  BY <1>2, AloneEngineStep, AloneOtherStep DEF EngineAlone
<1>3. ASSUME AloneInv, UNCHANGED <<poolVars, engineVars>> PROVE AloneInv'
  BY <1>3 DEF AloneInv, PlaceTypes, RequestInv, WriteInv, poolVars, engineVars, history, Begins,
       Registered, In
<1> QED BY <1>1, <1>2, <1>3, PTL DEF EngineSpec

(* LastRequestWins: once no call of the engine runs, its state is the one  *)
(* that the last caller to take stateLock asked for, however many threads  *)
(* call AcceptReadWrite, AcceptReadOnly and Stop at the same time.         *)
THEOREM LastRequestIsServed == EngineSpec => []LastRequestWins
<1>1. AloneInv => LastRequestWins
  BY TxPoolAssumption
    DEF AloneInv, PlaceTypes, RequestInv, LastRequestWins, Sweeping, Swept
<1> QED BY <1>1, EngineAloneInvariant, PTL

(* NoWritesInReadOnly: while the engine is ReadOnly the pool holds         *)
(* read-only transactions, and of the others only those whose Begin came   *)
(* between a caller's beginRequests.Wait and its stateLock.Lock.           *)
THEOREM ReadOnlyHoldsNoWrites == EngineSpec => []NoWritesInReadOnly
<1>1. AloneInv => NoWritesInReadOnly
  BY DEF AloneInv, WriteInv, NoWritesInReadOnly
<1> QED BY <1>1, EngineAloneInvariant, PTL
-----------------------------------------------------------------------------
(* The pool of connections: those that are lent and those that a close has *)
(* taken back fit the capacity, and a closed pool has lent none.           *)
LentStages == {"exec", "idle", "busy", "prepared", "stray", "doomed", "ending"}
Lent(f) == {t \in Txs : f[t] \in LentStages}

CountInv ==
  /\ stage \in [Txs -> Stages] /\ drained \in Nat
  /\ pool \in {"closed", "open", "closing"}
  /\ Cardinality(Held) + drained <= Capacity
  /\ pool = "closed" => Held = {}

(* The pool and its killer run while the engine serves and nobody closes.  *)
AtWork == IF teState = "NotServing" THEN pool = "closed" /\ ~ticking
                                    ELSE pool = "open" /\ ticking
Shutting(c) ==
  /\ pc[c] \in {"stray", "drain", "shut"} => ~ticking
  /\ pc[c] = "drain" => pool # "open"
  /\ pc[c] = "shut" => pool = "closed"
RunInv ==
  /\ (\A c \in Controllers : pc[c] \notin Closing) => AtWork
  /\ \A c \in Controllers : Shutting(c)

PoolInv == CountInv /\ RunInv

LEMMA HeldLent == Held = Lent(stage) /\ Held' = Lent(stage')
BY DEF Held, In, Lent, LentStages

LEMMA LentFinite ==
  ASSUME NEW S \in SUBSET Txs
  PROVE  IsFiniteSet(S) /\ Cardinality(S) \in Nat
<1>1. IsFiniteSet(S)
  BY TxPoolAssumption, FS_Subset
<1> QED BY <1>1, FS_CardinalityType

LEMMA HeldFinite ==
  /\ IsFiniteSet(Held) /\ Cardinality(Held) \in Nat
  /\ IsFiniteSet(Held') /\ Cardinality(Held') \in Nat
<1>1. Held \in SUBSET Txs /\ Held' \in SUBSET Txs
  BY DEF Held, In
<1> QED BY <1>1, LentFinite

(* A step that lends nothing.                                              *)
LEMMA NothingLent ==
  ASSUME CountInv, stage' \in [Txs -> Stages], Held' \subseteq Held,
         drained' = drained, pool' = pool
  PROVE  CountInv'
<1>1. Cardinality(Held') <= Cardinality(Held)
  BY HeldFinite, FS_Subset
<1> QED BY <1>1, HeldFinite, TxPoolAssumption, SMT DEF CountInv

(* One transaction moves.                                                  *)
LEMMA LentMoves ==
  ASSUME CountInv, NEW t \in Txs, NEW l \in Stages, stage' = [stage EXCEPT ![t] = l]
  PROVE  /\ stage' \in [Txs -> Stages] /\ Held' \subseteq Held \cup {t}
         /\ l \notin LentStages \/ stage[t] \in LentStages => Held' \subseteq Held
<1>1. stage \in [Txs -> Stages] /\ stage' \in [Txs -> Stages]
  BY DEF CountInv
<1>2. Held' \subseteq Held \cup {t}
  BY <1>1, HeldLent DEF Lent
<1>3. ASSUME l \notin LentStages \/ stage[t] \in LentStages PROVE Held' \subseteq Held
  BY <1>1, <1>3, HeldLent DEF Lent
<1> QED BY <1>1, <1>2, <1>3

LEMMA LentStays ==
  ASSUME CountInv, NEW t \in Txs, NEW l \in Stages, stage' = [stage EXCEPT ![t] = l],
         l \notin LentStages \/ stage[t] \in LentStages, drained' = drained, pool' = pool
  PROVE  CountInv'
BY LentMoves, NothingLent

LEMMA DoomCount ==
  ASSUME CountInv, NEW S \in SUBSET In({"idle", "prepared"}), NEW c, Doom(S, c),
         drained' = drained, pool' = pool
  PROVE  CountInv'
<1>1. stage' \in [Txs -> Stages]
  BY DEF Doom, CountInv, Stages, BeginStages
<1>2. \A t \in Txs : stage'[t] \in LentStages => stage[t] \in LentStages
  BY DEF Doom, CountInv, In, LentStages
<1>3. Held' \subseteq Held
  BY <1>2, HeldLent DEF Lent
<1> QED BY <1>1, <1>3, NothingLent

(* open lends connections to the transactions it restores.                 *)
LEMMA OpenCount ==
  ASSUME CountInv, NEW s, Open(s)
  PROVE  CountInv' /\ pool' = "open" /\ ticking'
<1> DEFINE logged == In({"new"}) \cap Redo
<1>1. PICK P \in SUBSET logged : \E L \in SUBSET (logged \ P) :
        /\ Cardinality(Held) + Cardinality(P \cup L) <= Capacity
        /\ stage' = [t \in Txs |-> IF t \in P THEN "prepared"
                                   ELSE IF t \in L THEN "stray" ELSE stage[t]]
  BY DEF Open
<1>2. PICK L \in SUBSET (logged \ P) :
        /\ Cardinality(Held) + Cardinality(P \cup L) <= Capacity
        /\ stage' = [t \in Txs |-> IF t \in P THEN "prepared"
                                   ELSE IF t \in L THEN "stray" ELSE stage[t]]
  BY <1>1
<1>3. pool' = "open" /\ drained' = 0 /\ ticking'
  BY DEF Open
<1>4. stage' \in [Txs -> Stages]
  BY <1>2 DEF CountInv, Stages, BeginStages
<1>5. Held' \subseteq Held \cup (P \cup L) /\ P \cup L \in SUBSET Txs
  BY <1>2, HeldLent DEF Lent, In
<1>6. Cardinality(Held') <= Cardinality(Held) + Cardinality(P \cup L)
  <2>1. IsFiniteSet(P \cup L) /\ Cardinality(P \cup L) \in Nat
    BY <1>5, LentFinite
  <2>2. /\ IsFiniteSet(Held \cup (P \cup L))
        /\ Cardinality(Held \cup (P \cup L))
             = Cardinality(Held) + Cardinality(P \cup L) - Cardinality(Held \cap (P \cup L))
    BY <2>1, HeldFinite, FS_Union
  <2>3. Cardinality(Held') <= Cardinality(Held \cup (P \cup L))
    BY <1>5, <2>2, FS_Subset
  <2>4. Cardinality(Held \cap (P \cup L)) \in Nat
    <3>1. Held \cap (P \cup L) \in SUBSET Txs
      BY <1>5
    <3> QED BY <3>1, LentFinite
  <2>5. Cardinality(Held) \in Nat /\ Cardinality(Held') \in Nat
    BY HeldFinite
  <2> QED BY <2>1, <2>2, <2>3, <2>4, <2>5, SMT
<1>7. Cardinality(P \cup L) \in Nat
  BY <1>5, LentFinite
<1> QED BY <1>2, <1>3, <1>4, <1>6, <1>7, HeldFinite, TxPoolAssumption, SMT DEF CountInv

LEMMA StageKinds ==
  /\ LentStages \subseteq Stages /\ {"new", "request", "limit", "queue", "conn", "over"} \subseteq Stages
  /\ {"new", "request", "limit", "queue", "conn", "over"} \cap LentStages = {}
  /\ Clients \subseteq Txs /\ Redo \subseteq Txs
BY DEF LentStages, Stages, BeginStages, Txs

(* PoolGet lends a connection.                                             *)
LEMMA PoolGetCount ==
  ASSUME CountInv, NEW t \in Txs, PoolGet(t)
  PROVE  CountInv'
<1>1. "exec" \in Stages /\ stage' = [stage EXCEPT ![t] = "exec"]
  BY DEF PoolGet, Stages, BeginStages
<1>2. stage' \in [Txs -> Stages] /\ Held' \subseteq Held \cup {t}
  BY <1>1, LentMoves
<1>3. Cardinality(Held') <= Cardinality(Held) + 1
  <2>1. CASE t \in Held
    <3>1. Held' \subseteq Held
      BY <1>2, <2>1
    <3>2. Cardinality(Held') <= Cardinality(Held)
      BY <3>1, HeldFinite, FS_Subset
    <3> QED BY <3>2, HeldFinite, SMT
  <2>2. CASE t \notin Held
    <3>1. IsFiniteSet(Held \cup {t}) /\ Cardinality(Held \cup {t}) = Cardinality(Held) + 1
      BY <2>2, HeldFinite, FS_AddElement
    <3>2. Cardinality(Held') <= Cardinality(Held \cup {t})
      BY <1>2, <3>1, FS_Subset
    <3> QED BY <3>1, <3>2
  <2> QED BY <2>1, <2>2
<1>4. pool # "closed" /\ pool' = pool /\ drained' = drained
      /\ Cardinality(Held) + drained < Capacity
  BY DEF PoolGet
<1> QED BY <1>2, <1>3, <1>4, HeldFinite, TxPoolAssumption, SMT DEF CountInv

(* The other steps of transactions.                                        *)
LEMMA TxCount ==
  ASSUME CountInv, NEW t \in Txs,
         \/ LimiterGet(t) \/ CountWaiter(t) \/ BeginFails(t) \/ Register(t) \/ Use(t)
         \/ Recycle(t) \/ Finish(t) \/ Resolve(t) \/ Unregister(t) \/ Conclude(t) \/ Again(t)
         \/ AdmitBegin(t) \/ Gate(t, "request")
  PROVE  CountInv'
<1>1. drained' = drained /\ pool' = pool
  BY DEF LimiterGet, CountWaiter, BeginFails, Register, Use, Recycle, Finish, Resolve, Unregister,
         Conclude, Again, AdmitBegin, Gate
<1>2. CASE \/ LimiterGet(t) \/ CountWaiter(t) \/ BeginFails(t) \/ Conclude(t) \/ Again(t)
           \/ AdmitBegin(t) \/ Gate(t, "request")
  <2>1. PICK l \in {"new", "request", "limit", "queue", "conn", "over"} :
          stage' = [stage EXCEPT ![t] = l]
    BY <1>2
    DEF LimiterGet, CountWaiter, BeginFails, Conclude, Again, AdmitBegin, Gate
  <2>2. l \in Stages /\ l \notin LentStages
    BY StageKinds
  <2> QED BY <1>1, <2>1, <2>2, LentStays
<1>3. CASE Register(t) \/ Use(t) \/ Recycle(t) \/ Finish(t) \/ Resolve(t) \/ Unregister(t)
  <2>1. PICK l \in {"idle", "busy", "ending"} : stage' = [stage EXCEPT ![t] = l]
    BY <1>3 DEF Register, Use, Recycle, Finish, Resolve, Unregister
  <2>2. l \in Stages /\ stage[t] \in LentStages
    BY <1>3, StageKinds DEF Register, Use, Recycle, Finish, Resolve, Unregister, LentStages
  <2> QED BY <1>1, <2>1, <2>2, LentStays
<1> QED BY <1>2, <1>3

LEMMA StageCount ==
  ASSUME CountInv, UNCHANGED <<stage, drained, pool>>
  PROVE  CountInv'
<1>1. stage' \in [Txs -> Stages] /\ Held' \subseteq Held /\ drained' = drained /\ pool' = pool
  BY HeldLent DEF CountInv
<1> QED BY <1>1, NothingLent

LEMMA PoolStepCount ==
  ASSUME CountInv, PoolStep
  PROVE  CountInv'
<1>1. ASSUME NEW t \in Clients, BeginStep(t) \/ Recycle(t) \/ Finish(t) \/ Again(t)
      PROVE  CountInv'
  <2>1. t \in Txs
    BY StageKinds
  <2> QED BY <1>1, <2>1, PoolGetCount, TxCount DEF BeginStep
<1>2. ASSUME NEW t \in Txs, Unregister(t) \/ Conclude(t)
      PROVE  CountInv'
  BY <1>2, TxCount
<1>3. CASE Kill
  <2>1. PICK S \in SUBSET Outdated : Doom(S, Killer)
    BY <1>3 DEF Kill
  <2>2. S \in SUBSET In({"idle", "prepared"}) /\ drained' = drained /\ pool' = pool
    BY <1>3, <2>1 DEF Kill, Outdated, In
  <2> QED BY <2>1, <2>2, DoomCount
<1> QED BY <1>1, <1>2, <1>3 DEF PoolStep

LEMMA RequestCount ==
  ASSUME CountInv, RequestStep
  PROVE  CountInv'
<1>1. ASSUME NEW t \in Clients,
             AdmitBegin(t) \/ AdmitUse(t) \/ GetAsked(t) \/ Gate(t, "request")
      PROVE  CountInv'
  <2>1. t \in Txs
    BY StageKinds
  <2>2. CASE UNCHANGED poolVars
    <3>1. UNCHANGED <<stage, drained, pool>>
      BY <2>2 DEF poolVars
    <3> QED BY <3>1, StageCount
  <2> QED BY <1>1, <2>1, <2>2, TxCount DEF AdmitUse, GetAsked
<1>2. ASSUME NEW t \in Redo, Resolve(t)
      PROVE  CountInv'
  <2>1. t \in Txs
    BY StageKinds
  <2> QED BY <1>2, <2>1, TxCount
<1> QED BY <1>1, <1>2 DEF RequestStep
-----------------------------------------------------------------------------
(* What is left to show of a step of the engine.                           *)
LEMMA RunFrame ==
  ASSUME EngineInv, NEW c \in Controllers, pc[c] # "idle",
         \A d \in Controllers \ {c} : pc'[d] = pc[d],
         Shutting(c)', pc'[c] \notin Closing => AtWork'
  PROVE  RunInv'
<1>1. \A d \in Controllers \ {c} : pc'[d] = "idle"
  BY OneCaller, Others
<1>2. \A d \in Controllers \ {c} : Shutting(d)'
  BY <1>1 DEF Shutting
<1> QED BY <1>2 DEF RunInv

LEMMA RunStays ==
  ASSUME RunInv, UNCHANGED <<teState, pc, pool, ticking>>
  PROVE  RunInv'
BY DEF RunInv, Shutting, AtWork

(* While a call is not closing, nobody is.                                 *)
LEMMA CallAtWork ==
  ASSUME EngineInv, RunInv, NEW c \in Controllers, pc[c] # "idle", pc[c] \notin Closing
  PROVE  AtWork
<1>1. \A d \in Controllers \ {c} : pc[d] = "idle"
  BY OneCaller, Others
<1> QED BY <1>1 DEF RunInv, Closing

LEMMA LockedRun ==
  ASSUME EngineInv, PoolInv, NEW c \in Controllers,
         WaitBegins(c) \/ NothingToDo(c) \/ StartTransition(c) \/ CloseLocked(c) \/ CloseSignal(c)
  PROVE  PoolInv'
<1>1. pc \in [Controllers -> Closing \cup {"idle", "begins", "lock", "signal"}]
  BY DEF EngineInv, EngineTypes
<1>2. /\ pc[c] \in {"begins", "lock", "signal"} /\ UNCHANGED poolVars
      /\ teState' = teState \/ pc'[c] = "spawn"
  BY <1>1 DEF WaitBegins, NothingToDo, StartTransition, CloseLocked, CloseSignal, Locked, Goto
<1>3. PICK l \in {"lock", "idle", "spawn"} : pc' = [pc EXCEPT ![c] = l]
  <2>1. \A d \in Controllers : pc[d] # "blocked"
    BY <1>1 DEF Closing
  <2>2. CASE WaitBegins(c) \/ NothingToDo(c) \/ CloseLocked(c)
    BY <2>2 DEF WaitBegins, NothingToDo, CloseLocked, Goto
  <2>3. CASE StartTransition(c)
    <3>1. pc' = [pc EXCEPT ![c] = "spawn"]
      BY <1>1, <2>1, <2>3 DEF StartTransition
    <3> QED BY <3>1
  <2>4. CASE CloseSignal(c)
    <3>1. pc' = [pc EXCEPT ![c] = "idle"]
      BY <1>1, <2>1, <2>4 DEF CloseSignal
    <3> QED BY <3>1
  <2> QED BY <2>2, <2>3, <2>4
<1>4. pc'[c] = l /\ \A d \in Controllers \ {c} : pc'[d] = pc[d]
  BY <1>1, <1>3
<1>5. UNCHANGED <<stage, drained, pool, ticking>>
  BY <1>2 DEF poolVars
<1>6. Shutting(c)'
  BY <1>4 DEF Shutting
<1>7. pc'[c] \notin Closing => AtWork'
  <2>1. AtWork
    BY <1>2, CallAtWork DEF PoolInv, Closing
  <2> QED BY <1>2, <1>5, <2>1 DEF AtWork, Closing
<1>8. RunInv'
  BY <1>2, <1>4, <1>6, <1>7, RunFrame
<1> QED BY <1>5, <1>8, StageCount DEF PoolInv

(* open, from NotServing or at the end of a close.                         *)
LEMMA OpenRun ==
  ASSUME EngineInv, PoolInv, NEW c \in Controllers,
         OpenFromNotServing(c) \/ EndLocked(c) \/ EndTransition(c)
  PROVE  PoolInv'
<1>1. pc \in [Controllers -> Closing \cup {"idle", "begins", "lock", "signal"}]
  BY DEF EngineInv, EngineTypes
<1>2. pc[c] \in {"lock", "shut"}
  BY DEF OpenFromNotServing, EndLocked, EndTransition, Locked
<1>3. PICK l \in {"idle", "signal"} : pc' = [pc EXCEPT ![c] = l]
  BY DEF OpenFromNotServing, EndLocked, EndTransition, Goto
<1>4. pc'[c] = l /\ \A d \in Controllers \ {c} : pc'[d] = pc[d]
  BY <1>1, <1>3
<1>5. Shutting(c)'
  BY <1>4 DEF Shutting
<1>6. CASE Open(teState') /\ teState' # "NotServing"
  <2>1. CountInv' /\ pool' = "open" /\ ticking'
    BY <1>6, OpenCount DEF PoolInv
  <2>2. AtWork'
    BY <1>6, <2>1 DEF AtWork
  <2>3. RunInv'
    BY <1>2, <1>4, <1>5, <2>2, RunFrame
  <2> QED BY <2>1, <2>3 DEF PoolInv
<1>7. CASE UNCHANGED poolVars /\ teState' = "NotServing" /\ pc[c] = "shut"
  <2>1. UNCHANGED <<stage, drained, pool, ticking>>
    BY <1>7 DEF poolVars
  <2>2. pool = "closed" /\ ~ticking
    BY <1>7 DEF PoolInv, RunInv, Shutting
  <2>3. AtWork'
    BY <1>7, <2>1, <2>2 DEF AtWork
  <2>4. RunInv'
    BY <1>2, <1>4, <1>5, <2>3, RunFrame
  <2> QED BY <2>1, <2>4, StageCount DEF PoolInv
<1>8. CASE OpenFromNotServing(c)
  <2>1. Open(teState') /\ teState' \in Accepting
    BY <1>8 DEF OpenFromNotServing
  <2> QED BY <1>6, <2>1 DEF Accepting
<1>9. EndTransition(c) => teState = "Transitioning"
  BY TxPoolAssumption DEF EndTransition, EngineInv, Closes, Closing
<1> QED BY <1>6, <1>7, <1>8, <1>9 DEF EndLocked, EndTransition

(* The steps of close.                                                     *)
LEMMA CloseRun ==
  ASSUME EngineInv, PoolInv, NEW c \in Controllers, CloseStep(c)
  PROVE  PoolInv'
<1>1. pc \in [Controllers -> Closing \cup {"idle", "begins", "lock", "signal"}]
  BY DEF EngineInv, EngineTypes
<1>2. ASSUME NEW l \in Closing, pc' = [pc EXCEPT ![c] = l], pc[c] # "idle", Shutting(c)'
      PROVE  RunInv'
  BY <1>1, <1>2, RunFrame
<1>3. CASE FetchAll(c) \/ RollbackNonBusy(c)
  <2>1. PICK S \in SUBSET In({"idle", "prepared"}) : Doom(S, c)
    BY <1>3 DEF FetchAll, RollbackNonBusy, Outdated, In
  <2>2. UNCHANGED <<drained, pool, ticking, teState, pc>>
    BY <1>3 DEF FetchAll, RollbackNonBusy
  <2> QED BY <2>1, <2>2, DoomCount, RunStays DEF PoolInv
<1>4. CASE EmptyInTime(c) \/ RollbackDone(c)
  <2>1. UNCHANGED <<stage, drained, pool, ticking, teState, pc>>
    BY <1>4 DEF EmptyInTime, RollbackDone, poolVars
  <2> QED BY <2>1, StageCount, RunStays DEF PoolInv
<1>5. CASE Spawn(c) \/ WaitForEmpty(c) \/ Join(c)
  <2>1. /\ UNCHANGED <<stage, drained, pool, ticking>> /\ pc[c] # "idle"
        /\ \E l \in {"empty", "join", "ticks"} : pc' = [pc EXCEPT ![c] = l]
    BY <1>5 DEF Spawn, WaitForEmpty, Join, Goto, poolVars
  <2>2. pc'[c] \in {"empty", "join", "ticks"}
    BY <1>1, <2>1
  <2>3. Shutting(c)'
    BY <2>2 DEF Shutting
  <2>4. RunInv'
    BY <1>2, <2>1, <2>3 DEF Closing
  <2> QED BY <2>1, <2>4, StageCount DEF PoolInv
<1>6. CASE StopTicks(c)
  <2>1. /\ Doom(Outdated, c) /\ UNCHANGED <<drained, pool>> /\ ticking' = FALSE
        /\ pc[c] # "idle" /\ pc' = [pc EXCEPT ![c] = "stray"]
    BY <1>6 DEF StopTicks, Goto
  <2>2. Outdated \in SUBSET In({"idle", "prepared"})
    BY DEF In, Outdated
  <2>3. CountInv'
    BY <2>1, <2>2, DoomCount DEF PoolInv
  <2>4. Shutting(c)'
    BY <1>1, <2>1 DEF Shutting
  <2>5. RunInv'
    BY <1>2, <2>1, <2>4 DEF Closing
  <2> QED BY <2>3, <2>5 DEF PoolInv
<1>7. CASE StartDrain(c)
  <2>1. /\ UNCHANGED <<stage, drained, ticking>> /\ pool' = (IF pool = "open" THEN "closing" ELSE pool)
        /\ pc[c] = "stray" /\ pc' = [pc EXCEPT ![c] = "drain"]
    BY <1>7 DEF StartDrain, Goto
  <2>2. Held' = Held
    BY <2>1, HeldLent
  <2>3. CountInv'
    BY <2>1, <2>2 DEF PoolInv, CountInv
  <2>4. ~ticking
    BY <2>1 DEF PoolInv, RunInv, Shutting
  <2>5. Shutting(c)'
    BY <1>1, <2>1, <2>4 DEF Shutting
  <2>6. RunInv'
    BY <1>2, <2>1, <2>5 DEF Closing
  <2> QED BY <2>3, <2>6 DEF PoolInv
<1>8. CASE Drain(c)
  <2>1. /\ UNCHANGED <<stage, pool, ticking, teState, pc>> /\ drained' = drained + 1
        /\ Cardinality(Held) + drained < Capacity
    BY <1>8 DEF Drain, engineVars
  <2>2. Held' = Held
    BY <2>1, HeldLent
  <2>3. CountInv'
    BY <2>1, <2>2, HeldFinite, TxPoolAssumption, SMT DEF PoolInv, CountInv
  <2> QED BY <2>1, <2>3, RunStays DEF PoolInv
<1>9. CASE Drained(c)
  <2>1. /\ UNCHANGED <<stage, ticking>> /\ pool' = "closed" /\ drained' = 0
        /\ pool = "closing" => drained = Capacity
        /\ pc[c] = "drain" /\ pc' = [pc EXCEPT ![c] = "shut"]
    BY <1>9 DEF Drained, Goto
  <2>2. pool # "open" /\ ~ticking
    BY <2>1 DEF PoolInv, RunInv, Shutting
  <2>3. Held = {}
    <3>1. CASE pool = "closed"
      BY <3>1 DEF PoolInv, CountInv
    <3>2. CASE pool = "closing"
      <4>1. Cardinality(Held) = 0
        BY <2>1, <3>2, HeldFinite, TxPoolAssumption, SMT DEF PoolInv, CountInv
      <4> QED BY <4>1, HeldFinite, FS_EmptySet
    <3> QED BY <2>2, <3>1, <3>2 DEF PoolInv, CountInv
  <2>4. Held' = {}
    BY <2>1, <2>3, HeldLent
  <2>5. CountInv'
    BY <2>1, <2>4, FS_EmptySet, TxPoolAssumption, SMT DEF PoolInv, CountInv
  <2>6. Shutting(c)'
    BY <1>1, <2>1, <2>2 DEF Shutting
  <2>7. RunInv'
    BY <1>2, <2>1, <2>6 DEF Closing
  <2> QED BY <2>5, <2>7 DEF PoolInv
<1> QED BY <1>3, <1>4, <1>5, <1>6, <1>7, <1>8, <1>9 DEF CloseStep

(* A call of the engine starts; the tablet does nothing else to the pool.  *)
LEMMA TabletRun ==
  ASSUME EngineInv, PoolInv, TabletStep
  PROVE  PoolInv'
<1>1. UNCHANGED <<poolVars, teState>>
  BY DEF TabletStep, SetServingType, ManagerStep, FullStart, ServeNewType, Accepted, CloseAll,
      ClosedAll, Invoke, Call, CheckMySQL, CheckerStep, Checked, StopService, ShutdownStep,
      WaitForShutdown, Stopped, WaitRequests, Down, engineVars
<1>2. UNCHANGED <<stage, drained, pool, ticking, teState>>
  BY <1>1 DEF poolVars
<1>3. \/ pc' = pc
      \/ \E c \in Controllers : pc[c] = "idle" /\ \E l \in {"lock", "begins"} : Goto(c, l)
  <2>1. ASSUME NEW c \in Controllers, NEW m, Call(c, m)
        PROVE  pc[c] = "idle" /\ \E l \in {"lock", "begins"} : Goto(c, l)
    BY <2>1 DEF Call
  <2>2. CASE ServeNewType \/ CloseAll \/ \E c \in Controllers : WaitForShutdown(c)
    BY <2>1, <2>2, AtRest DEF ServeNewType, CloseAll, WaitForShutdown, Invoke
  <2>3. CASE UNCHANGED engineVars
    BY <2>3 DEF engineVars
  <2> QED
    BY <2>2, <2>3
    DEF TabletStep, SetServingType, ManagerStep, FullStart, Accepted, ClosedAll, CheckMySQL,
        CheckerStep, Checked, StopService, ShutdownStep, Stopped, WaitRequests, Down
<1>4. pc \in [Controllers -> Closing \cup {"idle", "begins", "lock", "signal"}]
  BY DEF EngineInv, EngineTypes
<1>5. \A c \in Controllers :
        pc'[c] = pc[c] \/ (pc[c] = "idle" /\ pc'[c] \in {"lock", "begins"})
  BY <1>3, <1>4 DEF Goto
<1>6. RunInv'
  BY <1>2, <1>5 DEF PoolInv, RunInv, Shutting, AtWork, Closing
<1> QED BY <1>2, <1>6, StageCount DEF PoolInv

LEMMA PoolInvInit == TabletInit => PoolInv
<1> SUFFICES ASSUME TabletInit PROVE PoolInv
  OBVIOUS
<1>1. /\ stage = [t \in Txs |-> "new"] /\ drained = 0 /\ pool = "closed" /\ ticking = FALSE
      /\ teState = "NotServing" /\ pc = [c \in Controllers |-> "idle"]
  BY DEF TabletInit, TxEngineInit, TxPoolInit
<1>2. Held = {}
  BY <1>1, HeldLent DEF Lent, LentStages
<1>3. CountInv
  BY <1>1, <1>2, FS_EmptySet, StageKinds, TxPoolAssumption, SMT DEF CountInv
<1>4. RunInv
  BY <1>1 DEF RunInv, AtWork, Shutting
<1> QED BY <1>3, <1>4 DEF PoolInv

LEMMA PoolInvStep ==
  ASSUME EngineInv, PoolInv, [TabletNext]_allVars
  PROVE  PoolInv'
<1>1. CASE TabletStep
  BY <1>1, TabletRun
<1>2. CASE RequestStep \/ PoolStep
  <2>1. UNCHANGED <<teState, pc, pool, ticking>>
    BY <1>2
    DEF RequestStep, AdmitBegin, AdmitUse, GetAsked, Gate, Use, Resolve, PoolStep, BeginStep,
        LimiterGet, CountWaiter, PoolGet, BeginFails, Register, Recycle, Finish, Again, Unregister,
        Conclude, Kill, poolVars, engineVars
  <2>2. CountInv'
    BY <1>2, RequestCount, PoolStepCount DEF PoolInv
  <2> QED BY <2>1, <2>2, RunStays DEF PoolInv
<1>3. ASSUME NEW c \in Controllers, EngineStep(c)
      PROVE  PoolInv'
  <2>1. CASE Redirect(c) \/ BlockUntilEnd(c)
    <3>1. CASE BlockUntilEnd(c)
      BY <3>1 DEF BlockUntilEnd, EngineInv, EngineTypes, Closing
    <3>2. CASE Redirect(c)
      <4>1. pc[c] = "lock" /\ teState = "Transitioning"
        BY <3>2 DEF Redirect, Locked
      <4>2. thread[c] \in Owning /\ Closes(c)
        BY <4>1, OneCaller DEF EngineInv
      <4> QED BY <4>1, <4>2 DEF Closes, Closing
    <3> QED BY <2>1, <3>1, <3>2
  <2> QED BY <1>3, <2>1, LockedRun, OpenRun, CloseRun DEF EngineStep
<1>4. CASE UNCHANGED allVars
  <2>1. UNCHANGED <<stage, drained, pool, ticking, teState, pc>>
    BY <1>4 DEF allVars, poolVars, engineVars
  <2> QED BY <2>1, StageCount, RunStays DEF PoolInv
<1> QED BY <1>1, <1>2, <1>3, <1>4 DEF TabletNext

LEMMA PoolInvHolds == TabletSpec => [](EngineInv /\ PoolInv)
<1>1. TabletInit => EngineInv /\ PoolInv
  BY EngineInvInit, PoolInvInit
<1>2. EngineInv /\ PoolInv /\ [TabletNext]_allVars => (EngineInv /\ PoolInv)'
  BY EngineInvStep, PoolInvStep
<1> QED BY <1>1, <1>2, PTL DEF TabletSpec

(* A closed pool of connections has lent none, and the pool and the killer *)
(* run whenever the engine accepts transactions.                           *)
THEOREM PoolIsFollowing == TabletSpec => []PoolFollows
<1>1. ASSUME EngineInv, PoolInv PROVE PoolFollows
  <2>1. pool = "closed" => Held = {}
    BY <1>1 DEF PoolInv, CountInv
  <2>2. ASSUME teState \in Accepting, stateLock = None PROVE pool = "open" /\ ticking
    <3>1. \A c \in Controllers : pc[c] \notin Closing
      BY <1>1, <2>2, TxPoolAssumption DEF EngineInv, Closes, Accepting
    <3> QED BY <1>1, <2>2, <3>1 DEF PoolInv, RunInv, AtWork, Accepting
  <2> QED BY <2>1, <2>2 DEF PoolFollows
<1> QED BY <1>1, PoolInvHolds, PTL

(* A tablet that has stopped serving holds nothing of the transaction      *)
(* pool, although Begin may overtake the close.                            *)
THEOREM StopLeavesNothing == TabletSpec => []StopIsClean
<1>1. ASSUME EngineInv, PoolInv PROVE StopIsClean
  <2> SUFFICES ASSUME tsState \in {"NotServing", "NotConnected"}
               PROVE  teState = "NotServing" /\ pool = "closed" /\ Held = {} /\ ~ticking
    BY DEF StopIsClean
  <2>1. \A c \in Controllers : thread[c] \notin Owning
    BY <1>1, TabletServerAssumption DEF EngineInv, OwnInv, Transient
  <2>2. \A c \in Controllers : pc[c] \notin Closing
    BY <1>1, <2>1, Others DEF Closing
  <2>3. teState = "NotServing"
    BY <1>1 DEF EngineInv
  <2> QED BY <1>1, <2>2, <2>3 DEF PoolInv, CountInv, RunInv, AtWork
<1> QED BY <1>1, PoolInvHolds, PTL

(* Tablet, engine and pool agree at every moment, whatever the manager,    *)
(* the checker, the killer and the clients overlap.                        *)
THEOREM TabletAlwaysAgrees == TabletSpec => []TabletAgrees
<1>1. TransitionOwned /\ ServingTypeMatches /\ PoolFollows => TabletAgrees
  BY DEF TabletAgrees
<1> QED BY <1>1, OneOwner, ModeMatches, PoolIsFollowing, PTL
-----------------------------------------------------------------------------
(* The requests of the tablet: what the last caller asked for is what its  *)
(* close is headed to, or has been reached, and the begins are as for the  *)
(* engine alone.                                                           *)
WantedInv ==
  /\ wanted \in EngineStates \ {"Transitioning"}
  /\ \A c \in Controllers : pc[c] \in Closing => wanted = Target[call[c]]
  /\ \A c \in Controllers : stateLock = c => Target[call[c]] # "ReadOnly"
  /\ teState # "Transitioning" /\ stateLock = None => teState = wanted

ServeInv == EngineInv /\ PoolInv /\ WantedInv /\ WriteInv

LEMMA ServeTypes == ServeInv => PlaceTypes
<1> SUFFICES ASSUME ServeInv PROVE PlaceTypes
  OBVIOUS
<1>1. /\ pc \in [Controllers -> Closing \cup {"idle", "begins", "lock", "signal"}]
      /\ call \in [Controllers -> DOMAIN Target] /\ stateLock \in Controllers \cup {None}
      /\ teState \in EngineStates
  BY DEF ServeInv, EngineInv, EngineTypes
<1>2. pc \in [Controllers -> Places]
  BY <1>1 DEF Closing, Places, Sweeping, Swept
<1>3. stage \in [Txs -> Stages] /\ wanted \in EngineStates \ {"Transitioning"}
  BY DEF ServeInv, PoolInv, CountInv, WantedInv
<1> QED BY <1>1, <1>2, <1>3 DEF PlaceTypes

LEMMA ServeInit == TabletInit => ServeInv
<1> SUFFICES ASSUME TabletInit PROVE ServeInv
  OBVIOUS
<1>1. EngineInv /\ PoolInv
  BY EngineInvInit, PoolInvInit
<1>2. TxEngineInit
  BY DEF TabletInit
<1>3. WriteInv
  BY <1>2, AloneInit DEF AloneInv
<1>4. WantedInv
  BY <1>2, TxPoolAssumption DEF TxEngineInit, WantedInv, EngineStates, Closing
<1> QED BY <1>1, <1>3, <1>4 DEF ServeInv

(* Nobody else closes while a caller finds the lock free and the engine    *)
(* not Transitioning.                                                      *)
LEMMA NobodyCloses ==
  ASSUME EngineInv, stateLock = None, teState # "Transitioning"
  PROVE  \A d \in Controllers : pc[d] \notin Closing
BY TxPoolAssumption DEF EngineInv, Closes

LEMMA EngineServes ==
  ASSUME ServeInv, NEW c \in Controllers, EngineStep(c)
  PROVE  WriteInv'
<1>1. PlaceTypes /\ EngineInv /\ PoolInv /\ WantedInv /\ WriteInv
  BY ServeTypes DEF ServeInv
<1>2. OpenFromNotServing(c) => Registered \subseteq Readers \cup overtook
  <2> SUFFICES ASSUME OpenFromNotServing(c) PROVE Registered = {}
    OBVIOUS
  <2>1. teState = "NotServing" /\ stateLock = None
    BY DEF OpenFromNotServing, Locked
  <2>2. pool = "closed"
    BY <1>1, <2>1, NobodyCloses DEF PoolInv, RunInv, AtWork
  <2>3. Held = {}
    BY <1>1, <2>2 DEF PoolInv, CountInv
  <2> QED BY <2>3 DEF Held, Registered, In
<1>3. StartTransition(c) => \A d \in Controllers : pc[d] \notin Swept
  <2> SUFFICES ASSUME StartTransition(c) PROVE \A d \in Controllers : pc[d] \notin Swept
    OBVIOUS
  <2>1. teState = "ReadWrite" /\ stateLock = None
    BY DEF StartTransition, Locked
  <2> QED BY <1>1, <2>1, NobodyCloses DEF Closing, Swept
<1>4. EndTransition(c) => teState = "Transitioning"
  BY <1>1, TxPoolAssumption DEF EndTransition, EngineInv, Closes, Closing
<1>5. EndLocked(c) => Target[call[c]] # "ReadOnly"
  BY <1>1 DEF EndLocked, WantedInv
<1> QED BY <1>1, <1>2, <1>3, <1>4, <1>5, CallWrites

LEMMA EngineWants ==
  ASSUME ServeInv, NEW c \in Controllers, EngineStep(c)
  PROVE  WantedInv'
<1>1. /\ pc \in [Controllers -> Places] /\ call \in [Controllers -> DOMAIN Target]
      /\ stateLock \in Controllers \cup {None} /\ None \notin Controllers
      /\ Target[call[c]] \in EngineStates \ {"Transitioning"}
      /\ EngineInv /\ WantedInv
  BY ServeTypes, TargetStates, TxPoolAssumption DEF ServeInv, PlaceTypes
<1>2. call' = call
  BY DEF EngineStep, WaitBegins, NothingToDo, OpenFromNotServing, Redirect, StartTransition,
       CloseLocked, BlockUntilEnd, EndLocked, EndTransition, CloseSignal,
       CloseStep, Spawn, FetchAll, EmptyInTime, RollbackNonBusy, RollbackDone, WaitForEmpty,
       Join, StopTicks, StartDrain, Drain, Drained, engineVars
<1>3. CASE CloseStep(c) \/ WaitBegins(c) \/ BlockUntilEnd(c) \/ CloseSignal(c)
  <2>1. UNCHANGED <<teState, stateLock, wanted>>
    BY <1>3 DEF WaitBegins, BlockUntilEnd, CloseSignal, CloseStep, Spawn, FetchAll, EmptyInTime,
         RollbackNonBusy, RollbackDone, WaitForEmpty, Join, StopTicks, StartDrain, Drain, Drained,
         engineVars, history
  <2>2. \A d \in Controllers : pc'[d] \in Closing => pc[d] \in Closing
    BY <1>1, <1>3 DEF WaitBegins, BlockUntilEnd, CloseSignal, CloseStep, Spawn, FetchAll,
         EmptyInTime, RollbackNonBusy, RollbackDone, WaitForEmpty, Join, StopTicks, StartDrain,
         Drain, Drained, engineVars, Goto, Closing
  <2> QED BY <1>1, <1>2, <2>1, <2>2 DEF WantedInv
<1>4. CASE NothingToDo(c) \/ OpenFromNotServing(c)
  <2>1. /\ stateLock = None /\ stateLock' = None
        /\ teState # "Transitioning" /\ teState' = Target[call[c]] /\ wanted' = Target[call[c]]
    BY <1>1, <1>4 DEF NothingToDo, OpenFromNotServing, Locked
  <2>2. \A d \in Controllers : pc'[d] \notin Closing
    BY <1>1, <1>4, <2>1, NobodyCloses DEF NothingToDo, OpenFromNotServing, Goto, Closing
  <2> QED BY <1>1, <2>1, <2>2 DEF WantedInv
<1>5. CASE Redirect(c)
  <2>1. pc[c] = "lock" /\ teState = "Transitioning"
    BY <1>5 DEF Redirect, Locked
  <2>2. thread[c] \in Owning /\ Closes(c)
    BY <1>1, <2>1, OneCaller DEF EngineInv
  <2> QED BY <2>1, <2>2 DEF Closes, Closing
<1>6. CASE StartTransition(c)
  <2>1. /\ stateLock = None /\ stateLock' = None
        /\ teState = "ReadWrite" /\ teState' = "Transitioning" /\ wanted' = Target[call[c]]
    BY <1>6 DEF StartTransition, Locked
  <2>2. \A d \in Controllers : pc'[d] \in Closing => d = c
    BY <1>1, <1>6, <2>1, NobodyCloses DEF StartTransition, Closing
  <2> QED BY <1>1, <1>2, <2>1, <2>2 DEF WantedInv
<1>7. CASE CloseLocked(c)
  <2>1. /\ stateLock = None /\ stateLock' = c /\ pc[c] = "lock"
        /\ teState' = teState /\ wanted' = Target[call[c]]
        /\ call[c] = "StopGently" \/ Target[call[c]] # "ReadOnly"
    BY <1>7 DEF CloseLocked, Locked
  <2>2. teState # "Transitioning" /\ Target[call[c]] # "ReadOnly"
    BY <1>1, <2>1, OneCaller, Targets DEF EngineInv, Closes, Closing
  <2>3. \A d \in Controllers : pc'[d] \in Closing => d = c
    BY <1>1, <1>7, <2>1, <2>2, NobodyCloses DEF CloseLocked, Goto, Closing
  <2> QED BY <1>1, <1>2, <2>1, <2>2, <2>3 DEF WantedInv
<1>8. CASE EndLocked(c) \/ EndTransition(c)
  <2>1. /\ pc[c] = "shut" /\ stateLock' = None /\ UNCHANGED wanted
        /\ pc' \in {[pc EXCEPT ![c] = "idle"], [pc EXCEPT ![c] = "signal"]}
    BY <1>8 DEF EndLocked, EndTransition, history, Goto
  <2>2. teState' = Target[call[c]] /\ wanted = Target[call[c]]
    BY <1>1, <1>8, <2>1 DEF EndLocked, EndTransition, EngineInv, Closes, WantedInv, Closing
  <2>3. \A d \in Controllers : pc'[d] \in Closing => pc[d] \in Closing
    BY <1>1, <2>1 DEF Closing
  <2> QED BY <1>1, <1>2, <2>1, <2>2, <2>3 DEF WantedInv
<1> QED BY <1>3, <1>4, <1>5, <1>6, <1>7, <1>8 DEF EngineStep

(* A step that moves no caller of the engine.                              *)
LEMMA CallersStay ==
  ASSUME ServeInv, Settles, UNCHANGED <<teState, stateLock, call, pc, wanted, overtook>>
  PROVE  WantedInv' /\ WriteInv'
<1>1. WantedInv /\ WriteInv
  BY DEF ServeInv
<1>2. WantedInv'
  BY <1>1 DEF WantedInv
<1> QED BY <1>1, <1>2, WriteFrame

LEMMA RequestServes ==
  ASSUME ServeInv, RequestStep \/ PoolStep
  PROVE  WantedInv' /\ WriteInv'
<1>1. PlaceTypes /\ WantedInv /\ WriteInv /\ stage \in [Txs -> Stages]
  BY ServeTypes DEF ServeInv, PlaceTypes
<1>2. CASE \E t \in Clients : Gate(t, "request")
  <2>1. PICK t \in Clients : Gate(t, "request")
    BY <1>2
  <2>2. WriteInv'
    BY <1>1, <2>1, GateWrites DEF BeginStages, InPool
  <2>3. UNCHANGED <<teState, stateLock, call, pc, wanted>>
    BY <2>1 DEF Gate
  <2> QED BY <1>1, <2>2, <2>3 DEF WantedInv
<1>3. CASE PoolStep \/ \E t \in Txs : (Use(t) \/ Resolve(t)) /\ UNCHANGED engineVars
  <2>1. Settles
    BY <1>1, <1>3, PoolStepSettles
  <2>2. UNCHANGED <<teState, stateLock, call, pc, wanted, overtook>>
    BY <1>3 DEF PoolStep, engineVars, history
  <2> QED BY <2>1, <2>2, CallersStay
<1>4. CASE \E t \in Clients : AdmitBegin(t)
  <2>1. PICK t \in Clients : AdmitBegin(t)
    BY <1>4
  <2>2. stage' = [stage EXCEPT ![t] = "request"] /\ UNCHANGED engineVars /\ t \in Txs
    BY <2>1 DEF AdmitBegin, Txs
  <2>3. Settles
    BY <1>1, <2>2 DEF Settles, Stages, BeginStages, InPool
  <2>4. UNCHANGED <<teState, stateLock, call, pc, wanted, overtook>>
    BY <2>2 DEF engineVars, history
  <2> QED BY <2>3, <2>4, CallersStay
<1>5. CASE UNCHANGED <<poolVars, engineVars>>
  <2>1. UNCHANGED <<stage, teState, stateLock, call, pc, wanted, overtook>>
    BY <1>5 DEF poolVars, engineVars, history
  <2> QED BY <1>1, <2>1, StageSettles, CallersStay
<1> QED BY <1>2, <1>3, <1>4, <1>5 DEF RequestStep, AdmitUse, GetAsked, Txs

(* StopGently goes to the lock without waiting for the begins, the other   *)
(* calls wait.                                                             *)
LEMMA CallServes ==
  ASSUME ServeInv, NEW c \in Controllers, NEW m, Call(c, m)
  PROVE  WantedInv' /\ WriteInv'
<1>1. PlaceTypes /\ WantedInv /\ WriteInv /\ EngineInv
  BY ServeTypes DEF ServeInv
<1>2. /\ pc[c] = "idle" /\ call' = [call EXCEPT ![c] = m]
      /\ pc' = [pc EXCEPT ![c] = IF m = "StopGently" THEN "lock" ELSE "begins"]
      /\ UNCHANGED <<stage, teState, stateLock, wanted, overtook>>
  BY DEF Call, Goto, poolVars, history
<1>3. stateLock # c
  BY <1>1, <1>2 DEF EngineInv, Closes, Closing
<1>4. \A d \in Controllers :
        /\ pc'[d] = "lock" /\ call'[d] # "StopGently" =>
             pc[d] = "lock" /\ call[d] # "StopGently"
        /\ pc'[d] \in Swept => pc[d] \in Swept
        /\ pc'[d] \in Closing => pc[d] \in Closing /\ call'[d] = call[d]
        /\ stateLock = d => call'[d] = call[d]
  BY <1>1, <1>2, <1>3 DEF PlaceTypes, Swept, Closing
<1>5. Begins' = Begins /\ Registered' = Registered
  BY <1>2 DEF Begins, Registered, In
<1>6. WriteInv'
  BY <1>1, <1>2, <1>4, <1>5 DEF WriteInv
<1>7. WantedInv'
  BY <1>1, <1>2, <1>4 DEF WantedInv
<1> QED BY <1>6, <1>7

LEMMA TabletServes ==
  ASSUME ServeInv, TabletStep
  PROVE  WantedInv' /\ WriteInv'
<1>1. Manager \in Controllers
  BY TabletServerAssumption
<1>2. CASE ServeNewType \/ CloseAll \/ \E c \in Controllers : WaitForShutdown(c)
  BY <1>1, <1>2, CallServes DEF ServeNewType, CloseAll, WaitForShutdown, Invoke
<1>3. CASE UNCHANGED <<poolVars, engineVars>>
  <2>1. UNCHANGED <<stage, teState, stateLock, call, pc, wanted, overtook>>
    BY <1>3 DEF poolVars, engineVars, history
  <2> QED BY <2>1, ServeTypes, StageSettles, CallersStay DEF PlaceTypes
<1> QED
  BY <1>2, <1>3
  DEF TabletStep, SetServingType, ManagerStep, FullStart, Accepted, ClosedAll, CheckMySQL,
      CheckerStep, Checked, StopService, ShutdownStep, Stopped, WaitRequests, Down

LEMMA ServeInvHolds == TabletSpec => []ServeInv
<1>1. TabletInit => ServeInv
  BY ServeInit
<1>2. ASSUME ServeInv, [TabletNext]_allVars PROVE ServeInv'
  <2>1. EngineInv' /\ PoolInv'
    BY <1>2, EngineInvStep, PoolInvStep DEF ServeInv
  <2>2. CASE UNCHANGED allVars
    <3>1. UNCHANGED <<stage, teState, stateLock, call, pc, wanted, overtook>>
      BY <2>2 DEF allVars, poolVars, engineVars, history
    <3>2. Settles
      BY <1>2, <3>1, ServeTypes, StageSettles DEF PlaceTypes
    <3>3. WantedInv' /\ WriteInv'
      BY <1>2, <3>1, <3>2, CallersStay
    <3> QED BY <2>1, <3>3 DEF ServeInv
  <2>3. CASE TabletNext
    <3>1. WantedInv' /\ WriteInv'
      BY <1>2, <2>3, TabletServes, RequestServes, EngineServes, EngineWants DEF TabletNext
    <3> QED BY <2>1, <3>1 DEF ServeInv
  <2> QED BY <1>2, <2>2, <2>3
<1> QED BY <1>1, <1>2, PTL DEF TabletSpec

(* LastRequestWins in the tablet, where StopGently is among the calls:     *)
(* when the manager and the checker have returned from the engine it is in *)
(* the state that the last of them asked for.                              *)
THEOREM TabletServesLastRequest == TabletSpec => []LastRequestWins
<1>1. ASSUME ServeInv PROVE LastRequestWins
  <2> SUFFICES ASSUME \A c \in Controllers : pc[c] = "idle" PROVE teState = wanted
    BY DEF LastRequestWins
  <2>1. stateLock = None
    BY <1>1 DEF ServeInv, EngineInv, EngineTypes, Closes, Closing
  <2>2. teState # "Transitioning"
    <3>1. CASE tsState \in Transient
      BY <1>1, <3>1, AtRest, TabletServerAssumption DEF ServeInv, EngineInv, OwnInv
    <3>2. CASE tsState \notin Transient
      BY <1>1, <3>2, AtRest DEF ServeInv
    <3> QED BY <3>1, <3>2
  <2> QED BY <1>1, <2>1, <2>2 DEF ServeInv, WantedInv
<1> QED BY <1>1, ServeInvHolds, PTL

(* NoWritesInReadOnly in the tablet: a replica has no read-write           *)
(* transaction open, except one whose Begin came between the wait of the   *)
(* call that made it ReadOnly and its lock.                                *)
THEOREM TabletHoldsNoWrites == TabletSpec => []NoWritesInReadOnly
<1>1. ServeInv => NoWritesInReadOnly
  BY DEF ServeInv, WriteInv, NoWritesInReadOnly
<1> QED BY <1>1, ServeInvHolds, PTL
=============================================================================
