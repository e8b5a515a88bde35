----------------------------- MODULE TabletServer ----------------------------
(***************************************************************************)
(* The serving state of a vttablet and the requests it admits, composed    *)
(* with the transaction engine.  Two threads change the state: the manager *)
(* calls SetServingType, one call at a time, and the checker is the        *)
(* goroutine of CheckMySQL, of which there is one at a time too.           *)
(*                                                                         *)
(* thread[c] is "none" or: "start" (fullStart before serveNewType),        *)
(* "serve", "accept" (serveNewType before and in the call of the engine),  *)
(* "stop", "stopping" (waitForShutdown likewise), "requests"               *)
(* (requests.Wait), "down" (before the transition that ends the shutdown), *)
(* "closeall", "closing" (closeAll likewise); for the checker "reserve"    *)
(* (the check of a serving tablet, which holds a request), "probe" (the    *)
(* check of one that does not serve) and "service" (StopService starts).   *)
(*                                                                         *)
(* The other engines of the tablet, alsoAllow, lame duck mode and the time *)
(* bomb of a long shutdown are left out.                                   *)
(***************************************************************************)
EXTENDS TxEngine

CONSTANTS Manager, Checker

ASSUME TabletServerAssumption == Manager # Checker /\ Controllers = {Manager, Checker}

VARIABLES
  tsState,  \* TabletServer.state
  tsType,   \* target.TabletType
  thread,
  aim,      \* the tablet type that a client's transaction was begun on
  asked     \* clients with an admitted request that has not got the transaction yet

tabletVars == <<tsState, tsType, thread, aim, asked>>
allVars == <<poolVars, engineVars, tabletVars>>

TabletTypes == {"MASTER", "REPLICA"}
Transient   == {"Transitioning", "ShuttingDown"}
Owning      == {"start", "serve", "accept", "stop", "stopping", "requests", "down",
                "closeall", "closing", "probe"}

TabletTypeOK ==
  /\ TxEngineTypeOK
  /\ tsState \in Transient \cup {"NotConnected", "NotServing", "Serving"}
  /\ tsType \in TabletTypes
  /\ thread \in [Controllers -> Owning \cup {"none", "reserve", "service"}]
  /\ aim \in [Clients -> TabletTypes]
  /\ asked \subseteq Clients

TabletInit ==
  /\ TxEngineInit
  /\ tsState = "NotConnected" /\ tsType = "REPLICA"
  /\ thread = [c \in Controllers |-> "none"]
  /\ aim = [t \in Clients |-> "REPLICA"]
  /\ asked = {}

At(c, l) == thread[c] = l
To(c, l) == thread' = [thread EXCEPT ![c] = l]
-----------------------------------------------------------------------------
(* decideAction.  The type changes even if the call is refused. *)
SetServingType(type, serving) ==
  /\ At(Manager, "none")
  /\ ~(serving /\ type = tsType /\ tsState = "Serving")
  /\ tsType' = type
  /\ \/ /\ tsState = "NotConnected" /\ serving
        /\ tsState' = "Transitioning" /\ To(Manager, "start")
     \/ /\ tsState \in {"NotServing", "Serving"} /\ serving
        /\ tsState' = "Transitioning" /\ To(Manager, "serve")
     \/ /\ tsState = "Serving" /\ ~serving
        /\ tsState' = "ShuttingDown" /\ To(Manager, "stop")
     \/ /\ tsState \in Transient \/ (tsState # "Serving" /\ ~serving)
        /\ UNCHANGED <<tsState, thread>>
  /\ UNCHANGED <<poolVars, engineVars, aim, asked>>

(* fullStart: everything opens, or something fails and closeAll follows. *)
FullStart ==
  /\ At(Manager, "start")
  /\ To(Manager, "serve") \/ To(Manager, "closeall")
  /\ UNCHANGED <<poolVars, engineVars, tsState, tsType, aim, asked>>

(* A thread calls the engine and waits for its return. *)
Invoke(c, from, m, to) ==
  /\ At(c, from) /\ Call(c, m) /\ To(c, to)
  /\ UNCHANGED <<tsState, tsType, aim, asked>>

ServeNewType ==
  Invoke(Manager, "serve",
         IF tsType = "MASTER" THEN "AcceptReadWrite" ELSE "AcceptReadOnly", "accept")

(* The rest of serveNewType.  On a master txThrottler.Open may fail. *)
Accepted ==
  /\ At(Manager, "accept") /\ pc[Manager] = "idle"
  /\ \/ tsState' = "Serving" /\ To(Manager, "none")
     \/ tsType = "MASTER" /\ To(Manager, "closeall") /\ UNCHANGED tsState
  /\ UNCHANGED <<poolVars, engineVars, tsType, aim, asked>>

CloseAll == Invoke(Manager, "closeall", "StopGently", "closing")

ClosedAll ==
  /\ At(Manager, "closing") /\ pc[Manager] = "idle"
  /\ tsState' = "NotConnected" /\ To(Manager, "none")
  /\ UNCHANGED <<poolVars, engineVars, tsType, aim, asked>>
-----------------------------------------------------------------------------
(* waitForShutdown, then the state of gracefulStop or of StopService. *)
Requests == In({"request", "busy"} \cup BeginStages) \cup asked
              \cup {t \in In({"ending"}) : by[t] = None}

(* Faulty variant: the engine is not stopped. *)
WaitForRequestsOnly(c) ==
  /\ At(c, "stop") /\ To(c, "requests")
  /\ UNCHANGED <<poolVars, engineVars, tsState, tsType, aim, asked>>

WaitForShutdown(c) == Invoke(c, "stop", "StopGently", "stopping")

Stopped(c) ==
  /\ At(c, "stopping") /\ pc[c] = "idle"
  /\ To(c, "requests")
  /\ UNCHANGED <<poolVars, engineVars, tsState, tsType, aim, asked>>

WaitRequests(c) ==
  /\ At(c, "requests")
  /\ Requests = {} /\ ~At(Checker, "reserve")
  /\ To(c, "down")
  /\ UNCHANGED <<poolVars, engineVars, tsState, tsType, aim, asked>>

Down(c) ==
  /\ At(c, "down")
  /\ tsState' = IF c = Manager THEN "NotServing" ELSE "NotConnected"
  /\ To(c, "none")
  /\ UNCHANGED <<poolVars, engineVars, tsType, aim, asked>>

(* CheckMySQL and isMySQLReachable. *)
CheckMySQL ==
  /\ At(Checker, "none")
  /\ \/ tsState = "Serving" /\ To(Checker, "reserve") /\ UNCHANGED tsState
     \/ /\ tsState = "NotServing" /\ tsState' = "Transitioning"
        /\ To(Checker, "probe")
  /\ UNCHANGED <<poolVars, engineVars, tsType, aim, asked>>

Checked ==
  /\ \/ At(Checker, "reserve") /\ UNCHANGED tsState
     \/ At(Checker, "probe") /\ tsState' = "NotServing"
  /\ To(Checker, "none") \/ To(Checker, "service")
  /\ UNCHANGED <<poolVars, engineVars, tsType, aim, asked>>

(* Faulty variant: the state is not looked at again. *)
StopServiceAlways ==
  /\ At(Checker, "service")
  /\ tsState' = "ShuttingDown" /\ To(Checker, "stop")
  /\ UNCHANGED <<poolVars, engineVars, tsType, aim, asked>>

StopService ==
  /\ At(Checker, "service")
  /\ \/ /\ tsState \in {"Serving", "NotServing"}
        /\ tsState' = "ShuttingDown" /\ To(Checker, "stop")
     \/ /\ tsState \notin {"Serving", "NotServing"}
        /\ To(Checker, "none") /\ UNCHANGED tsState
  /\ UNCHANGED <<poolVars, engineVars, tsType, aim, asked>>

ManagerStep == FullStart \/ ServeNewType \/ Accepted \/ CloseAll \/ ClosedAll
CheckerStep == Checked \/ StopService
ShutdownStep(c) == WaitForShutdown(c) \/ Stopped(c) \/ WaitRequests(c) \/ Down(c)

TabletStep ==
  \/ \E type \in TabletTypes, serving \in BOOLEAN : SetServingType(type, serving)
  \/ ManagerStep \/ CheckMySQL \/ CheckerStep
  \/ \E c \in Controllers : ShutdownStep(c)
-----------------------------------------------------------------------------
(* startRequest. *)
AdmitBegin(t) ==
  /\ stage[t] = "new" /\ tsState = "Serving"
  /\ stage' = [stage EXCEPT ![t] = "request"]
  /\ aim' = [aim EXCEPT ![t] = tsType]
  /\ UNCHANGED <<by, limiter, pool, drained, ticking, engineVars, tsState, tsType, thread, asked>>

(* allowOnShutdown: a request on an open transaction. *)
Admits(type) == tsState \in {"Serving", "ShuttingDown"} /\ tsType = type

AdmitUse(t) ==
  /\ stage[t] = "idle" /\ t \notin asked /\ Admits(aim[t])
  /\ asked' = asked \cup {t}
  /\ UNCHANGED <<poolVars, engineVars, tsState, tsType, thread, aim>>

(* TxPool.Get finds the transaction, or it is in use or gone. *)
GetAsked(t) ==
  /\ t \in asked
  /\ Use(t) \/ (stage[t] # "idle" /\ UNCHANGED poolVars)
  /\ asked' = asked \ {t}
  /\ UNCHANGED <<engineVars, tsState, tsType, thread, aim>>

RequestStep ==
  \/ \E t \in Clients : \/ AdmitBegin(t) \/ AdmitUse(t) \/ GetAsked(t)
                       \/ (Gate(t, "request") /\ UNCHANGED tabletVars)
  \/ \E t \in Redo : Admits("MASTER") /\ Resolve(t) /\ UNCHANGED <<engineVars, tabletVars>>

TabletNext ==
  \/ TabletStep \/ RequestStep
  \/ (PoolStep \/ \E c \in Controllers : EngineStep(c)) /\ UNCHANGED tabletVars

TabletSpec == TabletInit /\ [][TabletNext]_allVars

(* The threads and the requests that were admitted go on; a client that    *)
(* keeps using its transaction ends it some day, and the killer ends the   *)
(* transaction of one that does not.                                       *)
TabletFairness ==
  /\ WF_allVars(ManagerStep) /\ WF_allVars(CheckerStep)
  /\ \A c \in Controllers : /\ WF_allVars(ShutdownStep(c))
                            /\ WF_allVars(EngineStep(c) /\ UNCHANGED tabletVars)
  /\ \A t \in Clients :
       /\ WF_allVars(Gate(t, "request") /\ UNCHANGED tabletVars)
       /\ WF_allVars(BeginStep(t) /\ UNCHANGED <<engineVars, tabletVars>>)
       /\ WF_allVars(GetAsked(t))
       /\ SF_allVars(Finish(t) /\ UNCHANGED <<engineVars, tabletVars>>)
  /\ \A u \in Txs :
       WF_allVars((Unregister(u) \/ Conclude(u)) /\ UNCHANGED <<engineVars, tabletVars>>)
  /\ WF_allVars(Kill /\ UNCHANGED <<engineVars, tabletVars>>)
-----------------------------------------------------------------------------
(* A transition has one owner: while the tablet is Transitioning or        *)
(* ShuttingDown exactly one thread is going to take it out of that state,  *)
(* and in the other states none is, although the checker and the manager   *)
(* both change the state and neither waits for the other.                  *)
TransitionOwned ==
  \E c \in Controllers :
    /\ \A d \in Controllers \ {c} : thread[d] \notin Owning
    /\ thread[c] \in Owning <=> tsState \in Transient

(* A tablet that serves has its engine in the mode of its type, although   *)
(* decideAction changes the type of a call that it then refuses.           *)
ServingTypeMatches ==
  tsState = "Serving" =>
    teState = (IF tsType = "MASTER" THEN "ReadWrite" ELSE "ReadOnly")

(* Tablet, engine and pool agree: a transition has one owner, a tablet     *)
(* that serves has its engine in the mode of its type, and the pool is as  *)
(* the engine needs it.                                                    *)
TabletAgrees == TransitionOwned /\ ServingTypeMatches /\ PoolFollows

(* A tablet that has stopped serving holds nothing of the transaction      *)
(* pool, even if a Begin overtook the close.                               *)
StopIsClean ==
  tsState \in {"NotServing", "NotConnected"} =>
    teState = "NotServing" /\ pool = "closed" /\ Held = {} /\ ~ticking

(* A transition ends: nobody waits for ever in requests.Wait, for the lock *)
(* of the engine or for the pool, unless a transaction was left that only  *)
(* its client, or nobody, can end.                                         *)
TransitionEnds ==
  tsState \in Transient ~> tsState \notin Transient \/ Abandoned # {}
=============================================================================
