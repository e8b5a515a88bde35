----------------------------- MODULE TwoPCProofs -----------------------------
(***************************************************************************)
(* Proofs about TwoPC for every set of participants and every number of    *)
(* concurrent Resolve calls and faults.  Then that two phase commit keeps  *)
(* its promise: TwoPC implements AtomicCommit, and what a caller is told of*)
(* a commit is true.                                                       *)
(***************************************************************************)
EXTENDS TwoPC, TLAPS

(* The backends that are tried on a leaf, and the time they may take.      *)
USE ZenonT(10), SMTT(20)

USE DEF Shards, Callers, Writers

(* The types of the three variables of the calls, and how the helpers that *)
(* change them preserve these types.                                       *)
CallsType ==
  /\ calls \subseteq Call
  /\ pc \in [Callers -> Ops \cup {"idle", "done"}]
  /\ got \in [Callers -> [Shards -> Replies]]

(* runSessions: sending an operation to its targets keeps the types.       *)
LEMMA EnterType ==
  ASSUME CallsType, NEW c \in Callers, NEW op \in Ops, Enter(c, op)
  PROVE  CallsType'
<1>1. Targets(op) \subseteq Shards
  BY ConstantsAssumption DEF Targets, Ops, MMOps, PartOps
<1>2. \A s \in Targets(op) : [by |-> c, op |-> op, at |-> s, step |-> "sent"] \in Call
  BY <1>1 DEF Call, Steps
<1>3. [s \in Shards |-> IF s \in Targets(op) THEN "wait" ELSE "unset"] \in [Shards -> Replies]
  BY DEF Replies
<1> QED BY <1>2, <1>3 DEF CallsType, Enter

(* Leaving an operation keeps the types.                                   *)
LEMMA FinishType ==
  ASSUME CallsType, NEW c \in Callers, Finish(c)
  PROVE  CallsType'
<1>1. [s \in Shards |-> "unset"] \in [Shards -> Replies]
  BY DEF Replies
<1> QED BY <1>1 DEF CallsType, Finish

(* A reply keeps the types.                                                *)
LEMMA ReplyType ==
  ASSUME CallsType, NEW k \in calls, NEW v \in Replies, Reply(k, v)
  PROVE  CallsType'
<1>1. k \in Call /\ k.at \in Shards
  BY DEF CallsType, Call
<1>2. CASE k.by = Late
  BY <1>2 DEF CallsType, Reply
<1>3. CASE k.by # Late
  <2>1. k.by \in Callers
    BY <1>1, <1>3 DEF Call
  <2>2. got' = [got EXCEPT ![k.by][k.at] = v]
    BY <1>3 DEF Reply
  <2>3. got' \in [Callers -> [Shards -> Replies]]
    BY <1>1, <2>1, <2>2 DEF CallsType
  <2> QED BY <2>3 DEF CallsType, Reply
<1> QED BY <1>2, <1>3

(* A handler's next step keeps the types.                                  *)
LEMMA AdvanceType ==
  ASSUME CallsType, NEW k \in calls, NEW s \in Steps, Advance(k, s)
  PROVE  CallsType'
<1>1. [by |-> k.by, op |-> k.op, at |-> k.at, step |-> s] \in Call
  BY DEF CallsType, Call
<1> QED BY <1>1 DEF CallsType, Advance

(* Losing all calls of a shard keeps the types.                            *)
LEMMA DropType ==
  ASSUME CallsType, NEW s \in Shards, DropCalls(s)
  PROVE  CallsType'
<1>1. got' \in [Callers -> [Shards -> Replies]]
  BY DEF CallsType, DropCalls, Replies
<1> QED BY <1>1 DEF CallsType, DropCalls

(* Giving up on a call keeps the types.                                    *)
LEMMA TimeoutType ==
  ASSUME CallsType, NEW k \in calls, Timeout(k)
  PROVE  CallsType'
<1>1. [by |-> Late, op |-> k.op, at |-> k.at, step |-> k.step] \in Call /\ k.by \in Callers /\ k.at \in Shards
  BY DEF CallsType, Call, Timeout
<1>2. got' \in [Callers -> [Shards -> Replies]]
  BY <1>1 DEF CallsType, Timeout, Replies
<1> QED BY <1>1, <1>2 DEF CallsType, Timeout

(* LocalTx and Fault only count faults.                                    *)
LEMMA FaultsType ==
  ASSUME faults \in Nat
  PROVE  /\ Fault => faults' \in Nat
         /\ NoFault => faults' \in Nat
         /\ \A done \in BOOLEAN, r \in {"ok", "err"} : LocalTx(done, r) => faults' \in Nat
BY SMT DEF Fault, NoFault, LocalTx

(* The steps of the callers keep the types (commit2PC, Resolve, watchdog). *)
LEMMA CallerType ==
  ASSUME TypeOK, GateStep \/ \E r \in Resolvers : ResolverStep(r)
  PROVE  TypeOK'
<1> DEFINE E(c) == \E op \in Ops : Enter(c, op)
<1>1. \E c \in Callers : E(c) \/ Finish(c)
  <2>1. ASSUME NEW c \in Callers, Resolve(c) PROVE E(c) \/ Finish(c)
    BY <2>1 DEF Resolve, AfterRead, AfterSetRollback, AfterParticipants, AfterConclude,
                Ops, MMOps, PartOps
  <2>2. CASE GateStep
    BY <2>1, <2>2 DEF GateStep, Commit2PC, AfterCreate, AfterRollback, AfterPrepare,
                AfterStartCommit, Ops, MMOps, PartOps
  <2>3. ASSUME NEW r \in Resolvers, ResolverStep(r) PROVE E(r) \/ Finish(r)
    BY <2>1, <2>3 DEF ResolverStep, Watchdog, Ops, MMOps
  <2> QED BY <2>2, <2>3
<1>2. CallsType
  BY DEF TypeOK, CallsType
<1>3. CallsType' /\ UNCHANGED <<mmVars, partVars, faults>>
  BY <1>1, <1>2, EnterType, FinishType DEF Enter, Finish
<1> QED BY <1>3 DEF TypeOK, CallsType, mmVars, partVars

(* The handlers at the metadata manager keep the types.                    *)
LEMMA HandleMMType ==
  ASSUME TypeOK, NEW k \in calls, HandleMM(k)
  PROVE  TypeOK'
<1> USE FaultsType
<1>0. CallsType BY DEF TypeOK, CallsType
<1>1. CallsType'
  <2>1. (\E v \in Replies : Reply(k, v)) \/ (\E s \in Steps : Advance(k, s))
    BY DEF HandleMM, CreateTransaction, StartCommitGet, StartCommit, SetRollbackTx, SetRollback,
           ConcludeTransaction, ReadTransaction, RollbackMM, Replies, Steps, TypeOK
  <2> QED BY <1>0, <2>1, ReplyType, AdvanceType
<1>2. UNCHANGED partVars
  BY DEF HandleMM, CreateTransaction, StartCommitGet, StartCommit, SetRollbackTx, SetRollback,
         ConcludeTransaction, ReadTransaction, RollbackMM
<1>3. faults' \in Nat
  BY DEF HandleMM, CreateTransaction, StartCommitGet, StartCommit, SetRollbackTx, SetRollback,
         ConcludeTransaction, ReadTransaction, RollbackMM, TypeOK
<1>4. /\ dt' \in DTStates
      /\ decision' \in {"none", "ROLLBACK", "COMMIT"}
      /\ mmTx' \in {"open", "busy", "committed", "gone"}
  BY DEF HandleMM, CreateTransaction, StartCommitGet, StartCommit, SetRollbackTx, SetRollback,
         ConcludeTransaction, ReadTransaction, RollbackMM, Transition, TypeOK, mmVars, DTStates
<1> QED BY <1>1, <1>2, <1>3, <1>4 DEF TypeOK, CallsType, partVars

(* The handlers at a participant keep the types.                           *)
LEMMA HandleParticipantType ==
  ASSUME TypeOK, NEW k \in calls, HandleParticipant(k)
  PROVE  TypeOK'
<1> USE FaultsType
<1> USE DEF HandleParticipant, PrepareGet, PreparePut, PrepareSaveRedo, CommitPreparedFetch,
      CommitPreparedCommit, CommitPreparedForget, SetFailed, MarkFailed,
      RollbackPreparedRedo, RollbackPreparedFetch, RollbackTx, Reject
<1>0. CallsType BY DEF TypeOK, CallsType
<1>1. CallsType'
  <2>1. (\E v \in Replies : Reply(k, v)) \/ (\E s \in Steps : Advance(k, s))
    BY DEF Replies, Steps
  <2> QED BY <1>0, <2>1, ReplyType, AdvanceType
<1>2. UNCHANGED mmVars
  OBVIOUS
<1>3. faults' \in Nat
  BY DEF TypeOK
<1>4. /\ tx' \in [Participants -> {"open", "busy", "prepared", "committing", "gone"}]
      /\ live' \in [Participants -> {"serving", "stopping", "down"}]
  BY DEF TypeOK, partVars
<1>5. redo' \in [Participants -> {"none", "prepared", "failed"}]
  BY SMT DEF TypeOK, partVars
<1>6. reserved' \in [Participants -> {"none", "committing", "failed"}]
  BY SMT DEF TypeOK, partVars
<1>7. committed' \in [Participants -> BOOLEAN]
  BY DEF TypeOK, partVars
<1> QED BY <1>1, <1>2, <1>3, <1>4, <1>5, <1>6, <1>7 DEF TypeOK, CallsType, mmVars

(* Timeouts, crashes, restarts and shutdowns keep the types.               *)
LEMMA EnvironmentType ==
  ASSUME TypeOK,
         \/ RestartMM \/ KillMMTx \/ \E k \in calls : Timeout(k)
         \/ \E p \in Participants : Crash(p) \/ StopGently(p) \/ StopDone(p) \/ Open(p) \/ KillTx(p)
  PROVE  TypeOK'
<1> USE FaultsType
<1>0. CallsType BY DEF TypeOK, CallsType
<1>1. CASE RestartMM
  <2>1. CallsType' BY <1>0, <1>1, DropType DEF RestartMM
  <2> QED BY <1>1, <2>1 DEF RestartMM, TypeOK, CallsType, partVars
<1>2. CASE KillMMTx
  BY <1>2 DEF KillMMTx, TypeOK, partVars
<1>3. CASE \E k \in calls : Timeout(k)
  <2>1. CallsType' BY <1>0, <1>3, TimeoutType
  <2> QED BY <1>3, <2>1 DEF Timeout, TypeOK, CallsType, partVars, mmVars
<1>4. ASSUME NEW p \in Participants, Crash(p) PROVE TypeOK'
  <2>1. CallsType' BY <1>0, <1>4, DropType DEF Crash
  <2> QED BY <1>4, <2>1 DEF Crash, TypeOK, CallsType, mmVars
<1>5. ASSUME NEW p \in Participants, StopGently(p) PROVE TypeOK'
  BY <1>5 DEF StopGently, TypeOK, mmVars
<1>6. ASSUME NEW p \in Participants, StopDone(p) PROVE TypeOK'
  BY <1>6 DEF StopDone, TypeOK, mmVars
<1>7. ASSUME NEW p \in Participants, Open(p) PROVE TypeOK'
  BY <1>7 DEF Open, TypeOK, mmVars
<1>8. ASSUME NEW p \in Participants, KillTx(p) PROVE TypeOK'
  BY <1>8 DEF KillTx, TypeOK, mmVars
<1> QED BY <1>1, <1>2, <1>3, <1>4, <1>5, <1>6, <1>7, <1>8

(* Every reachable state of the protocol is well typed.                    *)
THEOREM TypeCorrect == Spec => []TypeOK
<1>1. Init => TypeOK
  BY SMT DEF Init, TypeOK, DTStates, Replies
<1>2. TypeOK /\ [Next]_vars => TypeOK'
  <2> SUFFICES ASSUME TypeOK, [Next]_vars PROVE TypeOK'
    OBVIOUS
  <2>1. CASE UNCHANGED vars
    BY <2>1 DEF TypeOK, vars, mmVars, partVars
  <2>2. CASE Next
    BY <2>2, CallerType, HandleMMType, HandleParticipantType, EnvironmentType DEF Next, Handle
  <2> QED BY <2>1, <2>2
<1> QED BY <1>1, <1>2, PTL DEF Spec
-----------------------------------------------------------------------------
(* The bookkeeping of calls: a call goes to a target of its operation, its *)
(* caller is in that operation and waits for that shard, and has only this *)
(* call there; a caller holds a reply or waits for every target.           *)
CallInv ==
  /\ \A k \in calls : k.at \in Targets(k.op)
  /\ \A k \in calls : k.by # Late => pc[k.by] = k.op /\ got[k.by][k.at] = "wait"
  /\ \A j, k \in calls : j.by # Late /\ j.by = k.by /\ j.at = k.at => j = k
  /\ \A c \in Callers : pc[c] \in Ops => \A s \in Targets(pc[c]) : got[c][s] # "unset"
  /\ \A c \in Callers, s \in Shards :
       got[c][s] \in DTStates => pc[c] = "ReadTransaction" /\ s = MM

(* A caller that sends an operation has no other call out.                 *)
LEMMA EnterCalls ==
  ASSUME TypeOK, CallInv, NEW c \in Callers, NEW op \in Ops, Enter(c, op),
         \A k \in calls : k.by # c
  PROVE  CallInv'
<1> DEFINE New == {[by |-> c, op |-> op, at |-> s, step |-> "sent"] : s \in Targets(op)}
<1>1. calls' = calls \cup New /\ pc' = [pc EXCEPT ![c] = op]
  BY DEF Enter
<1>2. got'[c] = [s \in Shards |-> IF s \in Targets(op) THEN "wait" ELSE "unset"]
  BY DEF Enter, TypeOK
<1>3. \A d \in Callers : d # c => got'[d] = got[d] /\ pc'[d] = pc[d]
  BY DEF Enter, TypeOK
<1>4. pc'[c] = op
  BY <1>1 DEF TypeOK
<1>5. Targets(op) \subseteq Shards /\ c # Late
  BY ConstantsAssumption DEF Targets
<1>6. \A k \in calls : k.by \in Callers \cup {Late}
  BY DEF TypeOK, Call
<1>7. \A k \in New : k.by = c /\ k.op = op /\ k.at \in Targets(op) /\ k.step = "sent"
  BY SMT
<1>8. \A j, k \in New : j.at = k.at => j = k
  BY SMT
<1>9. "wait" \notin DTStates /\ "unset" \notin DTStates
  BY DEF DTStates
<1> HIDE DEF New
<1>a. \A k \in calls' : k.at \in Targets(k.op)
  BY <1>1, <1>7 DEF CallInv
<1>b. \A k \in calls' : k.by # Late => pc'[k.by] = k.op /\ got'[k.by][k.at] = "wait"
  BY <1>1, <1>2, <1>3, <1>4, <1>5, <1>6, <1>7, SMT DEF CallInv
<1>c. \A j, k \in calls' : j.by # Late /\ j.by = k.by /\ j.at = k.at => j = k
  BY <1>1, <1>7, <1>8 DEF CallInv
<1>d. \A d \in Callers : pc'[d] \in Ops => \A s \in Targets(pc'[d]) : got'[d][s] # "unset"
  BY <1>2, <1>3, <1>4, <1>5, SMT DEF CallInv
<1>e. \A d \in Callers, s \in Shards :
        got'[d][s] \in DTStates => pc'[d] = "ReadTransaction" /\ s = MM
  BY <1>2, <1>3, <1>9, SMT DEF CallInv
<1> QED BY <1>a, <1>b, <1>c, <1>d, <1>e DEF CallInv, Targets

(* A caller that returns has no call out.                                  *)
LEMMA FinishCalls ==
  ASSUME TypeOK, CallInv, NEW c \in Callers, Finish(c), \A k \in calls : k.by # c
  PROVE  CallInv'
<1>1. "unset" \notin DTStates
  BY DEF DTStates
<1>2. \A k \in calls : k.by \in Callers \cup {Late}
  BY DEF TypeOK, Call
<1>3. pc'[c] \notin Ops
  BY DEF Finish, TypeOK, Ops, MMOps, PartOps
<1>4. \A d \in Callers : d # c => got'[d] = got[d] /\ pc'[d] = pc[d]
  BY DEF Finish, TypeOK
<1>5. got'[c] = [s \in Shards |-> "unset"] /\ calls' = calls
  BY DEF Finish, TypeOK
<1> QED BY <1>1, <1>2, <1>3, <1>4, <1>5, SMT DEF CallInv, Targets

(* A reply is for the caller's current operation; it is "ok", "err" or, to *)
(* ReadTransaction, a state of dt_state.                                   *)
LEMMA ReplyCalls ==
  ASSUME TypeOK, CallInv, NEW k \in calls, NEW v \in Replies, Reply(k, v),
         v \in {"ok", "err"} \/ (v \in DTStates /\ k.op = "ReadTransaction" /\ k.at = MM)
  PROVE  CallInv'
<1>1. /\ k.at \in Shards /\ k.by \in Callers \cup {Late}
      /\ \A j \in calls : j.by \in Callers \cup {Late} /\ j.at \in Shards
  BY DEF TypeOK, Call
<1>2. v # "unset" /\ (v \in DTStates => k.op = "ReadTransaction" /\ k.at = MM)
  BY DEF DTStates
<1>3. CASE k.by = Late
  BY <1>3 DEF Reply, CallInv, Targets
<1>4. CASE k.by # Late
  <2>1. k.by \in Callers /\ got' = [got EXCEPT ![k.by][k.at] = v]
    BY <1>1, <1>4 DEF Reply
  <2>2. \A c \in Callers, s \in Shards :
          got'[c][s] = IF c = k.by /\ s = k.at THEN v ELSE got[c][s]
    BY <1>1, <2>1 DEF TypeOK
  <2>3. pc' = pc /\ calls' = calls \ {k}
    BY DEF Reply
  <2>4. pc[k.by] = k.op
    BY <1>4 DEF CallInv
  <2>5. \A c \in Callers : Targets(pc[c]) \subseteq Shards
    BY DEF Targets
  <2> QED BY <1>1, <1>2, <2>1, <2>2, <2>3, <2>4, <2>5, SMT DEF CallInv, Targets
<1> QED BY <1>3, <1>4

(* A handler's next step leaves the call where it is.                      *)
LEMMA AdvanceCalls ==
  ASSUME TypeOK, CallInv, NEW k \in calls, NEW s, Advance(k, s)
  PROVE  CallInv'
<1> DEFINE n == [by |-> k.by, op |-> k.op, at |-> k.at, step |-> s]
<1>1. n.by = k.by /\ n.op = k.op /\ n.at = k.at
  OBVIOUS
<1>2. calls' = (calls \ {k}) \cup {n} /\ pc' = pc /\ got' = got
  BY DEF Advance
<1> HIDE DEF n
<1> QED BY <1>1, <1>2, SMT DEF CallInv, Targets

(* When a shard's calls are lost, their callers see errors.                *)
LEMMA DropCallsCalls ==
  ASSUME TypeOK, CallInv, NEW s \in Shards, DropCalls(s)
  PROVE  CallInv'
<1>1. "err" \notin DTStates
  BY DEF DTStates
<1>2. \A k \in calls : k.by \in Callers \cup {Late} /\ k.at \in Shards
  BY DEF TypeOK, Call
<1>3. \A c \in Callers : Targets(pc[c]) \subseteq Shards
  BY DEF Targets
<1>4. \A c \in Callers, t \in Shards :
        got'[c][t] = IF t = s /\ got[c][t] = "wait" THEN "err" ELSE got[c][t]
  BY DEF DropCalls
<1>5. pc' = pc /\ calls' = {k \in calls : k.at # s}
  BY DEF DropCalls
<1> QED BY <1>1, <1>2, <1>3, <1>4, <1>5, SMT DEF CallInv, Targets

(* A call the caller gives up on is nobody's, and an error to the caller.  *)
LEMMA TimeoutCalls ==
  ASSUME TypeOK, CallInv, NEW k \in calls, Timeout(k)
  PROVE  CallInv'
<1> DEFINE n == [by |-> Late, op |-> k.op, at |-> k.at, step |-> k.step]
<1>1. n.by = Late /\ n.op = k.op /\ n.at = k.at
  OBVIOUS
<1>2. "err" \notin DTStates
  BY DEF DTStates
<1>3. /\ k.at \in Shards /\ k.by \in Callers /\ k.by # Late
      /\ \A j \in calls : j.by \in Callers \cup {Late} /\ j.at \in Shards
  BY DEF TypeOK, Call, Timeout
<1>4. \A c \in Callers : Targets(pc[c]) \subseteq Shards
  BY DEF Targets
<1>5. calls' = (calls \ {k}) \cup {n} /\ pc' = pc
  BY DEF Timeout
<1>6. \A c \in Callers, s \in Shards :
        got'[c][s] = IF c = k.by /\ s = k.at THEN "err" ELSE got[c][s]
  BY <1>3 DEF Timeout, TypeOK
<1> HIDE DEF n
<1> QED BY <1>1, <1>2, <1>3, <1>4, <1>5, <1>6, SMT DEF CallInv, Targets

(* A caller takes its next step only when all its calls have come back.    *)
LEMMA CallerIdle ==
  ASSUME TypeOK, CallInv, NEW c \in Callers,
         (\E op \in Ops : Returned(c, op)) \/ pc[c] = "idle"
  PROVE  \A k \in calls : k.by # c
<1>1. \A k \in calls : k.by = c => got[c][k.at] = "wait" /\ pc[c] = k.op /\ k.op \in Ops /\ k.at \in Shards
  BY ConstantsAssumption, SMT DEF CallInv, TypeOK, Call
<1>2. "idle" \notin Ops
  BY DEF Ops, MMOps, PartOps
<1> QED BY <1>1, <1>2 DEF Returned

(* Each step keeps the bookkeeping of calls.                               *)
LEMMA CallInvStep ==
  ASSUME TypeOK, CallInv, [Next]_vars
  PROVE  CallInv'
<1> USE DEF Ops, MMOps, PartOps
<1>1. ASSUME NEW c \in Callers, Resolve(c) PROVE CallInv'
  <2>1. \E op \in Ops : Returned(c, op)
    BY <1>1 DEF Resolve, AfterRead, AfterSetRollback, AfterParticipants, AfterConclude
  <2>2. (\E op \in Ops : Enter(c, op)) \/ Finish(c)
    BY <1>1 DEF Resolve, AfterRead, AfterSetRollback, AfterParticipants, AfterConclude
  <2> QED BY <2>1, <2>2, CallerIdle, EnterCalls, FinishCalls
<1>2. CASE GateStep
  <2>1. CASE Resolve(Gate) BY <2>1, <1>1
  <2>2. CASE ~Resolve(Gate)
    <3>1. (\E op \in Ops : Returned(Gate, op)) \/ pc[Gate] = "idle"
      BY <1>2, <2>2 DEF GateStep, Commit2PC, AfterCreate, AfterRollback, AfterPrepare, AfterStartCommit
    <3>2. (\E op \in Ops : Enter(Gate, op)) \/ Finish(Gate)
      BY <1>2, <2>2 DEF GateStep, Commit2PC, AfterCreate, AfterRollback, AfterPrepare, AfterStartCommit
    <3> QED BY <3>1, <3>2, CallerIdle, EnterCalls, FinishCalls
  <2> QED BY <2>1, <2>2
<1>3. ASSUME NEW r \in Resolvers, ResolverStep(r) PROVE CallInv'
  <2>1. CASE Watchdog(r)
    BY <2>1, CallerIdle, EnterCalls DEF Watchdog
  <2> QED BY <1>3, <2>1, <1>1 DEF ResolverStep
<1>4. ASSUME NEW k \in calls, HandleMM(k) PROVE CallInv'
  <2> USE DEF HandleMM, CreateTransaction, StartCommitGet, StartCommit, SetRollbackTx, SetRollback,
        ConcludeTransaction, ReadTransaction, RollbackMM, Handles
  <2>1. CASE ReadTransaction(k)
    BY <1>4, <2>1, ReplyCalls DEF TypeOK, Replies
  <2>2. (\E v \in {"ok", "err"} : Reply(k, v)) \/ (\E s \in Steps : Advance(k, s)) \/ ReadTransaction(k)
    BY <1>4 DEF Steps
  <2> QED BY <2>1, <2>2, ReplyCalls, AdvanceCalls DEF Replies
<1>5. ASSUME NEW k \in calls, HandleParticipant(k) PROVE CallInv'
  <2>1. (\E v \in {"ok", "err"} : Reply(k, v)) \/ (\E s \in Steps : Advance(k, s))
    BY <1>5 DEF HandleParticipant, PrepareGet, PreparePut, PrepareSaveRedo, CommitPreparedFetch,
      CommitPreparedCommit, CommitPreparedForget, SetFailed, MarkFailed,
      RollbackPreparedRedo, RollbackPreparedFetch, RollbackTx, Reject, Steps
  <2> QED BY <2>1, ReplyCalls, AdvanceCalls DEF Replies
<1>6. ASSUME NEW k \in calls, Timeout(k) PROVE CallInv'
  BY <1>6, TimeoutCalls
<1>7. CASE RestartMM
  BY <1>7, DropCallsCalls DEF RestartMM
<1>8. ASSUME NEW p \in Participants, Crash(p) PROVE CallInv'
  BY <1>8, DropCallsCalls DEF Crash
<1>9. CASE UNCHANGED <<calls, pc, got>>
  BY <1>9 DEF CallInv
<1>10. CASE UNCHANGED vars
  BY <1>9, <1>10 DEF vars
<1>11. CASE KillMMTx \/ \E p \in Participants : StopGently(p) \/ StopDone(p) \/ Open(p) \/ KillTx(p)
  BY <1>9, <1>11 DEF KillMMTx, StopGently, StopDone, Open, KillTx
<1> QED BY <1>2, <1>3, <1>4, <1>5, <1>6, <1>7, <1>8, <1>10, <1>11 DEF Next, Handle
-----------------------------------------------------------------------------
(* What the row, the callers and the calls in flight know of the decision. *)
(* Only CreateTransaction finds no row and no decision; a RollbackPrepared *)
(* or CommitPrepared is only ever sent after the decision is in MySQL; the *)
(* transaction at MM is busy exactly while the one StartCommit holds it.   *)
DecisionInv ==
  /\ dt = "PREPARE" => decision = "none"
  /\ dt \in {"ROLLBACK", "COMMIT"} => decision = dt
  /\ pc[Gate] = "idle" => dt = "none" /\ decision = "none"
                           /\ \A k \in calls : k.op # "CreateTransaction"
  /\ \A k \in calls : k.op = "CreateTransaction" => dt = "none" /\ decision = "none"
  /\ \A j, k \in calls : j.op = "CreateTransaction" /\ k.op = "CreateTransaction" => j = k
  /\ \A c \in Callers :
       /\ pc[c] = "SetRollback" /\ got[c][MM] = "ok" => decision = "ROLLBACK"
       /\ got[c][MM] \in {"ROLLBACK", "COMMIT"} => decision = got[c][MM]
       /\ pc[c] = "StartCommit" /\ got[c][MM] = "ok" => decision = "COMMIT"
       /\ pc[c] = "RollbackPrepared" => decision = "ROLLBACK"
       /\ pc[c] = "CommitPrepared" => decision = "COMMIT"
       /\ pc[c] = "ConcludeTransaction" => decision # "none"
  /\ \A k \in calls :
       /\ k.op = "RollbackPrepared" => decision = "ROLLBACK"
       /\ k.op = "CommitPrepared" => decision = "COMMIT"
       /\ k.op = "ConcludeTransaction" => decision # "none"
       /\ Handles(k, "StartCommit", "transition") => mmTx = "busy"
  /\ \A j, k \in calls : Handles(j, "StartCommit", "transition")
                         /\ Handles(k, "StartCommit", "transition") => j = k
  /\ CommitIsDecided

(* Sending an operation, under the condition vtgate's control flow gives.  *)
LEMMA EnterDecision ==
  ASSUME TypeOK, CallInv, DecisionInv, NEW c \in Callers, NEW op \in Ops, Enter(c, op),
         op = "CreateTransaction" => c = Gate /\ pc[Gate] = "idle",
         op = "RollbackPrepared" => decision = "ROLLBACK",
         op = "CommitPrepared" => decision = "COMMIT",
         op = "ConcludeTransaction" => decision # "none"
  PROVE  DecisionInv'
<1> DEFINE New == {[by |-> c, op |-> op, at |-> s, step |-> "sent"] : s \in Targets(op)}
<1>1. calls' = calls \cup New /\ UNCHANGED <<dt, decision, mmTx, committed>>
  BY DEF Enter, mmVars, partVars
<1>2. pc'[c] = op /\ \A d \in Callers : d # c => got'[d] = got[d] /\ pc'[d] = pc[d]
  BY DEF Enter, TypeOK
<1>3. \A s \in Shards : got'[c][s] \in {"wait", "unset"}
  BY DEF Enter, TypeOK
<1>4. \A k \in New : k.op = op /\ k.step = "sent" /\ k.at \in Targets(op)
  BY SMT
<1>5. op = "CreateTransaction" => \A j, k \in New : j = k
  BY DEF Targets, MMOps
<1>6. op \notin {"idle", "done"}
  BY DEF Ops, MMOps, PartOps
<1> HIDE DEF New
<1>7. \A k \in calls' : k \in calls \/ (k.op = op /\ k.step = "sent")
  BY <1>1, <1>4
<1>8. \A j, k \in calls' : j.op = "CreateTransaction" /\ k.op = "CreateTransaction" => j = k
  BY <1>1, <1>4, <1>5 DEF DecisionInv
<1>9. \A j, k \in calls' : Handles(j, "StartCommit", "transition")
                         /\ Handles(k, "StartCommit", "transition") => j = k
  BY <1>7 DEF DecisionInv, Handles
<1>10. \A d \in Callers :
       /\ pc'[d] = "SetRollback" /\ got'[d][MM] = "ok" => decision = "ROLLBACK"
       /\ got'[d][MM] \in {"ROLLBACK", "COMMIT"} => decision = got'[d][MM]
       /\ pc'[d] = "StartCommit" /\ got'[d][MM] = "ok" => decision = "COMMIT"
       /\ pc'[d] = "RollbackPrepared" => decision = "ROLLBACK"
       /\ pc'[d] = "CommitPrepared" => decision = "COMMIT"
       /\ pc'[d] = "ConcludeTransaction" => decision # "none"
  BY <1>2, <1>3 DEF DecisionInv
<1>11. \A k \in calls' :
       /\ k.op = "CreateTransaction" => dt = "none" /\ decision = "none"
       /\ k.op = "RollbackPrepared" => decision = "ROLLBACK"
       /\ k.op = "CommitPrepared" => decision = "COMMIT"
       /\ k.op = "ConcludeTransaction" => decision # "none"
       /\ Handles(k, "StartCommit", "transition") => mmTx = "busy"
  BY <1>7 DEF DecisionInv, Handles
<1>12. pc'[Gate] = "idle" => /\ dt = "none" /\ decision = "none"
                            /\ \A k \in calls' : k.op # "CreateTransaction"
  BY <1>2, <1>6, <1>7 DEF DecisionInv
<1> QED BY <1>1, <1>8, <1>9, <1>10, <1>11, <1>12 DEF DecisionInv, Handles, CommitIsDecided

(* Returning from an operation.                                            *)
LEMMA FinishDecision ==
  ASSUME TypeOK, CallInv, DecisionInv, NEW c \in Callers, Finish(c)
  PROVE  DecisionInv'
<1>1. UNCHANGED <<dt, decision, mmTx, committed, calls>>
  BY DEF Finish, mmVars, partVars
<1>2. pc'[c] = (IF c = Gate THEN "done" ELSE "idle") /\ got'[c][MM] = "unset"
  BY DEF Finish, TypeOK
<1>3. \A d \in Callers : d # c => got'[d] = got[d] /\ pc'[d] = pc[d]
  BY DEF Finish, TypeOK
<1> QED BY <1>1, <1>2, <1>3 DEF DecisionInv, Handles, CommitIsDecided

(* A returned operation without an error has an ok answer of MM.           *)
LEMMA AllOK ==
  ASSUME TypeOK, CallInv, NEW c \in Callers, NEW op \in MMOps \ {"ReadTransaction"},
         Returned(c, op), OK(c)
  PROVE  got[c][MM] = "ok"
<1>1. MM \in Shards /\ pc[c] = op /\ op \in Ops /\ MM \in Targets(op)
  BY DEF Returned, Ops, Targets
<1>2. got[c][MM] \notin {"wait", "err"}
  BY <1>1 DEF Returned, OK
<1>3. got[c][MM] # "unset"
  BY <1>1 DEF CallInv
<1>4. got[c][MM] \notin DTStates
  BY <1>1 DEF CallInv
<1>5. got[c][MM] \in Replies
  BY <1>1 DEF TypeOK
<1> QED BY <1>2, <1>3, <1>4, <1>5 DEF Replies

(* vtgate acts on the decision it has read or made: commit2PC and Resolve. *)
LEMMA CallerDecision ==
  ASSUME TypeOK, CallInv, DecisionInv, GateStep \/ \E r \in Resolvers : ResolverStep(r)
  PROVE  DecisionInv'
<1> USE DEF Ops, MMOps, PartOps, Targets
<1>1. ASSUME NEW c \in Callers, Resolve(c) PROVE DecisionInv'
  <2>1. CASE AfterRead(c)
    BY <2>1, EnterDecision, FinishDecision DEF AfterRead, DecisionInv
  <2>2. CASE AfterSetRollback(c)
    <3>1. OK(c) => got[c][MM] = "ok"
      BY <2>2, AllOK DEF AfterSetRollback
    <3> QED BY <2>2, <3>1, EnterDecision, FinishDecision DEF AfterSetRollback, DecisionInv, Returned
  <2>3. CASE AfterParticipants(c)
    BY <2>3, EnterDecision, FinishDecision DEF AfterParticipants, DecisionInv, Returned
  <2>4. CASE AfterConclude(c)
    BY <2>4, FinishDecision DEF AfterConclude
  <2> QED BY <1>1, <2>1, <2>2, <2>3, <2>4 DEF Resolve
<1>2. CASE Commit2PC
  BY <1>2, EnterDecision DEF Commit2PC
<1>3. CASE AfterCreate \/ AfterPrepare \/ AfterRollback
  BY <1>3, EnterDecision, FinishDecision DEF AfterCreate, AfterPrepare, AfterRollback
<1>4. CASE AfterStartCommit
  <2>1. OK(Gate) => got[Gate][MM] = "ok"
    BY <1>4, AllOK DEF AfterStartCommit
  <2> QED BY <1>4, <2>1, EnterDecision, FinishDecision DEF AfterStartCommit, DecisionInv, Returned
<1>5. ASSUME NEW r \in Resolvers, Watchdog(r) PROVE DecisionInv'
  BY <1>5, EnterDecision DEF Watchdog
<1> QED BY <1>1, <1>2, <1>3, <1>4, <1>5 DEF GateStep, ResolverStep

(* What a reply changes: the call is gone and its caller holds the answer. *)
LEMMA ReplyFacts ==
  ASSUME TypeOK, CallInv, NEW k \in calls, NEW v, Reply(k, v)
  PROVE  /\ calls' = calls \ {k} /\ pc' = pc
         /\ \A c \in Callers, s \in Shards :
              got'[c][s] = IF c = k.by /\ s = k.at THEN v ELSE got[c][s]
         /\ \A c \in Callers : c = k.by => pc[c] = k.op
         /\ k.at \in Targets(k.op)
<1>1. k.at \in Shards /\ k.by \in Callers \cup {Late} /\ Late \notin Callers
  BY ConstantsAssumption DEF TypeOK, Call
<1>2. CASE k.by = Late
  BY <1>1, <1>2 DEF Reply, CallInv
<1>3. CASE k.by # Late
  <2>1. got' = [got EXCEPT ![k.by][k.at] = v] /\ k.by \in Callers
    BY <1>1, <1>3 DEF Reply
  <2>2. \A c \in Callers, s \in Shards :
          got'[c][s] = IF c = k.by /\ s = k.at THEN v ELSE got[c][s]
    BY <1>1, <2>1 DEF TypeOK
  <2> QED BY <2>2, <1>3 DEF Reply, CallInv
<1> QED BY <1>2, <1>3

(* What a handler's step changes: only the step of its call.               *)
LEMMA AdvanceFacts ==
  ASSUME CallInv, NEW k \in calls, NEW s, Advance(k, s)
  PROVE  /\ pc' = pc /\ got' = got
         /\ k.at \in Targets(k.op)
         /\ \E n : /\ calls' = (calls \ {k}) \cup {n}
                   /\ n.by = k.by /\ n.op = k.op /\ n.at = k.at /\ n.step = s
<1> DEFINE n == [by |-> k.by, op |-> k.op, at |-> k.at, step |-> s]
<1>1. n.by = k.by /\ n.op = k.op /\ n.at = k.at /\ n.step = s
  OBVIOUS
<1>2. calls' = (calls \ {k}) \cup {n} /\ pc' = pc /\ got' = got
  BY DEF Advance
<1>3. k.at \in Targets(k.op)
  BY DEF CallInv
<1> HIDE DEF n
<1> QED BY <1>1, <1>2, <1>3

(* A reply of MM, and a step of a handler at MM, in the terms of           *)
(* DecisionInv.                                                            *)
LEMMA MMReplyFacts ==
  ASSUME TypeOK, CallInv, NEW k \in calls, NEW v, Reply(k, v), k.at = MM
  PROVE  /\ calls' = calls \ {k} /\ pc' = pc
         /\ \A c \in Callers : IF c = k.by THEN pc[c] = k.op /\ got'[c][MM] = v
                                           ELSE got'[c][MM] = got[c][MM]
<1>1. MM \in Shards
  OBVIOUS
<1> QED BY <1>1, ReplyFacts, SMT

(* A handler that goes on is a call at its next step.                      *)
LEMMA AdvanceMember ==
  ASSUME CallInv, NEW k \in calls, NEW s, Advance(k, s)
  PROVE  /\ pc' = pc /\ got' = got
         /\ \A j \in calls' : j \in calls \ {k} \/ (j.op = k.op /\ j.step = s)
         /\ \A i, j \in calls' : i \notin calls \ {k} /\ j \notin calls \ {k} => i = j
<1>1. PICK n : calls' = (calls \ {k}) \cup {n} /\ n.op = k.op /\ n.step = s
  BY AdvanceFacts, SMT
<1>2. pc' = pc /\ got' = got
  BY AdvanceFacts
<1> QED BY <1>1, <1>2

(* A step that leaves the row, the decision and the participants alone.    *)
LEMMA DecisionKept ==
  ASSUME DecisionInv, UNCHANGED <<dt, decision, committed, pc>>,
         \A j \in calls' : \E i \in calls : i.op = j.op,
         \A i, j \in calls' : i.op = "CreateTransaction" /\ j.op = "CreateTransaction" => i = j,
         \A c \in Callers : got'[c][MM] \in {got[c][MM], "err", "wait"},
         \A j \in calls' : Handles(j, "StartCommit", "transition") => mmTx' = "busy",
         \A i, j \in calls' : Handles(i, "StartCommit", "transition")
                                /\ Handles(j, "StartCommit", "transition") => i = j,
         mmTx' = "committed" <=> mmTx = "committed"
  PROVE  DecisionInv'
<1>1. CommitIsDecided'
  BY DEF DecisionInv, CommitIsDecided
<1>2. Gate \in Callers
  OBVIOUS
<1>3. \A c \in Callers :
       /\ pc'[c] = "SetRollback" /\ got'[c][MM] = "ok" => decision' = "ROLLBACK"
       /\ got'[c][MM] \in {"ROLLBACK", "COMMIT"} => decision' = got'[c][MM]
       /\ pc'[c] = "StartCommit" /\ got'[c][MM] = "ok" => decision' = "COMMIT"
       /\ pc'[c] = "RollbackPrepared" => decision' = "ROLLBACK"
       /\ pc'[c] = "CommitPrepared" => decision' = "COMMIT"
       /\ pc'[c] = "ConcludeTransaction" => decision' # "none"
  BY DEF DecisionInv
<1>4. \A k \in calls' :
       /\ k.op = "CreateTransaction" => dt' = "none" /\ decision' = "none" /\ pc'[Gate] # "idle"
       /\ k.op = "RollbackPrepared" => decision' = "ROLLBACK"
       /\ k.op = "CommitPrepared" => decision' = "COMMIT"
       /\ k.op = "ConcludeTransaction" => decision' # "none"
  BY <1>2 DEF DecisionInv
<1>5. /\ dt' = "PREPARE" => decision' = "none"
      /\ dt' \in {"ROLLBACK", "COMMIT"} => decision' = dt'
      /\ pc'[Gate] = "idle" => dt' = "none" /\ decision' = "none"
  BY DEF DecisionInv
<1> QED BY <1>1, <1>3, <1>4, <1>5 DEF DecisionInv, Handles

(* Replies of MM that change nothing the row says.                         *)
LEMMA MMReplyKept ==
  ASSUME TypeOK, CallInv, DecisionInv, NEW k \in calls, k.at = MM, Reply(k, "err"),
         UNCHANGED <<dt, decision, committed>>, mmTx' = "committed" <=> mmTx = "committed",
         \A j \in calls \ {k} : Handles(j, "StartCommit", "transition") => mmTx' = "busy"
  PROVE  DecisionInv'
<1>1. calls' = calls \ {k} /\ pc' = pc /\ \A c \in Callers : got'[c][MM] \in {got[c][MM], "err", "wait"}
  BY MMReplyFacts
<1>2. /\ \A i, j \in calls : i.op = "CreateTransaction" /\ j.op = "CreateTransaction" => i = j
      /\ \A i, j \in calls : Handles(i, "StartCommit", "transition")
                                /\ Handles(j, "StartCommit", "transition") => i = j
  BY DEF DecisionInv
<1> QED BY <1>1, <1>2, DecisionKept

(* The two decisions: StartCommit and SetRollback change the row.          *)
LEMMA DecideFacts ==
  ASSUME TypeOK, CallInv, DecisionInv, dt = "PREPARE", decision' \in {"COMMIT", "ROLLBACK"},
         dt' = decision', UNCHANGED <<committed, pc>>, calls' \subseteq calls,
         mmTx' = "committed" <=> decision' = "COMMIT",
         \A j \in calls' : Handles(j, "StartCommit", "transition") => mmTx' = "busy",
         \A c \in Callers : \/ got'[c][MM] = got[c][MM] \/ got'[c][MM] = "err"
                            \/ got'[c][MM] = "ok" /\ pc[c] = "StartCommit" /\ decision' = "COMMIT"
                            \/ got'[c][MM] = "ok" /\ pc[c] = "SetRollback" /\ decision' = "ROLLBACK"
  PROVE  DecisionInv'
<1>1. decision = "none" /\ pc[Gate] # "idle" /\ Gate \in Callers
  BY DEF DecisionInv
<1>2. \A k \in calls : k.op \notin {"CreateTransaction", "RollbackPrepared", "CommitPrepared", "ConcludeTransaction"}
  BY <1>1 DEF DecisionInv
<1>3. \A c \in Callers : /\ pc[c] \notin {"RollbackPrepared", "CommitPrepared", "ConcludeTransaction"}
                         /\ got[c][MM] \notin {"ROLLBACK", "COMMIT"}
                         /\ pc[c] \in {"SetRollback", "StartCommit"} => got[c][MM] # "ok"
  BY <1>1 DEF DecisionInv
<1>4. \A p \in Participants : ~committed[p]
  BY <1>1 DEF DecisionInv, CommitIsDecided
<1>5. CommitIsDecided'
  BY <1>4 DEF CommitIsDecided
<1>6. \A j, k \in calls' : Handles(j, "StartCommit", "transition")
                         /\ Handles(k, "StartCommit", "transition") => j = k
  BY DEF DecisionInv
<1>7. \A c \in Callers :
       /\ pc'[c] = "SetRollback" /\ got'[c][MM] = "ok" => decision' = "ROLLBACK"
       /\ got'[c][MM] \in {"ROLLBACK", "COMMIT"} => decision' = got'[c][MM]
       /\ pc'[c] = "StartCommit" /\ got'[c][MM] = "ok" => decision' = "COMMIT"
       /\ pc'[c] \notin {"RollbackPrepared", "CommitPrepared", "ConcludeTransaction"}
  BY <1>3
<1> QED BY <1>1, <1>2, <1>5, <1>6, <1>7 DEF DecisionInv, Handles

(* The handlers at MM change the row and the decision together.            *)
LEMMA HandleMMDecision ==
  ASSUME TypeOK, CallInv, DecisionInv, NEW k \in calls, HandleMM(k)
  PROVE  DecisionInv'
<1> USE DEF mmVars, partVars
<1>0. k.at = MM /\ Gate \in Callers
  BY DEF HandleMM
<1>a. /\ \A i, j \in calls : i.op = "CreateTransaction" /\ j.op = "CreateTransaction" => i = j
      /\ \A i, j \in calls : Handles(i, "StartCommit", "transition")
                                /\ Handles(j, "StartCommit", "transition") => i = j
      /\ \A i \in calls : Handles(i, "StartCommit", "transition") => mmTx = "busy"
  BY DEF DecisionInv
<1>1. CASE CreateTransaction(k)
  <2>1. PICK r \in {"ok", "err"} : Reply(k, r) /\ dt' \in {"none", "PREPARE"}
    BY <1>1 DEF CreateTransaction, DecisionInv, Handles
  <2>2. UNCHANGED <<decision, mmTx, committed>> /\ k.op = "CreateTransaction" /\ dt = "none" /\ decision = "none"
    BY <1>1 DEF CreateTransaction, DecisionInv, Handles
  <2>3. calls' = calls \ {k} /\ pc' = pc
        /\ \A c \in Callers : IF c = k.by THEN pc[c] = k.op /\ got'[c][MM] = r
                                          ELSE got'[c][MM] = got[c][MM]
    BY <1>0, <2>1, MMReplyFacts
  <2>4. pc[Gate] # "idle" /\ \A j \in calls' : j \in calls /\ j.op # "CreateTransaction"
    BY <1>a, <2>2, <2>3 DEF DecisionInv
  <2>5. \A c \in Callers : got'[c][MM] \in {"ROLLBACK", "COMMIT"} \/ pc'[c] \in {"SetRollback", "StartCommit"}
                              => got'[c][MM] = got[c][MM]
    BY <2>1, <2>2, <2>3
  <2> QED BY <2>1, <2>2, <2>3, <2>4, <2>5 DEF DecisionInv, CommitIsDecided, Handles
<1>2. CASE StartCommitGet(k)
  <2>1. UNCHANGED <<dt, decision, committed>> /\ k.op = "StartCommit"
    BY <1>2 DEF StartCommitGet, Handles
  <2>2. CASE mmTx' = mmTx /\ Reply(k, "err")
    BY <1>0, <1>a, <2>1, <2>2, MMReplyKept
  <2>3. CASE mmTx = "open" /\ mmTx' = "busy" /\ Advance(k, "transition")
    <3>1. /\ pc' = pc /\ got' = got
          /\ \A j \in calls' : j \in calls \ {k} \/ (j.op = k.op /\ j.step = "transition")
          /\ \A i, j \in calls' : i \notin calls \ {k} /\ j \notin calls \ {k} => i = j
      BY <2>3, AdvanceMember
    <3>2. \A i \in calls : ~Handles(i, "StartCommit", "transition")
      BY <1>a, <2>3
    <3>3. \A i, j \in calls' : Handles(i, "StartCommit", "transition")
                                /\ Handles(j, "StartCommit", "transition") => i = j
      BY <3>1, <3>2
    <3>4. \A i, j \in calls' : i.op = "CreateTransaction" /\ j.op = "CreateTransaction" => i = j
      BY <1>a, <2>1, <3>1
    <3>5. \A j \in calls' : \E i \in calls : i.op = j.op
      BY <3>1
    <3> QED BY <2>1, <2>3, <3>1, <3>3, <3>4, <3>5, DecisionKept
  <2> QED BY <1>2, <2>2, <2>3 DEF StartCommitGet
<1>3. CASE StartCommit(k)
  <2>1. mmTx = "busy" /\ k.op = "StartCommit" /\ UNCHANGED committed
        /\ \A j \in calls \ {k} : ~Handles(j, "StartCommit", "transition")
    BY <1>a, <1>3 DEF StartCommit, Handles
  <2>2. CASE dt # "PREPARE"
    <3>1. mmTx' = "gone" /\ Reply(k, "err") /\ UNCHANGED <<dt, decision>>
      BY <1>3, <2>2 DEF StartCommit
    <3> QED BY <1>0, <2>1, <3>1, MMReplyKept
  <2>3. CASE dt = "PREPARE"
    <3>1. PICK done \in BOOLEAN, r \in {"ok", "err"} :
            /\ LocalTx(done, r) /\ Transition("COMMIT", done)
            /\ mmTx' = IF done THEN "committed" ELSE "gone"
            /\ Reply(k, r)
      BY <1>3, <2>3 DEF StartCommit
    <3>2. calls' = calls \ {k} /\ pc' = pc
          /\ \A c \in Callers : IF c = k.by THEN pc[c] = k.op /\ got'[c][MM] = r
                                            ELSE got'[c][MM] = got[c][MM]
      BY <1>0, <3>1, MMReplyFacts
    <3>3. CASE done
      <4>1. dt' = "COMMIT" /\ decision' = "COMMIT" /\ mmTx' = "committed"
        BY <3>1, <3>3 DEF Transition
      <4> QED BY <2>1, <2>3, <3>1, <3>2, <4>1, DecideFacts
    <3>4. CASE ~done
      <4>1. dt' = dt /\ decision' = decision /\ mmTx' = "gone" /\ Reply(k, "err")
        BY <3>1, <3>4 DEF Transition, LocalTx
      <4> QED BY <1>0, <2>1, <4>1, MMReplyKept
    <3> QED BY <3>3, <3>4
  <2> QED BY <2>2, <2>3
<1>4. CASE SetRollbackTx(k)
  <2>1. UNCHANGED <<dt, decision, committed>> /\ k.op = "SetRollback"
        /\ mmTx' = IF mmTx = "open" THEN "gone" ELSE mmTx
    BY <1>4 DEF SetRollbackTx, Handles
  <2>2. /\ pc' = pc /\ got' = got
        /\ \A j \in calls' : j \in calls \ {k} \/ j.op = k.op
    BY <1>4, AdvanceMember DEF SetRollbackTx
  <2>3. /\ \A i, j \in calls' : i.op = "CreateTransaction" /\ j.op = "CreateTransaction" => i = j
        /\ \A i, j \in calls' : Handles(i, "StartCommit", "transition")
                                /\ Handles(j, "StartCommit", "transition") => i = j
        /\ \A i \in calls' : Handles(i, "StartCommit", "transition") => mmTx' = "busy"
        /\ \A j \in calls' : \E i \in calls : i.op = j.op
    BY <1>a, <2>1, <2>2 DEF Handles
  <2> QED BY <2>1, <2>2, <2>3, DecisionKept
<1>5. CASE SetRollback(k)
  <2>1. k.op = "SetRollback" /\ UNCHANGED <<mmTx, committed>>
        /\ \A j \in calls \ {k} : Handles(j, "StartCommit", "transition") => mmTx' = "busy"
    BY <1>a, <1>5 DEF SetRollback, Handles
  <2>2. CASE dt # "PREPARE"
    <3>1. Reply(k, "err") /\ UNCHANGED <<dt, decision>>
      BY <1>5, <2>2 DEF SetRollback
    <3> QED BY <1>0, <2>1, <3>1, MMReplyKept
  <2>3. CASE dt = "PREPARE"
    <3>1. PICK done \in BOOLEAN, r \in {"ok", "err"} :
            LocalTx(done, r) /\ Transition("ROLLBACK", done) /\ Reply(k, r)
      BY <1>5, <2>3 DEF SetRollback
    <3>2. calls' = calls \ {k} /\ pc' = pc
          /\ \A c \in Callers : IF c = k.by THEN pc[c] = k.op /\ got'[c][MM] = r
                                            ELSE got'[c][MM] = got[c][MM]
      BY <1>0, <3>1, MMReplyFacts
    <3>3. CASE done
      <4>1. dt' = "ROLLBACK" /\ decision' = "ROLLBACK"
        BY <3>1, <3>3 DEF Transition
      <4>2. mmTx # "committed"
        BY <2>3 DEF DecisionInv, CommitIsDecided
      <4> QED BY <2>1, <2>3, <3>1, <3>2, <4>1, <4>2, DecideFacts
    <3>4. CASE ~done
      <4>1. dt' = dt /\ decision' = decision /\ Reply(k, "err")
        BY <3>1, <3>4 DEF Transition, LocalTx
      <4> QED BY <1>0, <2>1, <4>1, MMReplyKept
    <3> QED BY <3>3, <3>4
  <2> QED BY <2>2, <2>3
<1>6. CASE ConcludeTransaction(k)
  <2>1. k.op = "ConcludeTransaction" /\ UNCHANGED <<decision, mmTx, committed>> /\ dt' \in {"none", dt}
    BY <1>6 DEF ConcludeTransaction, Handles
  <2>2. PICK r \in {"ok", "err"} : Reply(k, r)
    BY <1>6 DEF ConcludeTransaction
  <2>3. calls' = calls \ {k} /\ pc' = pc
        /\ \A c \in Callers : IF c = k.by THEN pc[c] = k.op /\ got'[c][MM] = r
                                          ELSE got'[c][MM] = got[c][MM]
    BY <1>0, <2>2, MMReplyFacts
  <2>4. \A c \in Callers : got'[c][MM] \in {"ROLLBACK", "COMMIT"} \/ pc'[c] \in {"SetRollback", "StartCommit"}
                              => got'[c][MM] = got[c][MM]
    BY <2>1, <2>2, <2>3
  <2> QED BY <1>0, <2>1, <2>3, <2>4 DEF DecisionInv, CommitIsDecided, Handles
<1>7. CASE ReadTransaction(k)
  <2>1. k.op = "ReadTransaction" /\ Reply(k, dt) /\ UNCHANGED <<dt, decision, mmTx, committed>>
    BY <1>7 DEF ReadTransaction, Handles
  <2>2. calls' = calls \ {k} /\ pc' = pc
        /\ \A c \in Callers : IF c = k.by THEN pc[c] = k.op /\ got'[c][MM] = dt
                                          ELSE got'[c][MM] = got[c][MM]
    BY <1>0, <2>1, MMReplyFacts
  <2>3. \A c \in Callers : /\ got'[c][MM] \in {"ROLLBACK", "COMMIT"} => decision = got'[c][MM]
                           /\ pc'[c] \in {"SetRollback", "StartCommit"} => got'[c][MM] = got[c][MM]
    BY <2>1, <2>2 DEF DecisionInv
  <2> QED BY <1>0, <2>1, <2>2, <2>3 DEF DecisionInv, CommitIsDecided, Handles
<1>8. CASE RollbackMM(k)
  <2>1. k.op = "Rollback" /\ UNCHANGED <<dt, decision, committed>>
        /\ mmTx' = IF mmTx = "open" THEN "gone" ELSE mmTx
    BY <1>8 DEF RollbackMM, Handles
  <2>2. PICK r \in {"ok", "err"} : Reply(k, r)
    BY <1>8 DEF RollbackMM
  <2>3. calls' = calls \ {k} /\ pc' = pc
        /\ \A c \in Callers : IF c = k.by THEN pc[c] = k.op /\ got'[c][MM] = r
                                          ELSE got'[c][MM] = got[c][MM]
    BY <1>0, <2>2, MMReplyFacts
  <2>4. \A c \in Callers : got'[c][MM] \in {"ROLLBACK", "COMMIT"} \/ pc'[c] \in {"SetRollback", "StartCommit"}
                              => got'[c][MM] = got[c][MM]
    BY <2>1, <2>2, <2>3
  <2>5. \A j \in calls' : Handles(j, "StartCommit", "transition") => mmTx' = "busy"
    BY <1>a, <2>1, <2>3
  <2> QED BY <1>0, <2>1, <2>3, <2>4, <2>5 DEF DecisionInv, CommitIsDecided, Handles
<1> QED BY <1>1, <1>2, <1>3, <1>4, <1>5, <1>6, <1>7, <1>8 DEF HandleMM

(* The handlers of a participant know nothing of the decision, and commit  *)
(* only on a CommitPrepared call.                                          *)
LEMMA HandleParticipantDecision ==
  ASSUME TypeOK, CallInv, DecisionInv, NEW k \in calls, HandleParticipant(k)
  PROVE  DecisionInv'
<1> USE DEF Handles
<1>1. UNCHANGED <<dt, decision, mmTx>> /\ k.at \in Participants /\ k.at # MM /\ MM \in Shards
  BY ConstantsAssumption DEF HandleParticipant, PrepareGet, PreparePut, PrepareSaveRedo,
    CommitPreparedFetch, CommitPreparedCommit, CommitPreparedForget, SetFailed, MarkFailed,
    RollbackPreparedRedo, RollbackPreparedFetch, RollbackTx, Reject, mmVars
<1>2. \A p \in Participants : committed'[p] => committed[p] \/ decision = "COMMIT"
  <2>1. CASE CommitPreparedCommit(k)
    BY <2>1 DEF CommitPreparedCommit, DecisionInv
  <2>2. CASE ~CommitPreparedCommit(k)
    BY <2>2 DEF HandleParticipant, PrepareGet, PreparePut, PrepareSaveRedo,
      CommitPreparedFetch, CommitPreparedForget, SetFailed, MarkFailed,
      RollbackPreparedRedo, RollbackPreparedFetch, RollbackTx, Reject, partVars
  <2> QED BY <2>1, <2>2
<1>3. k.op # "StartCommit" /\ k.op # "CreateTransaction"
  BY <1>1 DEF CallInv, Targets, MMOps
<1>4. CommitIsDecided'
  BY <1>1, <1>2 DEF DecisionInv, CommitIsDecided
<1>5. CASE \E v \in {"ok", "err"} : Reply(k, v)
  <2>1. PICK v \in {"ok", "err"} : Reply(k, v)
    BY <1>5
  <2>2. calls' = calls \ {k} /\ pc' = pc /\ \A c \in Callers : got'[c][MM] = got[c][MM]
    BY <1>1, <2>1, ReplyFacts, SMT
  <2> QED BY <1>1, <1>4, <2>2 DEF DecisionInv
<1>6. CASE \E s \in Steps : Advance(k, s)
  <2>1. PICK s \in Steps : Advance(k, s)
    BY <1>6
  <2>2. PICK n : calls' = (calls \ {k}) \cup {n} /\ n.op = k.op
    BY <2>1, AdvanceFacts
  <2>3. pc' = pc /\ got' = got
    BY <2>1, AdvanceFacts
  <2> QED BY <1>1, <1>3, <1>4, <2>2, <2>3 DEF DecisionInv
<1>7. (\E v \in {"ok", "err"} : Reply(k, v)) \/ (\E s \in Steps : Advance(k, s))
  BY DEF HandleParticipant, PrepareGet, PreparePut, PrepareSaveRedo, CommitPreparedFetch,
    CommitPreparedCommit, CommitPreparedForget, SetFailed, MarkFailed,
    RollbackPreparedRedo, RollbackPreparedFetch, RollbackTx, Reject, Steps
<1> QED BY <1>5, <1>6, <1>7

(* Timeouts, restarts and shutdowns lose calls and connections, never a    *)
(* row that MySQL has committed.                                           *)
LEMMA EnvironmentDecision ==
  ASSUME TypeOK, CallInv, DecisionInv,
         \/ \E k \in calls : Timeout(k)
         \/ RestartMM \/ KillMMTx
         \/ \E p \in Participants : Crash(p) \/ StopGently(p) \/ StopDone(p) \/ Open(p) \/ KillTx(p)
         \/ UNCHANGED vars
  PROVE  DecisionInv'
<1> USE DEF Handles, mmVars, partVars, CommitIsDecided
<1>0. MM \in Shards /\ Gate \in Callers /\ MM \notin Participants
  BY ConstantsAssumption
<1>1. ASSUME NEW s \in Shards, DropCalls(s)
      PROVE  /\ calls' \subseteq calls /\ pc' = pc
             /\ \A c \in Callers : got'[c][MM] \in {got[c][MM], "err"}
             /\ \A k \in calls' : k.at # s
  BY <1>0, <1>1 DEF DropCalls
<1>2. ASSUME NEW k \in calls, Timeout(k) PROVE DecisionInv'
  <2> DEFINE n == [by |-> Late, op |-> k.op, at |-> k.at, step |-> k.step]
  <2>1. n.op = k.op /\ n.step = k.step
    OBVIOUS
  <2>2. calls' = (calls \ {k}) \cup {n} /\ pc' = pc /\ UNCHANGED <<dt, decision, mmTx, committed>>
    BY <1>2 DEF Timeout
  <2>3. k.by \in Callers /\ k.at \in Shards
    BY <1>2 DEF Timeout, TypeOK, Call
  <2>4. \A c \in Callers : got'[c][MM] \in {got[c][MM], "err"}
    BY <1>0, <1>2, <2>3 DEF Timeout, TypeOK
  <2> HIDE DEF n
  <2>5. \A j \in calls' : j \in calls \ {k} \/ (j = n /\ j.op = k.op /\ j.step = k.step)
    BY <2>1, <2>2
  <2>6. /\ \A i, j \in calls' : i.op = "CreateTransaction" /\ j.op = "CreateTransaction" => i = j
        /\ \A i, j \in calls' : Handles(i, "StartCommit", "transition")
                                /\ Handles(j, "StartCommit", "transition") => i = j
        /\ \A i \in calls' : Handles(i, "StartCommit", "transition") => mmTx' = "busy"
    <3>1. /\ \A i, j \in calls : i.op = "CreateTransaction" /\ j.op = "CreateTransaction" => i = j
          /\ \A i, j \in calls : Handles(i, "StartCommit", "transition")
                                  /\ Handles(j, "StartCommit", "transition") => i = j
          /\ \A i \in calls : Handles(i, "StartCommit", "transition") => mmTx = "busy"
      BY DEF DecisionInv
    <3> QED BY <2>2, <2>5, <3>1, SMT
  <2>7. \A j \in calls' : \E i \in calls : i.op = j.op
    BY <2>5
  <2> QED BY <2>2, <2>4, <2>6, <2>7, DecisionKept
<1>3. CASE RestartMM
  <2>1. DropCalls(MM) /\ UNCHANGED <<dt, decision, committed>>
        /\ mmTx' = IF mmTx = "committed" THEN mmTx ELSE "gone"
    BY <1>3 DEF RestartMM
  <2>2. \A k \in calls' : k.op # "StartCommit"
    BY <1>0, <1>1, <2>1 DEF CallInv, Targets, MMOps
  <2>3. calls' \subseteq calls /\ pc' = pc /\ \A c \in Callers : got'[c][MM] \in {got[c][MM], "err"}
    BY <1>0, <1>1, <2>1
  <2> QED BY <1>0, <2>1, <2>2, <2>3 DEF DecisionInv
<1>4. ASSUME NEW p \in Participants, Crash(p) PROVE DecisionInv'
  <2>1. DropCalls(p) /\ UNCHANGED <<dt, decision, mmTx, committed>>
    BY <1>4 DEF Crash
  <2>2. calls' \subseteq calls /\ pc' = pc /\ \A c \in Callers : got'[c][MM] \in {got[c][MM], "err"}
    BY <1>1, <2>1
  <2> QED BY <1>0, <2>1, <2>2 DEF DecisionInv
<1>5. CASE KillMMTx
  BY <1>0, <1>5 DEF KillMMTx, DecisionInv
<1>6. CASE UNCHANGED <<calls, pc, got, dt, decision, mmTx, committed>>
  BY <1>6 DEF DecisionInv
<1>7. CASE \E p \in Participants : StopGently(p) \/ StopDone(p) \/ Open(p) \/ KillTx(p)
  BY <1>6, <1>7 DEF StopGently, StopDone, Open, KillTx
<1> QED BY <1>2, <1>3, <1>4, <1>5, <1>6, <1>7 DEF vars

(* DecisionInv is kept by every step.                                      *)
LEMMA DecisionInvStep ==
  ASSUME TypeOK, CallInv, DecisionInv, [Next]_vars
  PROVE  DecisionInv'
BY CallerDecision, HandleMMDecision, HandleParticipantDecision, EnvironmentDecision DEF Next, Handle

(* Of two racing decisions one wins: the row leaves PREPARE once.          *)
LEMMA DecisionFinalStep ==
  ASSUME TypeOK, CallInv, DecisionInv, [Next]_vars, decision # "none"
  PROVE  decision' = decision
<1> USE DEF mmVars
<1>1. ASSUME NEW k \in calls, HandleMM(k) PROVE decision' = decision
  BY <1>1 DEF HandleMM, CreateTransaction, StartCommitGet, StartCommit, SetRollbackTx, SetRollback,
    ConcludeTransaction, ReadTransaction, RollbackMM, DecisionInv
<1>2. ASSUME NEW k \in calls, HandleParticipant(k) \/ Timeout(k) PROVE decision' = decision
  BY <1>2 DEF HandleParticipant, PrepareGet, PreparePut, PrepareSaveRedo, CommitPreparedFetch,
    CommitPreparedCommit, CommitPreparedForget, SetFailed, MarkFailed,
    RollbackPreparedRedo, RollbackPreparedFetch, RollbackTx, Reject, Timeout
<1>3. ASSUME NEW c \in Callers, Resolve(c) PROVE decision' = decision
  BY <1>3 DEF Resolve, AfterRead, AfterSetRollback, AfterParticipants, AfterConclude, Enter, Finish
<1>4. CASE GateStep \/ \E r \in Resolvers : ResolverStep(r)
  BY <1>3, <1>4 DEF GateStep, Commit2PC, AfterCreate, AfterRollback, AfterPrepare,
    AfterStartCommit, ResolverStep, Watchdog, Enter, Finish
<1>5. CASE RestartMM \/ KillMMTx \/ UNCHANGED vars
  BY <1>5 DEF RestartMM, KillMMTx, vars
<1>6. ASSUME NEW p \in Participants, Crash(p) \/ StopGently(p) \/ StopDone(p) \/ Open(p) \/ KillTx(p)
      PROVE  decision' = decision
  BY <1>6 DEF Crash, StopGently, StopDone, Open, KillTx
<1> QED BY <1>1, <1>2, <1>4, <1>5, <1>6 DEF Next, Handle

(* Initially there is no call and no decision.                             *)
LEMMA InitInvariants == Init => CallInv /\ DecisionInv
<1> USE DEF Ops, MMOps, PartOps
<1>1. ASSUME Init PROVE CallInv
  BY <1>1 DEF Init, CallInv, DTStates
<1>2. ASSUME Init PROVE DecisionInv
  BY <1>2 DEF Init, DecisionInv, CommitIsDecided
<1> QED BY <1>1, <1>2

(* The three inductive invariants so far, for any set of participants,     *)
(* resolvers and any number of faults.                                     *)
THEOREM DecisionInvariant == Spec => [](CallInv /\ DecisionInv)
<1>1. Init => CallInv /\ DecisionInv
  BY InitInvariants
<1>2. TypeOK /\ CallInv /\ DecisionInv /\ [Next]_vars => (CallInv /\ DecisionInv)'
  BY CallInvStep, DecisionInvStep
<1> QED BY <1>1, <1>2, TypeCorrect, PTL DEF Spec

(* No participant commits before the decision is durable, and MM's own     *)
(* changes commit with it.                                                 *)
THEOREM CommitDecided == Spec => []CommitIsDecided
<1>1. DecisionInv => CommitIsDecided
  BY DEF DecisionInv
<1> QED BY <1>1, DecisionInvariant, PTL

(* StartCommit and SetRollback never overturn each other.                  *)
THEOREM DecisionFinal == Spec => DecisionIsFinal
<1>1. TypeOK /\ CallInv /\ DecisionInv /\ [Next]_vars
        => [decision # "none" => decision' = decision]_vars
  BY DecisionFinalStep
<1> QED BY <1>1, TypeCorrect, DecisionInvariant, PTL DEF Spec, DecisionIsFinal
-----------------------------------------------------------------------------
(* The changes of p are not lost: committed, in the redo log, or no longer *)
(* wanted.                                                                 *)
Safe(p) == committed[p] \/ redo[p] # "none" \/ decision = "ROLLBACK"

(* An ok answer to Prepare makes a participant safe, StartCommit is only   *)
(* sent when all are, and that is what a decision to commit relies on.     *)
RedoInv ==
  \A p \in Writers :
    /\ pc[Gate] = "Prepare" /\ got[Gate][p] = "ok" => Safe(p)
    /\ pc[Gate] = "StartCommit" => Safe(p)
    /\ \A k \in calls : k.op = "StartCommit" => Safe(p)
    /\ decision = "COMMIT" => Safe(p)

(* Only the commit itself and a decided rollback delete a redo log.        *)
LEMMA SafeKept ==
  ASSUME TypeOK, CallInv, DecisionInv, [Next]_vars, NEW p \in Participants, Safe(p)
  PROVE  Safe(p)'
<1> USE DEF mmVars, partVars
<1>1. decision = "ROLLBACK" => decision' = "ROLLBACK"
  BY DecisionFinalStep
<1>2. ASSUME NEW k \in calls, HandleParticipant(k) PROVE Safe(p)'
  <2>1. CASE CommitPreparedCommit(k)
    BY <1>1, <2>1 DEF CommitPreparedCommit, Safe, TypeOK
  <2>2. CASE RollbackPreparedRedo(k)
    <3>1. decision = "ROLLBACK"
      BY <2>2 DEF RollbackPreparedRedo, Handles, DecisionInv
    <3> QED BY <1>1, <3>1 DEF Safe
  <2>3. CASE MarkFailed(k)
    BY <1>1, <2>3 DEF MarkFailed, Safe, TypeOK
  <2>4. CASE PrepareSaveRedo(k)
    BY <1>1, <2>4 DEF PrepareSaveRedo, Safe, TypeOK
  <2>5. CASE UNCHANGED <<committed, redo>>
    BY <1>1, <2>5 DEF Safe
  <2> QED BY <1>2, <2>1, <2>2, <2>3, <2>4, <2>5 DEF HandleParticipant, PrepareGet, PreparePut,
        CommitPreparedFetch, CommitPreparedForget, SetFailed, RollbackPreparedFetch, RollbackTx, Reject
<1>3. CASE UNCHANGED <<committed, redo>>
  BY <1>1, <1>3 DEF Safe
<1>4. ASSUME NEW k \in calls, HandleMM(k) \/ Timeout(k) PROVE Safe(p)'
  BY <1>3, <1>4 DEF HandleMM, CreateTransaction, StartCommitGet, StartCommit, SetRollbackTx, SetRollback,
    ConcludeTransaction, ReadTransaction, RollbackMM, Timeout
<1>5. ASSUME NEW c \in Callers, Resolve(c) PROVE Safe(p)'
  BY <1>3, <1>5 DEF Resolve, AfterRead, AfterSetRollback, AfterParticipants, AfterConclude, Enter, Finish
<1>6. CASE GateStep \/ \E r \in Resolvers : ResolverStep(r)
  BY <1>3, <1>5, <1>6 DEF GateStep, Commit2PC, AfterCreate, AfterRollback, AfterPrepare,
    AfterStartCommit, ResolverStep, Watchdog, Enter, Finish
<1>7. CASE RestartMM \/ KillMMTx \/ UNCHANGED vars
  BY <1>3, <1>7 DEF RestartMM, KillMMTx, vars
<1>8. ASSUME NEW q \in Participants, Crash(q) \/ StopGently(q) \/ StopDone(q) \/ Open(q) \/ KillTx(q)
      PROVE  Safe(p)'
  BY <1>3, <1>8 DEF Crash, StopGently, StopDone, Open, KillTx
<1> QED BY <1>2, <1>4, <1>6, <1>7, <1>8 DEF Next, Handle

(* Sending: vtgate sends StartCommit only when all Prepares succeeded.     *)
LEMMA EnterRedo ==
  ASSUME TypeOK, CallInv, DecisionInv, RedoInv, [Next]_vars,
         NEW c \in Callers, NEW op \in Ops, Enter(c, op),
         op = "StartCommit" => \A p \in Writers : Safe(p)
  PROVE  RedoInv'
<1> DEFINE New == {[by |-> c, op |-> op, at |-> s, step |-> "sent"] : s \in Targets(op)}
<1>0. calls' = calls \cup New /\ \A k \in New : k.op = op
  BY SMT DEF Enter
<1> HIDE DEF New
<1>1. \A k \in calls' : k \in calls \/ k.op = op
  BY <1>0
<1>2. pc'[c] = op /\ \A d \in Callers : d # c => got'[d] = got[d] /\ pc'[d] = pc[d]
  BY DEF Enter, TypeOK
<1>3. \A s \in Shards : got'[c][s] \in {"wait", "unset"}
  BY DEF Enter, TypeOK
<1>4. \A p \in Writers : Safe(p) => Safe(p)'
  BY SafeKept
<1>5. decision' = decision
  BY DEF Enter, mmVars
<1> QED BY <1>1, <1>2, <1>3, <1>4, <1>5 DEF RedoInv

(* A caller that leaves changes no redo log.                               *)
LEMMA FinishRedo ==
  ASSUME TypeOK, CallInv, DecisionInv, RedoInv, [Next]_vars, NEW c \in Callers, Finish(c)
  PROVE  RedoInv'
<1>1. pc'[c] \in {"done", "idle"} /\ \A d \in Callers : d # c => got'[d] = got[d] /\ pc'[d] = pc[d]
  BY DEF Finish, TypeOK
<1>2. \A p \in Writers : Safe(p) => Safe(p)'
  BY SafeKept
<1>3. decision' = decision /\ calls' = calls
  BY DEF Finish, mmVars
<1> QED BY <1>1, <1>2, <1>3 DEF RedoInv

(* vtgate and the watchdog change no redo log.                             *)
LEMMA CallerRedo ==
  ASSUME TypeOK, CallInv, DecisionInv, RedoInv, [Next]_vars,
         GateStep \/ \E r \in Resolvers : ResolverStep(r)
  PROVE  RedoInv'
<1> USE DEF Ops, MMOps, PartOps
<1>1. ASSUME NEW c \in Callers, Resolve(c) PROVE RedoInv'
  BY <1>1, EnterRedo, FinishRedo
    DEF Resolve, AfterRead, AfterSetRollback, AfterParticipants, AfterConclude
<1>2. CASE AfterPrepare
  <2>1. ASSUME OK(Gate), NEW p \in Writers PROVE Safe(p)
    <3>1. pc[Gate] = "Prepare" /\ got[Gate][p] \notin {"wait", "err"}
      BY <1>2, <2>1 DEF AfterPrepare, Returned, OK
    <3>2. got[Gate][p] # "unset" /\ got[Gate][p] \notin DTStates
      BY <3>1 DEF CallInv, Targets
    <3>3. got[Gate][p] = "ok"
      BY <3>1, <3>2 DEF TypeOK, Replies
    <3> QED BY <3>1, <3>3 DEF RedoInv
  <2> QED BY <1>2, <2>1, EnterRedo DEF AfterPrepare
<1>3. CASE Commit2PC \/ AfterCreate \/ AfterRollback \/ AfterStartCommit
  BY <1>3, EnterRedo, FinishRedo DEF Commit2PC, AfterCreate, AfterRollback, AfterStartCommit
<1>4. ASSUME NEW r \in Resolvers, Watchdog(r) PROVE RedoInv'
  BY <1>4, EnterRedo DEF Watchdog
<1> QED BY <1>1, <1>2, <1>3, <1>4 DEF GateStep, ResolverStep

(* Handling: the answer ok to Prepare, and the decision to commit.         *)
LEMMA HandleRedo ==
  ASSUME TypeOK, CallInv, DecisionInv, RedoInv, [Next]_vars, NEW k \in calls, Handle(k)
  PROVE  RedoInv'
<1> USE DEF mmVars, partVars
<1>1. \A p \in Writers : Safe(p) => Safe(p)'
  BY SafeKept
<1>2. \A p \in Writers : decision' = "COMMIT" => Safe(p)'
  <2>1. CASE decision' = decision
    BY <1>1, <2>1 DEF RedoInv
  <2>2. CASE StartCommit(k)
    BY <1>1, <2>2 DEF StartCommit, Handles, RedoInv
  <2>3. CASE SetRollback(k)
    BY <2>1, <2>3 DEF SetRollback, Transition
  <2> QED BY <2>1, <2>2, <2>3 DEF Handle, HandleMM, CreateTransaction, StartCommitGet, SetRollbackTx,
        ConcludeTransaction, ReadTransaction, RollbackMM, HandleParticipant, PrepareGet, PreparePut,
        PrepareSaveRedo, CommitPreparedFetch, CommitPreparedCommit, CommitPreparedForget, SetFailed,
        MarkFailed, RollbackPreparedRedo, RollbackPreparedFetch, RollbackTx, Reject
<1>3. CASE \E s \in Steps : Advance(k, s)
  <2>1. PICK s \in Steps : Advance(k, s)
    BY <1>3
  <2>2. PICK n : calls' = (calls \ {k}) \cup {n} /\ n.op = k.op
    BY <2>1, AdvanceFacts
  <2>3. pc' = pc /\ got' = got
    BY <2>1, AdvanceFacts
  <2> QED BY <1>1, <1>2, <2>2, <2>3 DEF RedoInv
<1>4. ASSUME NEW v \in Replies, Reply(k, v),
             k.op = "Prepare" /\ v = "ok" /\ k.at \in Writers => Safe(k.at)'
      PROVE  RedoInv'
  <2>1. calls' = calls \ {k} /\ pc' = pc /\ Gate \in Callers
    BY <1>4, ReplyFacts
  <2>2. \A p \in Writers : IF k.by = Gate /\ p = k.at THEN got'[Gate][p] = v /\ pc[Gate] = k.op
                                                       ELSE got'[Gate][p] = got[Gate][p]
    BY <1>4, ReplyFacts, SMT
  <2> QED BY <1>1, <1>2, <1>4, <2>1, <2>2 DEF RedoInv
<1>5. CASE HandleMM(k)
  <2>1. k.op # "Prepare"
    BY <1>5, ConstantsAssumption DEF HandleMM, CallInv, Targets, PartOps, MMOps
  <2>2. (\E v \in Replies : Reply(k, v)) \/ (\E s \in Steps : Advance(k, s))
    BY <1>5 DEF HandleMM, CreateTransaction, StartCommitGet, StartCommit, SetRollbackTx, SetRollback,
      ConcludeTransaction, ReadTransaction, RollbackMM, Steps, Replies, TypeOK
  <2> QED BY <1>3, <1>4, <2>1, <2>2
<1>6. CASE HandleParticipant(k)
  <2>1. CASE PrepareSaveRedo(k)
    <3>1. PICK done \in BOOLEAN, r \in {"ok", "err"} :
            /\ LocalTx(done, r)
            /\ redo' = IF done THEN [redo EXCEPT ![k.at] = "prepared"] ELSE redo
            /\ Reply(k, r)
      BY <2>1 DEF PrepareSaveRedo
    <3>2. r = "ok" /\ k.at \in Writers => Safe(k.at)'
      BY <3>1 DEF LocalTx, Safe, TypeOK
    <3> QED BY <1>4, <3>1, <3>2 DEF Replies
  <2>2. CASE PrepareGet(k)
    <3>1. (Reply(k, "ok") /\ k.at \notin Writers) \/ Reply(k, "err") \/ (\E s \in Steps : Advance(k, s))
      BY <2>2 DEF PrepareGet, Steps
    <3> QED BY <1>3, <1>4, <3>1 DEF Replies
  <2>3. CASE PreparePut(k)
    <3>1. Reply(k, "err") \/ (\E s \in Steps : Advance(k, s))
      BY <2>3 DEF PreparePut, Steps
    <3> QED BY <1>3, <1>4, <3>1 DEF Replies
  <2>4. CASE Reject(k)
    BY <1>4, <2>4 DEF Reject, Replies
  <2>5. CASE ~(PrepareSaveRedo(k) \/ PrepareGet(k) \/ PreparePut(k) \/ Reject(k))
    <3>1. k.op # "Prepare"
      BY <1>6, <2>5 DEF HandleParticipant, CommitPreparedFetch, CommitPreparedCommit,
        CommitPreparedForget, SetFailed, MarkFailed, RollbackPreparedRedo, RollbackPreparedFetch,
        RollbackTx, Handles
    <3>2. (\E v \in {"ok", "err"} : Reply(k, v)) \/ (\E s \in Steps : Advance(k, s))
      BY <1>6, <2>5 DEF HandleParticipant, CommitPreparedFetch, CommitPreparedCommit,
        CommitPreparedForget, SetFailed, MarkFailed, RollbackPreparedRedo, RollbackPreparedFetch,
        RollbackTx, Steps
    <3> QED BY <1>3, <1>4, <3>1, <3>2 DEF Replies
  <2> QED BY <2>1, <2>2, <2>3, <2>4, <2>5
<1> QED BY <1>5, <1>6 DEF Handle

(* A crash leaves the redo logs, and a restart only adds what they hold.   *)
LEMMA EnvironmentRedo ==
  ASSUME TypeOK, CallInv, DecisionInv, RedoInv, [Next]_vars,
         \/ \E k \in calls : Timeout(k)
         \/ RestartMM \/ KillMMTx
         \/ \E p \in Participants : Crash(p) \/ StopGently(p) \/ StopDone(p) \/ Open(p) \/ KillTx(p)
         \/ UNCHANGED vars
  PROVE  RedoInv'
<1> USE DEF mmVars, partVars
<1>1. \A p \in Writers : Safe(p) => Safe(p)'
  BY SafeKept
<1>2. decision' = decision
  BY DEF Timeout, RestartMM, KillMMTx, Crash, StopGently, StopDone, Open, KillTx, vars
<1>3. ASSUME NEW s \in Shards, DropCalls(s) PROVE RedoInv'
  <2>1. calls' \subseteq calls /\ pc' = pc /\ \A p \in Writers : got'[Gate][p] \in {got[Gate][p], "err"}
    BY <1>3 DEF DropCalls
  <2> QED BY <1>1, <1>2, <2>1 DEF RedoInv
<1>4. ASSUME NEW k \in calls, Timeout(k) PROVE RedoInv'
  <2> DEFINE n == [by |-> Late, op |-> k.op, at |-> k.at, step |-> k.step]
  <2>1. n.op = k.op
    OBVIOUS
  <2>2. calls' = (calls \ {k}) \cup {n} /\ pc' = pc
    BY <1>4 DEF Timeout
  <2>3. k.by \in Callers /\ k.at \in Shards /\ Gate \in Callers
    BY <1>4 DEF Timeout, TypeOK, Call
  <2>4. \A p \in Writers : got'[Gate][p] \in {got[Gate][p], "err"}
    BY <1>4, <2>3 DEF Timeout, TypeOK
  <2> HIDE DEF n
  <2> QED BY <1>1, <1>2, <2>1, <2>2, <2>4 DEF RedoInv
<1>5. CASE UNCHANGED <<calls, pc, got>>
  BY <1>1, <1>2, <1>5 DEF RedoInv
<1> QED BY <1>3, <1>4, <1>5 DEF RestartMM, KillMMTx, Crash, StopGently, StopDone, Open, KillTx, vars

(* The redo logs a decision relies on are an inductive invariant.          *)
THEOREM RedoInvariant == Spec => []RedoInv
<1>1. Init => RedoInv
  BY DEF Init, RedoInv
<1>2. TypeOK /\ CallInv /\ DecisionInv /\ RedoInv /\ [Next]_vars => RedoInv'
  BY CallerRedo, HandleRedo, EnvironmentRedo DEF Next
<1> QED BY <1>1, <1>2, TypeCorrect, DecisionInvariant, PTL DEF Spec

(* A decision to commit can be carried out at every participant, for any   *)
(* number of participants, resolvers, timeouts, crashes and shutdowns.     *)
THEOREM CommitRecoverable == Spec => []CommitIsRecoverable
<1>1. RedoInv => CommitIsRecoverable
  BY DEF RedoInv, Safe, CommitIsRecoverable
<1> QED BY <1>1, RedoInvariant, PTL
-----------------------------------------------------------------------------
(* A call is at a shard, and one for a participant's operation is at a     *)
(* participant.                                                            *)
LEMMA CallPlace ==
  ASSUME TypeOK, CallInv, NEW k \in calls
  PROVE  /\ k.at \in Shards
         /\ k.op \in PartOps => k.at \in Participants
         /\ k.at = MM => k.op \notin PartOps /\ k.at \notin Participants
<1>1. k.at \in Shards /\ k.at \in Targets(k.op) /\ MM \notin Participants
  BY ConstantsAssumption DEF TypeOK, Call, CallInv
<1>2. k.op \in PartOps => k.op \notin MMOps
  BY DEF PartOps, MMOps
<1> QED BY <1>1, <1>2 DEF Targets

(* A handler that replies is over.                                         *)
LEMMA ReplyGone ==
  ASSUME NEW k \in calls, NEW v, Reply(k, v)
  PROVE  calls' = calls \ {k}
BY DEF Reply

(* Steps that happen away from the participants: vtgate, the watchdog, the *)
(* metadata manager and timeouts.                                          *)
AwayStep == \/ GateStep \/ \E r \in Resolvers : ResolverStep(r)
            \/ \E k \in calls : HandleMM(k) \/ Timeout(k)
            \/ RestartMM \/ KillMMTx \/ UNCHANGED vars

(* Such a step leaves the participants alone, and starts or ends no        *)
(* handler there.                                                          *)
LEMMA AwayFacts ==
  ASSUME TypeOK, CallInv, AwayStep
  PROVE  /\ UNCHANGED partVars
         /\ \A j \in calls' : j.op \in PartOps /\ j.step # "sent"
              => \E i \in calls : i.op = j.op /\ i.step = j.step /\ i.at = j.at
         /\ \A i \in calls : i.op \in PartOps
              => \E j \in calls' : i.op = j.op /\ i.step = j.step /\ i.at = j.at
<1> DEFINE Goal == /\ UNCHANGED partVars
                   /\ \A j \in calls' : j.op \in PartOps /\ j.step # "sent"
                        => \E i \in calls : i.op = j.op /\ i.step = j.step /\ i.at = j.at
                   /\ \A i \in calls : i.op \in PartOps
                        => \E j \in calls' : i.op = j.op /\ i.step = j.step /\ i.at = j.at
<1>1. ASSUME NEW c \in Callers, NEW op \in Ops, Enter(c, op) PROVE Goal
  <2> DEFINE New == {[by |-> c, op |-> op, at |-> s, step |-> "sent"] : s \in Targets(op)}
  <2>1. calls' = calls \cup New /\ \A k \in New : k.step = "sent"
    BY <1>1, SMT DEF Enter
  <2>2. UNCHANGED partVars
    BY <1>1 DEF Enter
  <2> HIDE DEF New
  <2> QED BY <2>1, <2>2
<1>2. ASSUME calls' = calls, UNCHANGED partVars PROVE Goal
  BY <1>2
<1>3. CASE GateStep \/ \E r \in Resolvers : ResolverStep(r)
  <2> USE DEF Ops, MMOps, PartOps
  <2> HIDE DEF Goal
  <2>1. ASSUME NEW c \in Callers, Resolve(c) PROVE (\E op \in Ops : Enter(c, op)) \/ Finish(c)
    BY <2>1 DEF Resolve, AfterRead, AfterSetRollback, AfterParticipants, AfterConclude
  <2>2. ASSUME GateStep PROVE (\E op \in Ops : Enter(Gate, op)) \/ Finish(Gate)
    BY <2>1, <2>2 DEF GateStep, Commit2PC, AfterCreate, AfterRollback, AfterPrepare, AfterStartCommit
  <2>3. ASSUME NEW r \in Resolvers, ResolverStep(r) PROVE (\E op \in Ops : Enter(r, op)) \/ Finish(r)
    BY <2>1, <2>3 DEF ResolverStep, Watchdog
  <2>4. \E c \in Callers : (\E op \in Ops : Enter(c, op)) \/ Finish(c)
    BY <1>3, <2>2, <2>3
  <2>5. Goal
    BY <1>1, <1>2, <2>4 DEF Finish
  <2> QED BY <2>5 DEF Goal
<1>4. ASSUME NEW k \in calls, HandleMM(k) PROVE Goal
  <2>1. UNCHANGED partVars
    BY <1>4 DEF HandleMM, CreateTransaction, StartCommitGet, StartCommit, SetRollbackTx, SetRollback,
      ConcludeTransaction, ReadTransaction, RollbackMM
  <2>2. k.op \notin PartOps
    BY <1>4, CallPlace DEF HandleMM
  <2>3. (\E v : Reply(k, v)) \/ (\E s \in Steps : Advance(k, s))
    BY <1>4 DEF HandleMM, CreateTransaction, StartCommitGet, StartCommit, SetRollbackTx, SetRollback,
      ConcludeTransaction, ReadTransaction, RollbackMM, Steps
  <2>4. CASE \E v : Reply(k, v)
    BY <2>1, <2>2, <2>4, ReplyGone
  <2>5. ASSUME NEW s \in Steps, Advance(k, s) PROVE Goal
    <3>1. PICK n : calls' = (calls \ {k}) \cup {n} /\ n.op = k.op
      BY <2>5, AdvanceFacts
    <3> QED BY <2>1, <2>2, <3>1
  <2> QED BY <2>3, <2>4, <2>5
<1>5. ASSUME NEW k \in calls, Timeout(k) PROVE Goal
  <2> DEFINE n == [by |-> Late, op |-> k.op, at |-> k.at, step |-> k.step]
  <2>1. n.op = k.op /\ n.at = k.at /\ n.step = k.step
    OBVIOUS
  <2>2. calls' = (calls \ {k}) \cup {n} /\ UNCHANGED partVars
    BY <1>5 DEF Timeout
  <2> HIDE DEF n
  <2> QED BY <2>1, <2>2
<1>6. CASE RestartMM
  <2>1. calls' = {k \in calls : k.at # MM} /\ UNCHANGED partVars
    BY <1>6 DEF RestartMM, DropCalls
  <2>2. \A k \in calls : k.op \in PartOps => k.at # MM
    BY CallPlace
  <2> QED BY <2>1, <2>2
<1>7. CASE KillMMTx \/ UNCHANGED vars
  BY <1>2, <1>7 DEF KillMMTx, vars
<1> QED BY <1>3, <1>4, <1>5, <1>6, <1>7 DEF AwayStep

(* What a handler of a participant leaves alone.                           *)
LEMMA HandlerFrame ==
  ASSUME TypeOK, CallInv, NEW k \in calls, HandleParticipant(k)
  PROVE  /\ k.at \in Participants /\ UNCHANGED mmVars /\ live' = live
         /\ \A p \in Participants : p # k.at => /\ tx'[p] = tx[p] /\ redo'[p] = redo[p]
                                                /\ reserved'[p] = reserved[p] /\ committed'[p] = committed[p]
         /\ (\E v \in {"ok", "err"} : Reply(k, v)) \/ (\E s \in Steps : Advance(k, s))
<1>1. k.at \in Participants
  BY DEF HandleParticipant
<1>2. UNCHANGED mmVars
  BY DEF HandleParticipant, PrepareGet, PreparePut, PrepareSaveRedo, CommitPreparedFetch,
    CommitPreparedCommit, CommitPreparedForget, SetFailed, MarkFailed,
    RollbackPreparedRedo, RollbackPreparedFetch, RollbackTx, Reject
<1>3. live' = live
  BY DEF HandleParticipant, PrepareGet, PreparePut, PrepareSaveRedo, CommitPreparedFetch,
    CommitPreparedCommit, CommitPreparedForget, SetFailed, MarkFailed,
    RollbackPreparedRedo, RollbackPreparedFetch, RollbackTx, Reject, partVars
<1>a. \A p \in Participants : p # k.at => tx'[p] = tx[p]
  BY <1>1 DEF HandleParticipant, PrepareGet, PreparePut, PrepareSaveRedo, CommitPreparedFetch,
    CommitPreparedCommit, CommitPreparedForget, SetFailed, MarkFailed,
    RollbackPreparedRedo, RollbackPreparedFetch, RollbackTx, Reject, partVars, TypeOK
<1>b. \A p \in Participants : p # k.at => redo'[p] = redo[p]
  BY <1>1 DEF HandleParticipant, PrepareGet, PreparePut, PrepareSaveRedo, CommitPreparedFetch,
    CommitPreparedCommit, CommitPreparedForget, SetFailed, MarkFailed,
    RollbackPreparedRedo, RollbackPreparedFetch, RollbackTx, Reject, partVars, TypeOK
<1>c. \A p \in Participants : p # k.at => reserved'[p] = reserved[p] /\ committed'[p] = committed[p]
  BY <1>1 DEF HandleParticipant, PrepareGet, PreparePut, PrepareSaveRedo, CommitPreparedFetch,
    CommitPreparedCommit, CommitPreparedForget, SetFailed, MarkFailed,
    RollbackPreparedRedo, RollbackPreparedFetch, RollbackTx, Reject, partVars, TypeOK
<1>4. (\E v \in {"ok", "err"} : Reply(k, v)) \/ (\E s \in Steps : Advance(k, s))
  BY DEF HandleParticipant, PrepareGet, PreparePut, PrepareSaveRedo, CommitPreparedFetch,
    CommitPreparedCommit, CommitPreparedForget, SetFailed, MarkFailed,
    RollbackPreparedRedo, RollbackPreparedFetch, RollbackTx, Reject, Steps
<1> QED BY <1>1, <1>2, <1>3, <1>4, <1>a, <1>b, <1>c

-----------------------------------------------------------------------------
(* What the handlers of a participant know of its connection.  A tablet    *)
(* that is down runs no handler; the one Prepare between txPool.Get and    *)
(* preparedPool.Put keeps the connection busy; once CommitPrepared took it *)
(* from the prepared pool nobody gets it back.                             *)
ConnectionInv ==
  /\ \A k \in calls : k.at \in Participants /\ live[k.at] = "down" => k.step = "sent"
  /\ \A k \in calls : Handles(k, "Prepare", "put") => tx[k.at] = "busy"
  /\ \A j, k \in calls : Handles(j, "Prepare", "put") /\ Handles(k, "Prepare", "put") /\ j.at = k.at
                           => j = k
  /\ \A k \in calls : k.op = "CommitPrepared" /\ k.step # "sent" => tx[k.at] \in {"committing", "gone"}

(* A step that starts no handler's work at a participant.                  *)
LEMMA ConnectionFrame ==
  ASSUME ConnectionInv,
         \A j \in calls' : j \in calls \/ j.step = "sent" \/ j.op \notin PartOps,
         \A j \in calls' : j.at \in Participants /\ live'[j.at] = "down" => j.step = "sent",
         \A j \in calls' : j \in calls /\ Handles(j, "Prepare", "put") => tx'[j.at] = tx[j.at],
         \A j \in calls' : j \in calls /\ j.op = "CommitPrepared" /\ j.step # "sent"
                             => tx'[j.at] \in {tx[j.at], "gone"}
  PROVE  ConnectionInv'
<1>1. \A j \in calls' : j.op \in {"Prepare", "CommitPrepared"} /\ j.step # "sent" => j \in calls
  BY DEF PartOps
<1> QED BY <1>1 DEF ConnectionInv, Handles

(* vtgate and the watchdog only send and collect.                          *)
LEMMA CallerConnection ==
  ASSUME TypeOK, CallInv, ConnectionInv, GateStep \/ \E r \in Resolvers : ResolverStep(r)
  PROVE  ConnectionInv'
<1> USE DEF mmVars, partVars
<1>1. ASSUME NEW c \in Callers, NEW op \in Ops, Enter(c, op) PROVE ConnectionInv'
  <2> DEFINE New == {[by |-> c, op |-> op, at |-> s, step |-> "sent"] : s \in Targets(op)}
  <2>1. calls' = calls \cup New /\ \A k \in New : k.step = "sent"
    BY <1>1, SMT DEF Enter
  <2> HIDE DEF New
  <2>2. tx' = tx /\ live' = live
    BY <1>1 DEF Enter
  <2> QED BY <2>1, <2>2, ConnectionFrame DEF ConnectionInv
<1>2. ASSUME NEW c \in Callers, Finish(c) PROVE ConnectionInv'
  BY <1>2 DEF Finish, ConnectionInv
<1> USE DEF Ops, MMOps, PartOps
<1>3. ASSUME NEW c \in Callers, Resolve(c) PROVE ConnectionInv'
  BY <1>1, <1>2, <1>3 DEF Resolve, AfterRead, AfterSetRollback, AfterParticipants, AfterConclude
<1>4. CASE GateStep
  BY <1>1, <1>2, <1>3, <1>4 DEF GateStep, Commit2PC, AfterCreate, AfterRollback, AfterPrepare, AfterStartCommit
<1>5. ASSUME NEW r \in Resolvers, ResolverStep(r) PROVE ConnectionInv'
  BY <1>1, <1>3, <1>5 DEF ResolverStep, Watchdog
<1> QED BY <1>4, <1>5

(* The metadata manager has no handler of a participant.                   *)
LEMMA HandleMMConnection ==
  ASSUME TypeOK, CallInv, ConnectionInv, NEW k \in calls, HandleMM(k)
  PROVE  ConnectionInv'
<1> USE DEF partVars
<1>1. k.op \notin PartOps /\ k.at \notin Participants
  BY CallPlace DEF HandleMM
<1>2. tx' = tx /\ live' = live
  BY DEF HandleMM, CreateTransaction, StartCommitGet, StartCommit, SetRollbackTx, SetRollback,
    ConcludeTransaction, ReadTransaction, RollbackMM
<1>3. (\E v : Reply(k, v)) \/ (\E s \in Steps : Advance(k, s))
  BY DEF HandleMM, CreateTransaction, StartCommitGet, StartCommit, SetRollbackTx, SetRollback,
    ConcludeTransaction, ReadTransaction, RollbackMM, Steps
<1>4. \A j \in calls' : j \in calls \/ (j.op \notin PartOps /\ j.at \notin Participants)
  <2>1. CASE \E v : Reply(k, v)
    BY <2>1 DEF Reply
  <2>2. ASSUME NEW s \in Steps, Advance(k, s) PROVE \A j \in calls' : j \in calls \/ (j.op = k.op /\ j.at = k.at)
    BY <2>2, AdvanceFacts, SMT
  <2> QED BY <1>1, <1>3, <2>1, <2>2
<1> QED BY <1>2, <1>4, ConnectionFrame DEF ConnectionInv

(* A handler holds the connection it took until it has concluded it.       *)
LEMMA HandleParticipantConnection ==
  ASSUME TypeOK, CallInv, ConnectionInv, NEW k \in calls, HandleParticipant(k)
  PROVE  ConnectionInv'
<1> USE DEF Handles
<1>0. k.at \in Participants /\ \A j \in calls : j.op \in PartOps => j.at \in Participants
  BY CallPlace DEF HandleParticipant
<1>a. /\ \A p \in Participants : p # k.at => tx'[p] = tx[p]
      /\ live' = live
  BY <1>0 DEF HandleParticipant, PrepareGet, PreparePut, PrepareSaveRedo, CommitPreparedFetch,
    CommitPreparedCommit, CommitPreparedForget, SetFailed, MarkFailed,
    RollbackPreparedRedo, RollbackPreparedFetch, RollbackTx, Reject, TypeOK, partVars
<1>1. CASE Reject(k)
  <2>1. calls' = calls \ {k} /\ tx' = tx
    BY <1>1, ReplyGone DEF Reject, partVars
  <2> QED BY <1>a, <2>1, ConnectionFrame DEF ConnectionInv
<1>b. live[k.at] # "down" \/ Reject(k)
  BY DEF HandleParticipant
(* The handler's next step n, and the connection it leaves behind.         *)
<1>c. ASSUME live[k.at] # "down", NEW s, Advance(k, s),
             tx' = tx \/ (/\ \A j \in calls \ {k} : j.at = k.at => ~Handles(j, "Prepare", "put")
                          /\ tx'[k.at] = "gone" \/
                             \A j \in calls \ {k} : j.at = k.at => ~(j.op = "CommitPrepared" /\ j.step # "sent")),
             k.op = "Prepare" /\ s = "put" => tx'[k.at] = "busy",
             k.op = "Prepare" /\ s = "put" => \A j \in calls : j.at = k.at => ~Handles(j, "Prepare", "put"),
             k.op = "CommitPrepared" => tx'[k.at] \in {"committing", "gone"}
      PROVE  ConnectionInv'
  <2>1. PICK n : /\ calls' = (calls \ {k}) \cup {n}
                 /\ n.by = k.by /\ n.op = k.op /\ n.at = k.at /\ n.step = s
    BY <1>c, AdvanceFacts
  <2>2. \A j \in calls' : j.at \in Participants /\ live'[j.at] = "down" => j.step = "sent"
    BY <1>a, <1>c, <2>1 DEF ConnectionInv
  <2>3. \A j \in calls' : Handles(j, "Prepare", "put") => tx'[j.at] = "busy"
    BY <1>0, <1>a, <1>c, <2>1 DEF ConnectionInv, PartOps
  <2>4. \A i, j \in calls' : Handles(i, "Prepare", "put") /\ Handles(j, "Prepare", "put") /\ i.at = j.at
                           => i = j
    BY <1>c, <2>1, SMT DEF ConnectionInv
  <2>5. \A j \in calls' : j.op = "CommitPrepared" /\ j.step # "sent" => tx'[j.at] \in {"committing", "gone"}
    BY <1>0, <1>a, <1>c, <2>1 DEF ConnectionInv, PartOps
  <2> QED BY <2>2, <2>3, <2>4, <2>5 DEF ConnectionInv
(* The handler returns.                                                    *)
<1>d. ASSUME NEW v, Reply(k, v),
             \/ tx' = tx
             \/ /\ \A j \in calls \ {k} : j.at = k.at => ~Handles(j, "Prepare", "put")
                /\ tx'[k.at] = "gone"
      PROVE  ConnectionInv'
  <2>1. calls' = calls \ {k}
    BY <1>d, ReplyGone
  <2>2. \A j \in calls' : Handles(j, "Prepare", "put") => tx'[j.at] = tx[j.at]
    BY <1>0, <1>a, <1>d, <2>1 DEF PartOps
  <2>3. \A j \in calls' : j.op = "CommitPrepared" /\ j.step # "sent" => tx'[j.at] \in {tx[j.at], "gone"}
    BY <1>0, <1>a, <1>d, <2>1 DEF PartOps
  <2> QED BY <1>a, <2>1, <2>2, <2>3, ConnectionFrame DEF ConnectionInv
<1>e. /\ \A j \in calls : j.at = k.at /\ Handles(j, "Prepare", "put") => tx[k.at] = "busy"
      /\ \A j \in calls : j.at = k.at /\ j.op = "CommitPrepared" /\ j.step # "sent" => tx[k.at] \in {"committing", "gone"}
  BY DEF ConnectionInv
<1>2. CASE PrepareGet(k) /\ live[k.at] # "down"
  <2>1. CASE tx[k.at] = "open" /\ k.at \in ReadOnly
    <3>1. Reply(k, "ok") /\ tx'[k.at] = "gone"
      BY <1>0, <1>2, <2>1 DEF PrepareGet, TypeOK
    <3> QED BY <1>d, <1>e, <2>1, <3>1
  <2>2. CASE tx[k.at] = "open" /\ k.at \notin ReadOnly
    <3>1. Advance(k, "put") /\ tx'[k.at] = "busy"
      BY <1>0, <1>2, <2>2 DEF PrepareGet, TypeOK
    <3>2. k.op = "Prepare"
      BY <1>2 DEF PrepareGet
    <3> QED BY <1>2, <1>c, <1>e, <2>2, <3>1, <3>2
  <2>3. CASE tx[k.at] # "open"
    BY <1>2, <1>d, <2>3 DEF PrepareGet
  <2> QED BY <2>1, <2>2, <2>3
<1>3. CASE PreparePut(k) /\ live[k.at] # "down"
  <2>1. k.op = "Prepare" /\ tx[k.at] = "busy" /\ \A j \in calls \ {k} : j.at = k.at => ~Handles(j, "Prepare", "put")
    BY <1>3 DEF PreparePut, ConnectionInv
  <2>2. \/ Advance(k, "redo") /\ tx'[k.at] = "prepared"
        \/ Reply(k, "err") /\ tx'[k.at] = "gone"
    BY <1>0, <1>3 DEF PreparePut, TypeOK
  <2> QED BY <1>3, <1>c, <1>d, <1>e, <2>1, <2>2
<1>4. CASE (PrepareSaveRedo(k) \/ CommitPreparedForget(k)) /\ live[k.at] # "down"
  BY <1>4, <1>d DEF PrepareSaveRedo, CommitPreparedForget
<1>5. CASE CommitPreparedFetch(k) /\ live[k.at] # "down"
  <2>1. \/ \E v : Reply(k, v) /\ tx' = tx
        \/ tx[k.at] = "prepared" /\ tx'[k.at] = "committing" /\ Advance(k, "commit")
    BY <1>0, <1>5 DEF CommitPreparedFetch, TypeOK
  <2>2. k.op = "CommitPrepared"
    BY <1>5 DEF CommitPreparedFetch
  <2> QED BY <1>5, <1>c, <1>d, <1>e, <2>1, <2>2
<1>6. CASE (CommitPreparedCommit(k) \/ SetFailed(k)) /\ live[k.at] # "down"
  <2>1. k.op = "CommitPrepared" /\ tx[k.at] \in {"committing", "gone"}
    BY <1>6, <1>e DEF CommitPreparedCommit, SetFailed
  <2>2. \E s : Advance(k, s) /\ (tx' = tx \/ tx'[k.at] = "gone")
    BY <1>0, <1>6 DEF CommitPreparedCommit, SetFailed, TypeOK
  <2> QED BY <1>6, <1>c, <1>e, <2>1, <2>2
<1>7. CASE MarkFailed(k) /\ live[k.at] # "down"
  <2>1. tx[k.at] \in {"committing", "gone"}
    BY <1>7, <1>e DEF MarkFailed
  <2>2. Reply(k, "err") /\ tx'[k.at] = "gone"
    BY <1>0, <1>7 DEF MarkFailed, TypeOK
  <2> QED BY <1>d, <1>e, <2>1, <2>2
<1>8. CASE RollbackPreparedRedo(k) /\ live[k.at] # "down"
  <2>1. k.op = "RollbackPrepared" /\ tx' = tx /\ \E s : Advance(k, s)
    BY <1>8 DEF RollbackPreparedRedo
  <2> QED BY <1>8, <1>c, <2>1
<1>9. CASE (RollbackPreparedFetch(k) \/ RollbackTx(k)) /\ live[k.at] # "down"
  <2>1. \E v : Reply(k, v)
    BY <1>9 DEF RollbackPreparedFetch, RollbackTx
  <2>2. tx' = tx \/ (tx[k.at] \in {"open", "prepared"} /\ tx'[k.at] = "gone")
    BY <1>0, <1>9 DEF RollbackPreparedFetch, RollbackTx, TypeOK
  <2> QED BY <1>d, <1>e, <2>1, <2>2
<1> QED BY <1>1, <1>2, <1>3, <1>4, <1>5, <1>6, <1>7, <1>8, <1>9 DEF HandleParticipant

(* Restarts, kills and stops end the handlers with the connections.        *)
LEMMA EnvironmentConnection ==
  ASSUME TypeOK, CallInv, ConnectionInv,
         \/ \E k \in calls : Timeout(k)
         \/ RestartMM \/ KillMMTx
         \/ \E p \in Participants : Crash(p) \/ StopGently(p) \/ StopDone(p) \/ Open(p) \/ KillTx(p)
         \/ UNCHANGED vars
  PROVE  ConnectionInv'
<1> USE DEF Handles, mmVars, partVars
<1>0. \A k \in calls : k.op \in PartOps => k.at \in Participants
  BY CallPlace
<1>1. ASSUME NEW k \in calls, Timeout(k) PROVE ConnectionInv'
  <2> DEFINE n == [by |-> Late, op |-> k.op, at |-> k.at, step |-> k.step]
  <2>1. n.op = k.op /\ n.at = k.at /\ n.step = k.step
    OBVIOUS
  <2>2. calls' = (calls \ {k}) \cup {n} /\ tx' = tx /\ live' = live
    BY <1>1 DEF Timeout
  <2> HIDE DEF n
  <2> QED BY <2>1, <2>2, SMT DEF ConnectionInv
<1>2. CASE RestartMM
  <2>1. calls' \subseteq calls /\ tx' = tx /\ live' = live
    BY <1>2 DEF RestartMM, DropCalls
  <2> QED BY <2>1, ConnectionFrame DEF ConnectionInv
<1>3. ASSUME NEW p \in Participants, Crash(p) PROVE ConnectionInv'
  <2>1. calls' \subseteq calls /\ \A j \in calls' : j.at # p
    BY <1>3 DEF Crash, DropCalls
  <2>2. \A q \in Participants : q # p => tx'[q] = tx[q] /\ live'[q] = live[q]
    BY <1>3 DEF Crash, TypeOK
  <2> QED BY <1>0, <2>1, <2>2, ConnectionFrame DEF ConnectionInv, PartOps
<1>4. ASSUME NEW p \in Participants, StopGently(p) \/ KillTx(p) PROVE ConnectionInv'
  <2>1. calls' = calls /\ \A q \in Participants : live'[q] = "down" => live[q] = "down"
    BY <1>4 DEF StopGently, KillTx, TypeOK
  <2>2. \A q \in Participants : \/ tx'[q] = tx[q]
                                \/ tx'[q] = "gone" /\ tx[q] \in {"prepared", "open"}
    BY <1>4 DEF StopGently, KillTx, TypeOK
  <2>3. \A k \in calls : k.op \in {"Prepare", "CommitPrepared"} => k.at \in Participants
    BY <1>0 DEF PartOps
  <2> QED BY <2>1, <2>2, <2>3 DEF ConnectionInv
<1>5. ASSUME NEW p \in Participants, StopDone(p) PROVE ConnectionInv'
  <2>1. calls' = calls /\ tx' = tx /\ \A q \in Participants : q # p => live'[q] = live[q]
    BY <1>5 DEF StopDone, TypeOK
  <2>2. \A k \in calls : k.at = p => k.step = "sent"
    BY <1>5 DEF StopDone
  <2> QED BY <2>1, <2>2 DEF ConnectionInv
<1>6. ASSUME NEW p \in Participants, Open(p) PROVE ConnectionInv'
  <2>1. calls' = calls /\ \A k \in calls : k.at = p => k.step = "sent"
    BY <1>6 DEF Open, ConnectionInv
  <2>2. \A q \in Participants : q # p => live'[q] = live[q] /\ tx'[q] = tx[q]
    BY <1>6 DEF Open, TypeOK
  <2>3. \A k \in calls : k.op \in {"Prepare", "CommitPrepared"} => k.at \in Participants
    BY <1>0 DEF PartOps
  <2> QED BY <2>1, <2>2, <2>3 DEF ConnectionInv
<1>7. CASE UNCHANGED <<calls, tx, live>>
  BY <1>7 DEF ConnectionInv
<1> QED BY <1>1, <1>2, <1>3, <1>4, <1>5, <1>6, <1>7 DEF KillMMTx, vars

(* The bookkeeping of connections is inductive.                            *)
THEOREM ConnectionInvariant == Spec => []ConnectionInv
<1>1. Init => ConnectionInv
  BY DEF Init, ConnectionInv
<1>2. TypeOK /\ CallInv /\ ConnectionInv /\ [Next]_vars => ConnectionInv'
  BY CallerConnection, HandleMMConnection, HandleParticipantConnection, EnvironmentConnection DEF Next, Handle
<1> QED BY <1>1, <1>2, TypeCorrect, DecisionInvariant, PTL DEF Spec
-----------------------------------------------------------------------------
(* A Prepare at p that has still to write the redo log, and what Part      *)
(* calls pending.                                                          *)
Writing(p) == \E k \in calls : k.at = p /\ Handles(k, "Prepare", "redo")
Alive(p)   == tx[p] # "gone" \/ redo[p] # "none" \/ Writing(p)

(* Only PreparePut starts to write a redo log, with the connection         *)
(* prepared.                                                               *)
LEMMA HandlerWriting ==
  ASSUME TypeOK, CallInv, NEW k \in calls, HandleParticipant(k)
  PROVE  /\ \A p \in Participants : p # k.at => (Writing(p)' <=> Writing(p))
         /\ Writing(k.at)' => Writing(k.at) \/ (PreparePut(k) /\ tx'[k.at] = "prepared")
<1> USE DEF Handles
<1>1. \/ \E v : Reply(k, v)
      \/ \E s : Advance(k, s) /\ (k.op = "Prepare" /\ s = "redo" => PreparePut(k) /\ tx'[k.at] = "prepared")
  <2>1. CASE PreparePut(k)
    BY <2>1, HandlerFrame DEF PreparePut, TypeOK
  <2>2. CASE PrepareGet(k)
    BY <2>2, SMT DEF PrepareGet
  <2>3. CASE ~PreparePut(k) /\ ~PrepareGet(k)
    BY <2>3 DEF HandleParticipant, PrepareSaveRedo, CommitPreparedFetch,
      CommitPreparedCommit, CommitPreparedForget, SetFailed, MarkFailed,
      RollbackPreparedRedo, RollbackPreparedFetch, RollbackTx, Reject
  <2> QED BY <2>1, <2>2, <2>3
<1>2. CASE \E v : Reply(k, v)
  <2>1. calls' = calls \ {k}
    BY <1>2, ReplyGone
  <2> QED BY <2>1 DEF Writing
<1>3. ASSUME NEW s, Advance(k, s), k.op = "Prepare" /\ s = "redo" => PreparePut(k) /\ tx'[k.at] = "prepared"
      PROVE  /\ \A p \in Participants : p # k.at => (Writing(p)' <=> Writing(p))
             /\ Writing(k.at)' => Writing(k.at) \/ (PreparePut(k) /\ tx'[k.at] = "prepared")
  <2>1. PICK n : /\ calls' = (calls \ {k}) \cup {n}
                 /\ n.by = k.by /\ n.op = k.op /\ n.at = k.at /\ n.step = s
    BY <1>3, AdvanceFacts
  <2> QED BY <1>3, <2>1 DEF Writing
<1> QED BY <1>1, <1>2, <1>3

(* The part of a participant, before and after a step.                     *)
LEMMA PartOfWriter ==
  ASSUME NEW p \in Writers
  PROVE  /\ Part(p) = IF committed[p] THEN "committed" ELSE IF Alive(p) THEN "pending" ELSE "aborted"
         /\ Part(p)' = IF committed'[p] THEN "committed" ELSE IF Alive(p)' THEN "pending" ELSE "aborted"
<1>1. p # MM
  BY ConstantsAssumption
<1> QED BY <1>1 DEF Part, Alive, Writing

(* The part of the shard that holds the decision.                          *)
LEMMA PartOfMM ==
  ASSUME TypeOK, TypeOK'
  PROVE  /\ Part(MM) = CASE mmTx = "committed" -> "committed" [] mmTx = "gone" -> "aborted"
                         [] OTHER -> "pending"
         /\ Part(MM)' = CASE mmTx' = "committed" -> "committed" [] mmTx' = "gone" -> "aborted"
                          [] OTHER -> "pending"
<1>1. mmTx \in {"open", "busy", "committed", "gone"} /\ mmTx' \in {"open", "busy", "committed", "gone"}
  BY DEF TypeOK
<1> QED BY <1>1 DEF Part

(* A step that changes the part of at most one shard, in a way AtomicCommit *)
(* allows.                                                                 *)
LEMMA OneShard ==
  ASSUME NEW q \in Writers \cup {MM}, decision' = decision,
         \A s \in Writers \cup {MM} : s # q => Part(s)' = Part(s),
         \/ Part(q)' = Part(q)
         \/ Part(q) = "pending" /\ Part(q)' = "aborted" /\ decision # "COMMIT"
         \/ Part(q) = "pending" /\ Part(q)' = "committed" /\ decision = "COMMIT"
  PROVE  AC!Next \/ UNCHANGED AC!vars
<1> DEFINE P == [s \in Writers \cup {MM} |-> Part(s)]
<1> DEFINE Q == [s \in Writers \cup {MM} |-> Part(s)']
<1>0. P' = Q
  OBVIOUS
<1>1. CASE Part(q)' = Part(q)
  <2>1. \A s \in Writers \cup {MM} : Part(s)' = Part(s)
    BY <1>1
  <2>2. Q = P
    BY <2>1
  <2> QED BY <1>0, <2>2 DEF AC!vars
<1>2. CASE Part(q) = "pending" /\ Part(q)' = "aborted" /\ decision # "COMMIT"
  <2>1. P[q] = "pending" /\ P' = [P EXCEPT ![q] = "aborted"]
    BY <1>0, <1>2
  <2>2. AC!GiveUp(q)
    BY <1>2, <2>1 DEF AC!GiveUp
  <2> QED BY <2>2 DEF AC!Next
<1>3. CASE Part(q) = "pending" /\ Part(q)' = "committed" /\ decision = "COMMIT"
  <2>1. P[q] = "pending" /\ P' = [P EXCEPT ![q] = "committed"]
    BY <1>0, <1>3
  <2>2. AC!Commit(q)
    BY <1>3, <2>1 DEF AC!Commit
  <2> QED BY <2>2 DEF AC!Next
<1> QED BY <1>1, <1>2, <1>3

(* A step of one participant.                                              *)
LEMMA ParticipantPart ==
  ASSUME TypeOK, TypeOK', RedoInv, RedoInv', NEW q \in Participants, decision' = decision, mmTx' = mmTx,
         \A p \in Participants : p # q => committed'[p] = committed[p] /\ (Alive(p)' <=> Alive(p)),
         committed[q] => committed'[q],
         committed'[q] /\ ~committed[q] => decision = "COMMIT",
         ~committed'[q] /\ Alive(q)' => Alive(q)
  PROVE  AC!Next \/ UNCHANGED AC!vars
<1>1. Part(MM)' = Part(MM)
  BY PartOfMM
<1>2. \A p \in Writers : p # q => Part(p)' = Part(p)
  BY PartOfWriter
<1>3. CASE q \notin Writers
  <2>1. \A s \in Writers \cup {MM} : Part(s)' = Part(s)
    BY <1>1, <1>2, <1>3
  <2> QED BY <2>1, OneShard, SMT
<1>4. CASE q \in Writers
  <2>1. decision = "COMMIT" => (committed[q] \/ Alive(q)) /\ (committed'[q] \/ Alive(q)')
    BY <1>4 DEF RedoInv, Safe, Alive
  <2>2. \/ Part(q)' = Part(q)
        \/ Part(q) = "pending" /\ Part(q)' = "aborted" /\ decision # "COMMIT"
        \/ Part(q) = "pending" /\ Part(q)' = "committed" /\ decision = "COMMIT"
    BY <1>4, <2>1, PartOfWriter DEF TypeOK
  <2> QED BY <1>1, <1>2, <1>4, <2>2, OneShard
<1> QED BY <1>3, <1>4

(* A handler of a participant.                                             *)
LEMMA HandleParticipantPart ==
  ASSUME TypeOK, TypeOK', CallInv, DecisionInv, RedoInv, RedoInv', ConnectionInv,
         NEW k \in calls, HandleParticipant(k)
  PROVE  AC!Next \/ UNCHANGED AC!vars
<1> USE DEF Handles
<1> DEFINE q == k.at
<1>1. /\ q \in Participants /\ decision' = decision /\ mmTx' = mmTx
      /\ \A p \in Participants : p # q => /\ tx'[p] = tx[p] /\ redo'[p] = redo[p]
                                          /\ committed'[p] = committed[p]
  BY HandlerFrame DEF mmVars
<1>2. /\ \A p \in Participants : p # q => (Writing(p)' <=> Writing(p))
      /\ Writing(q)' => Writing(q) \/ PreparePut(k)
  BY HandlerWriting
<1>3. \A p \in Participants : p # q => (Alive(p)' <=> Alive(p))
  BY <1>1, <1>2 DEF Alive
<1>a. k.op = "CommitPrepared" => decision = "COMMIT"
  BY DEF DecisionInv
<1>b. /\ committed \in [Participants -> BOOLEAN] /\ committed' \in [Participants -> BOOLEAN]
      /\ tx \in [Participants -> {"open", "busy", "prepared", "committing", "gone"}]
      /\ DOMAIN redo = Participants
  BY DEF TypeOK
<1>4. (committed[q] => committed'[q]) /\ (committed'[q] /\ ~committed[q] => decision = "COMMIT")
  <2>1. CASE CommitPreparedCommit(k)
    <3>1. PICK done \in BOOLEAN : committed' = [committed EXCEPT ![k.at] = @ \/ done]
      BY <2>1 DEF CommitPreparedCommit
    <3>2. k.op = "CommitPrepared"
      BY <2>1 DEF CommitPreparedCommit
    <3>3. committed'[q] = (committed[q] \/ done)
      BY <1>1, <1>b, <3>1
    <3> QED BY <1>a, <3>2, <3>3
  <2>2. CASE PrepareGet(k) \/ PreparePut(k) \/ PrepareSaveRedo(k) \/ CommitPreparedFetch(k)
    BY <2>2 DEF PrepareGet, PreparePut, PrepareSaveRedo, CommitPreparedFetch, partVars
  <2>3. CASE CommitPreparedForget(k) \/ SetFailed(k) \/ MarkFailed(k)
    BY <2>3 DEF CommitPreparedForget, SetFailed, MarkFailed, partVars
  <2>4. CASE RollbackPreparedRedo(k) \/ RollbackPreparedFetch(k) \/ RollbackTx(k) \/ Reject(k)
    BY <2>4 DEF RollbackPreparedRedo, RollbackPreparedFetch, RollbackTx, Reject, partVars
  <2> QED BY <2>1, <2>2, <2>3, <2>4 DEF HandleParticipant
<1>5. Alive(q)' => Alive(q)
  <2>1. CASE PreparePut(k)
    <3>1. tx[q] = "busy"
      BY <2>1 DEF PreparePut, ConnectionInv
    <3> QED BY <3>1 DEF Alive
  <2>2. CASE PrepareSaveRedo(k)
    BY <2>2 DEF PrepareSaveRedo, Alive, Writing
  <2>3. ASSUME ~PreparePut(k), tx'[q] # "gone" => tx[q] # "gone", redo'[q] # "none" => redo[q] # "none"
        PROVE  Alive(q)' => Alive(q)
    BY <1>2, <2>3 DEF Alive
  <2>4. CASE PrepareGet(k) /\ ~PreparePut(k)
    BY <1>1, <1>b, <2>3, <2>4 DEF PrepareGet, partVars
  <2>5. CASE (CommitPreparedFetch(k) \/ CommitPreparedCommit(k)) /\ ~PreparePut(k)
    BY <1>1, <1>b, <2>3, <2>5 DEF CommitPreparedFetch, CommitPreparedCommit, partVars
  <2>6. CASE (CommitPreparedForget(k) \/ SetFailed(k) \/ MarkFailed(k)) /\ ~PreparePut(k)
    BY <1>1, <1>b, <2>3, <2>6 DEF CommitPreparedForget, SetFailed, MarkFailed, partVars
  <2>7. CASE (RollbackPreparedRedo(k) \/ RollbackPreparedFetch(k)) /\ ~PreparePut(k)
    BY <1>1, <1>b, <2>3, <2>7 DEF RollbackPreparedRedo, RollbackPreparedFetch
  <2>8. CASE (RollbackTx(k) \/ Reject(k)) /\ ~PreparePut(k)
    BY <1>1, <1>b, <2>3, <2>8 DEF RollbackTx, Reject, partVars
  <2> QED BY <2>1, <2>2, <2>4, <2>5, <2>6, <2>7, <2>8 DEF HandleParticipant
<1> HIDE DEF q
<1> QED BY <1>1, <1>3, <1>4, <1>5, ParticipantPart

(* The metadata manager's steps change no other shard's part.              *)
LEMMA ManagerPart ==
  ASSUME TypeOK, TypeOK', DecisionInv, DecisionInv', RedoInv, UNCHANGED partVars,
         \A p \in Participants : Writing(p)' <=> Writing(p),
         \/ decision' = decision
         \/ decision = "none" /\ decision' = "ROLLBACK" /\ mmTx' = mmTx
         \/ /\ decision = "none" /\ decision' = "COMMIT" /\ mmTx = "busy" /\ mmTx' = "committed"
            /\ \A p \in Writers : Safe(p),
         mmTx = "gone" => mmTx' = "gone"
  PROVE  AC!Next \/ UNCHANGED AC!vars
<1>1. \A p \in Writers : Part(p)' = Part(p)
  BY PartOfWriter DEF partVars, Alive
<1>2. mmTx \in {"open", "busy", "committed", "gone"} /\ mmTx' \in {"open", "busy", "committed", "gone"}
  BY DEF TypeOK
<1>3. /\ mmTx = "committed" <=> decision = "COMMIT"
      /\ mmTx' = "committed" <=> decision' = "COMMIT"
      /\ decision = "none" => \A p \in Participants : ~committed[p]
  BY DEF DecisionInv, CommitIsDecided
<1>4. CASE decision' = decision
  <2>1. \/ Part(MM)' = Part(MM)
        \/ Part(MM) = "pending" /\ Part(MM)' = "aborted" /\ decision # "COMMIT"
    BY <1>2, <1>3, <1>4, PartOfMM
  <2> QED BY <1>1, <1>4, <2>1, OneShard
<1> DEFINE P == [s \in Writers \cup {MM} |-> Part(s)]
<1> DEFINE Q == [s \in Writers \cup {MM} |-> Part(s)']
<1>0. P' = Q
  OBVIOUS
<1>5. CASE decision = "none" /\ decision' = "ROLLBACK" /\ mmTx' = mmTx
  <2>1. Part(MM)' = Part(MM)
    BY <1>5, PartOfMM
  <2>2. Q = P
    BY <1>1, <2>1
  <2>3. AC!DecideRollback
    BY <1>0, <1>5, <2>2 DEF AC!DecideRollback
  <2> QED BY <2>3 DEF AC!Next
<1>6. CASE /\ decision = "none" /\ decision' = "COMMIT" /\ mmTx = "busy" /\ mmTx' = "committed"
           /\ \A p \in Writers : Safe(p)
  <2>1. Part(MM) = "pending" /\ Part(MM)' = "committed"
    BY <1>6, PartOfMM
  <2>2. \A p \in Writers : Part(p) = "pending"
    BY <1>3, <1>6, PartOfWriter DEF Safe, Alive
  <2>3. Q = [P EXCEPT ![MM] = "committed"] /\ \A s \in Writers \cup {MM} : P[s] = "pending"
    BY <1>1, <2>1, <2>2
  <2>4. AC!DecideCommit
    BY <1>0, <1>6, <2>3 DEF AC!DecideCommit
  <2> QED BY <2>4 DEF AC!Next
<1> QED BY <1>4, <1>5, <1>6

(* Away from the participants only the decision changes: DecideCommit,     *)
(* DecideRollback or a stutter.                                            *)
LEMMA AwayPart ==
  ASSUME TypeOK, TypeOK', CallInv, DecisionInv, DecisionInv', RedoInv, AwayStep
  PROVE  AC!Next \/ UNCHANGED AC!vars
<1> USE DEF Handles
<1>1. UNCHANGED partVars
  BY AwayFacts
<1>2. \A p \in Participants : Writing(p)' <=> Writing(p)
  BY AwayFacts, SMT DEF Writing, PartOps
<1>3. ASSUME NEW k \in calls, StartCommit(k) PROVE AC!Next \/ UNCHANGED AC!vars
  <2>1. mmTx = "busy" /\ \A p \in Writers : Safe(p)
    BY <1>3 DEF StartCommit, DecisionInv, RedoInv
  <2>2. decision' = decision \/ (decision = "none" /\ decision' = "COMMIT" /\ mmTx' = "committed")
    BY <1>3 DEF StartCommit, Transition, DecisionInv
  <2> QED BY <1>1, <1>2, <2>1, <2>2, ManagerPart
<1>4. ASSUME NEW k \in calls, SetRollback(k) PROVE AC!Next \/ UNCHANGED AC!vars
  <2>1. mmTx' = mmTx /\ (decision' = decision \/ (decision = "none" /\ decision' = "ROLLBACK"))
    BY <1>4 DEF SetRollback, Transition, DecisionInv
  <2> QED BY <1>1, <1>2, <2>1, ManagerPart
<1>5. CASE decision' = decision /\ (mmTx = "gone" => mmTx' = "gone")
  BY <1>1, <1>2, <1>5, ManagerPart
<1>6. ASSUME NEW k \in calls, HandleMM(k), ~StartCommit(k), ~SetRollback(k)
      PROVE  decision' = decision /\ (mmTx = "gone" => mmTx' = "gone")
  BY <1>6 DEF HandleMM, CreateTransaction, StartCommitGet, SetRollbackTx,
    ConcludeTransaction, ReadTransaction, RollbackMM, mmVars
<1>7. ASSUME NEW c \in Callers, Resolve(c) PROVE UNCHANGED mmVars
  BY <1>7 DEF Resolve, AfterRead, AfterSetRollback, AfterParticipants, AfterConclude, Enter, Finish
<1>8. CASE \/ GateStep \/ \E r \in Resolvers : ResolverStep(r)
           \/ (\E k \in calls : Timeout(k)) \/ UNCHANGED vars
  <2>1. UNCHANGED mmVars
    BY <1>7, <1>8 DEF GateStep, Commit2PC, AfterCreate, AfterRollback, AfterPrepare,
      AfterStartCommit, ResolverStep, Watchdog, Enter, Finish, Timeout, vars
  <2> QED BY <1>5, <2>1 DEF mmVars
<1>9. CASE RestartMM \/ KillMMTx
  BY <1>5, <1>9 DEF RestartMM, KillMMTx
<1> QED BY <1>3, <1>4, <1>5, <1>6, <1>8, <1>9 DEF AwayStep

(* Crashes, restarts and shutdowns give up at most the tablet's own part.  *)
LEMMA TabletPart ==
  ASSUME TypeOK, TypeOK', RedoInv, RedoInv', NEW q \in Participants,
         Crash(q) \/ StopGently(q) \/ StopDone(q) \/ Open(q) \/ KillTx(q)
  PROVE  AC!Next \/ UNCHANGED AC!vars
<1>1. decision' = decision /\ mmTx' = mmTx /\ redo' = redo /\ committed' = committed
  BY DEF Crash, StopGently, StopDone, Open, KillTx, mmVars
<1>2. \A p \in Participants : p # q => tx'[p] = tx[p]
  BY SMT DEF Crash, StopGently, StopDone, Open, KillTx, TypeOK
<1>3. calls' = calls \/ calls' = {k \in calls : k.at # q}
  BY DEF Crash, StopGently, StopDone, Open, KillTx, DropCalls
<1>4. /\ \A p \in Participants : p # q => (Writing(p)' <=> Writing(p))
      /\ Writing(q)' => Writing(q)
  BY <1>3 DEF Writing
<1>5. tx'[q] # "gone" => tx[q] # "gone" \/ redo[q] # "none"
  BY DEF Crash, StopGently, StopDone, Open, KillTx, TypeOK
<1> QED BY <1>1, <1>2, <1>4, <1>5, ParticipantPart DEF Alive

(* The protocol implements atomic commitment over the shards with changes, *)
(* for any number of them and through any number of timeouts, crashes,     *)
(* restarts and shutdowns.                                                 *)
THEOREM TwoPCImplementsAtomicCommit == Spec => ImplementsAtomicCommit
<1> DEFINE Inv == TypeOK /\ CallInv /\ DecisionInv /\ RedoInv /\ ConnectionInv
<1>1. Init => AC!Init
  <2> SUFFICES ASSUME Init PROVE AC!Init
    OBVIOUS
  <2>1. Part(MM) = "pending"
    BY DEF Init, Part
  <2>2. \A p \in Writers : Part(p) = "pending"
    BY ConstantsAssumption DEF Init, Part
  <2>3. [s \in Writers \cup {MM} |-> Part(s)] = [s \in Writers \cup {MM} |-> "pending"]
    BY <2>1, <2>2
  <2> QED BY <2>3 DEF Init, AC!Init
<1>2. Inv /\ Inv' /\ [Next]_vars => [AC!Next]_AC!vars
  <2> SUFFICES ASSUME Inv, Inv', [Next]_vars PROVE AC!Next \/ UNCHANGED AC!vars
    OBVIOUS
  <2> QED BY AwayPart, HandleParticipantPart, TabletPart DEF Next, Handle, AwayStep
<1>3. Spec => []Inv
  BY TypeCorrect, DecisionInvariant, RedoInvariant, ConnectionInvariant, PTL
<1> QED BY <1>1, <1>2, <1>3, PTL DEF Spec, ImplementsAtomicCommit, AC!Spec

(* No shard's part is committed while another shard's part is lost.        *)
THEOREM PartsAreAtomic == Spec => []AC!Atomic
<1>1. TypeOK /\ DecisionInv /\ RedoInv => AC!Atomic
  <2> SUFFICES ASSUME TypeOK, DecisionInv, RedoInv, NEW s \in Writers \cup {MM}, NEW t \in Writers \cup {MM},
                      Part(s) = "committed", Part(t) = "aborted"
               PROVE  FALSE
    BY DEF AC!Atomic
  <2>0. /\ mmTx \in {"open", "busy", "committed", "gone"} /\ MM \notin Participants
        /\ (mmTx = "committed") <=> (decision = "COMMIT")
    BY ConstantsAssumption DEF TypeOK, DecisionInv, CommitIsDecided
  <2>1. decision = "COMMIT"
    <3>1. CASE s = MM
      BY <2>0, <3>1 DEF Part, DecisionInv, CommitIsDecided
    <3>2. CASE s \in Writers
      BY <3>2, PartOfWriter DEF DecisionInv, CommitIsDecided
    <3> QED BY <3>1, <3>2
  <2>2. CASE t = MM
    BY <2>0, <2>1, <2>2 DEF Part, DecisionInv, CommitIsDecided
  <2>3. CASE t \in Writers
    BY <2>1, <2>3, PartOfWriter DEF RedoInv, Safe, Alive
  <2> QED BY <2>2, <2>3
<1> QED BY <1>1, TypeCorrect, DecisionInvariant, RedoInvariant, PTL
-----------------------------------------------------------------------------
(* MySQL forgets no commit.                                                *)
LEMMA CommittedKept ==
  ASSUME TypeOK, CallInv, [Next]_vars, NEW p \in Participants, committed[p]
  PROVE  committed'[p]
<1>1. CASE AwayStep
  BY <1>1, AwayFacts DEF partVars
<1>2. ASSUME NEW q \in Participants, Crash(q) \/ StopGently(q) \/ StopDone(q) \/ Open(q) \/ KillTx(q)
      PROVE  committed'[p]
  BY <1>2 DEF Crash, StopGently, StopDone, Open, KillTx
<1>3. ASSUME NEW k \in calls, HandleParticipant(k) PROVE committed'[p]
  <2>1. CASE CommitPreparedCommit(k)
    BY <2>1 DEF CommitPreparedCommit, TypeOK
  <2>2. CASE ~CommitPreparedCommit(k)
    BY <1>3, <2>2 DEF HandleParticipant, PrepareGet, PreparePut, PrepareSaveRedo,
      CommitPreparedFetch, CommitPreparedForget, SetFailed, MarkFailed,
      RollbackPreparedRedo, RollbackPreparedFetch, RollbackTx, Reject, partVars
  <2> QED BY <2>1, <2>2
<1> QED BY <1>1, <1>2, <1>3 DEF Next, Handle, AwayStep
-----------------------------------------------------------------------------
(* An ok answer of CommitPrepared.  The answer is given without a commit   *)
(* when the dtid is neither reserved nor in the prepared pool, so the pool *)
(* has to hold whatever is in the redo log of a tablet that serves.  This  *)
(* needs that no tablet is shut down gracefully (rollbackPrepared empties  *)
(* the pool while requests are admitted) and that prepareFromRedo restores *)
(* every redo log.                                                         *)
Held(p) ==
  /\ live[p] # "down" /\ ~committed[p] /\ decision # "ROLLBACK"
  /\ redo[p] # "none" \/ Writing(p)
  /\ reserved[p] = "none"
  => tx[p] = "prepared"

(* A CommitPrepared that has taken the connection keeps the dtid reserved  *)
(* until the commit is done.                                               *)
ReservedInv ==
  \A k \in calls : k.op = "CommitPrepared" /\ k.step # "sent" =>
    /\ reserved[k.at] # "none" \/ committed[k.at]
    /\ k.step = "forget" => committed[k.at]

HeldInv == ReservedInv /\ \A p \in Participants : Held(p)

(* Away from the participants nothing is let go.                           *)
LEMMA AwayHeld ==
  ASSUME TypeOK, CallInv, DecisionInv, HeldInv, [Next]_vars, AwayStep
  PROVE  HeldInv'
<1>1. /\ UNCHANGED <<tx, redo, reserved, committed, live>>
      /\ \A j \in calls' : j.op \in PartOps /\ j.step # "sent"
           => \E i \in calls : i.op = j.op /\ i.step = j.step /\ i.at = j.at
  BY AwayFacts DEF partVars
<1>2. decision = "ROLLBACK" => decision' = "ROLLBACK"
  BY DecisionFinalStep
<1>3. \A p \in Participants : Writing(p)' => Writing(p)
  BY <1>1 DEF Writing, Handles, PartOps
<1>4. ReservedInv'
  BY <1>1, SMT DEF HeldInv, ReservedInv, PartOps
<1>5. \A p \in Participants : Held(p)'
  BY <1>1, <1>2, <1>3 DEF HeldInv, Held
<1> QED BY <1>4, <1>5 DEF HeldInv

(* The handler that reserves a dtid to commit it gives it back when the    *)
(* commit is done, or marks it failed.                                     *)
LEMMA HandleReserved ==
  ASSUME TypeOK, CallInv, DecisionInv, HeldInv, [Next]_vars, NEW k \in calls, HandleParticipant(k)
  PROVE  ReservedInv'
<1> USE DEF Handles
<1>0. /\ k.at \in Participants
      /\ \A j \in calls : j.op = "CommitPrepared" => j.at \in Participants /\ decision = "COMMIT"
      /\ \A p \in Participants : p # k.at => reserved'[p] = reserved[p]
  BY CallPlace, HandlerFrame DEF DecisionInv, PartOps
<1>1. \A p \in Participants : committed[p] => committed'[p]
  BY CommittedKept
<1>2. \A j \in calls : j.op = "CommitPrepared" /\ j.step # "sent"
        => reserved'[j.at] # "none" \/ committed'[j.at]
  <2>1. CASE CommitPreparedForget(k)
    BY <1>0, <1>1, <2>1 DEF CommitPreparedForget, HeldInv, ReservedInv
  <2>2. CASE RollbackPreparedFetch(k)
    BY <1>0, <2>2 DEF RollbackPreparedFetch, DecisionInv
  <2>3. CASE ~CommitPreparedForget(k) /\ ~RollbackPreparedFetch(k)
    <3>1. reserved[k.at] # "none" => reserved'[k.at] # "none"
      BY <1>0, <2>3 DEF HandleParticipant, PrepareGet, PreparePut, PrepareSaveRedo, CommitPreparedFetch,
        CommitPreparedCommit, SetFailed, MarkFailed, RollbackPreparedRedo, RollbackTx, Reject, TypeOK, partVars
    <3> QED BY <1>0, <1>1, <3>1 DEF HeldInv, ReservedInv
  <2> QED BY <2>1, <2>2, <2>3
<1>3. \A j \in calls : j.op = "CommitPrepared" /\ j.step = "forget" => committed'[j.at]
  BY <1>0, <1>1 DEF HeldInv, ReservedInv
<1>4. CASE \E v \in {"ok", "err"} : Reply(k, v)
  <2>1. calls' = calls \ {k}
    BY <1>4, ReplyGone
  <2> QED BY <1>2, <1>3, <2>1 DEF ReservedInv
<1>5. ASSUME NEW s, Advance(k, s),
             k.op = "CommitPrepared" => /\ reserved'[k.at] # "none" \/ committed'[k.at]
                                        /\ s = "forget" => committed'[k.at]
      PROVE  ReservedInv'
  <2>1. PICK n : /\ calls' = (calls \ {k}) \cup {n}
                 /\ n.by = k.by /\ n.op = k.op /\ n.at = k.at /\ n.step = s
    BY <1>5, AdvanceFacts
  <2> QED BY <1>2, <1>3, <1>5, <2>1 DEF ReservedInv
<1>6. CASE CommitPreparedFetch(k)
  <2>1. (\E v \in {"ok", "err"} : Reply(k, v)) \/ (Advance(k, "commit") /\ reserved'[k.at] = "committing")
    BY <1>0, <1>6 DEF CommitPreparedFetch, TypeOK
  <2> QED BY <1>4, <1>5, <2>1
<1>7. CASE CommitPreparedCommit(k)
  <2>1. reserved'[k.at] # "none" \/ committed'[k.at]
    BY <1>2, <1>7 DEF CommitPreparedCommit
  <2>2. PICK done \in BOOLEAN, r \in {"ok", "err"} :
          /\ LocalTx(done, r)
          /\ committed' = [committed EXCEPT ![k.at] = @ \/ done]
          /\ Advance(k, IF r = "ok" THEN "forget" ELSE "fail")
    BY <1>7 DEF CommitPreparedCommit
  <2>3. CASE r = "ok"
    <3>1. committed'[k.at]
      BY <1>0, <2>2, <2>3 DEF LocalTx, TypeOK
    <3> QED BY <1>5, <2>1, <2>2, <3>1
  <2>4. CASE r = "err"
    BY <1>5, <2>1, <2>2, <2>4
  <2> QED BY <2>3, <2>4
<1>8. CASE SetFailed(k)
  <2>1. Advance(k, "mark") /\ reserved'[k.at] = "failed"
    BY <1>0, <1>8 DEF SetFailed, TypeOK
  <2> QED BY <1>5, <2>1
<1>9. CASE ~(CommitPreparedFetch(k) \/ CommitPreparedCommit(k) \/ SetFailed(k))
  <2>1. (\E v \in {"ok", "err"} : Reply(k, v)) \/ (k.op # "CommitPrepared" /\ \E s : Advance(k, s))
    BY <1>9 DEF HandleParticipant, PrepareGet, PreparePut, PrepareSaveRedo, CommitPreparedForget,
      MarkFailed, RollbackPreparedRedo, RollbackPreparedFetch, RollbackTx, Reject
  <2> QED BY <1>4, <1>5, <2>1
<1> QED BY <1>6, <1>7, <1>8, <1>9

(* A handler of a participant lets a prepared transaction go only by       *)
(* committing it, or under a decision to roll back.                        *)
LEMMA HandleHeld ==
  ASSUME TypeOK, CallInv, DecisionInv, ConnectionInv, HeldInv, NEW k \in calls, HandleParticipant(k),
         NEW p \in Participants
  PROVE  Held(p)'
<1> USE DEF Handles
<1>0. /\ k.at \in Participants /\ decision' = decision /\ live' = live
      /\ p # k.at => /\ tx'[p] = tx[p] /\ redo'[p] = redo[p]
                     /\ reserved'[p] = reserved[p] /\ committed'[p] = committed[p]
  BY HandlerFrame DEF mmVars
<1>1. /\ p # k.at => (Writing(p)' <=> Writing(p))
      /\ Writing(k.at)' => Writing(k.at) \/ (PreparePut(k) /\ tx'[k.at] = "prepared")
  BY HandlerWriting
<1>2. Held(p)
  BY DEF HeldInv
<1>3. CASE p # k.at
  BY <1>0, <1>1, <1>2, <1>3 DEF Held
<1>4. CASE p = k.at
  <2>1. CASE PrepareGet(k) \/ RollbackTx(k) \/ Reject(k)
    <3>1. UNCHANGED <<redo, reserved, committed>> /\ (tx'[p] = tx[p] \/ tx[p] = "open") /\ ~PreparePut(k)
      BY <1>4, <2>1 DEF PrepareGet, RollbackTx, Reject, PreparePut, partVars, TypeOK
    <3> QED BY <1>0, <1>1, <1>2, <1>4, <3>1 DEF Held
  <2>2. CASE PreparePut(k)
    <3>1. tx[p] = "busy" /\ UNCHANGED <<redo, reserved, committed>>
      BY <1>4, <2>2 DEF PreparePut, ConnectionInv
    <3> QED BY <1>0, <1>1, <1>2, <1>4, <3>1 DEF Held
  <2>3. CASE PrepareSaveRedo(k)
    <3>1. Writing(p) /\ UNCHANGED <<tx, reserved, committed>>
      BY <1>4, <2>3 DEF PrepareSaveRedo, Writing
    <3> QED BY <1>0, <1>2, <3>1 DEF Held
  <2>4. CASE CommitPreparedFetch(k)
    <3>1. UNCHANGED <<redo, committed>> /\ (reserved'[p] # "none" \/ UNCHANGED <<tx, reserved>>) /\ ~PreparePut(k)
      BY <1>4, <2>4 DEF CommitPreparedFetch, PreparePut, TypeOK
    <3> QED BY <1>0, <1>1, <1>2, <1>4, <3>1 DEF Held
  <2>5. CASE CommitPreparedCommit(k)
    <3>1. committed'[p] \/ UNCHANGED <<tx, redo, committed>>
      BY <1>4, <2>5, SMT DEF CommitPreparedCommit, TypeOK
    <3>2. reserved' = reserved /\ ~PreparePut(k)
      BY <2>5 DEF CommitPreparedCommit, PreparePut
    <3> QED BY <1>0, <1>1, <1>2, <1>4, <3>1, <3>2 DEF Held
  <2>6. CASE CommitPreparedForget(k)
    <3>1. committed[p] /\ committed' = committed
      BY <1>4, <2>6 DEF CommitPreparedForget, HeldInv, ReservedInv
    <3> QED BY <3>1 DEF Held
  <2>7. CASE SetFailed(k)
    <3>1. reserved'[p] = "failed"
      BY <1>4, <2>7 DEF SetFailed, TypeOK
    <3> QED BY <3>1 DEF Held
  <2>8. CASE MarkFailed(k)
    <3>1. (reserved[p] # "none" \/ committed[p]) /\ UNCHANGED <<reserved, committed>>
      BY <1>4, <2>8 DEF MarkFailed, HeldInv, ReservedInv
    <3> QED BY <3>1 DEF Held
  <2>9. CASE RollbackPreparedRedo(k) \/ RollbackPreparedFetch(k)
    <3>1. decision = "ROLLBACK"
      BY <2>9 DEF RollbackPreparedRedo, RollbackPreparedFetch, DecisionInv
    <3> QED BY <1>0, <3>1 DEF Held
  <2> QED BY <2>1, <2>2, <2>3, <2>4, <2>5, <2>6, <2>7, <2>8, <2>9 DEF HandleParticipant
<1> QED BY <1>3, <1>4

(* A crash leaves the redo log, from which Open restores the transaction.  *)
LEMMA TabletHeld ==
  ASSUME TypeOK, CallInv, DecisionInv, ConnectionInv, HeldInv, MayStop = FALSE, RedoMayFail = FALSE,
         NEW q \in Participants, Crash(q) \/ StopGently(q) \/ StopDone(q) \/ Open(q) \/ KillTx(q)
  PROVE  HeldInv'
<1> USE DEF Handles
<1>1. decision' = decision /\ redo' = redo /\ committed' = committed
  BY DEF Crash, StopGently, StopDone, Open, KillTx, mmVars
<1>2. \A p \in Participants : p # q => tx'[p] = tx[p] /\ reserved'[p] = reserved[p] /\ live'[p] = live[p]
  BY DEF Crash, StopGently, StopDone, Open, KillTx, TypeOK
<1>3. calls' \subseteq calls
  BY DEF Crash, StopGently, StopDone, Open, KillTx, DropCalls
<1>4. \A p \in Participants : Writing(p)' => Writing(p)
  BY <1>3 DEF Writing
<1>5. \/ reserved[q] # "none" => reserved'[q] # "none"
      \/ \A k \in calls' : k.at # q
  BY SMT DEF Crash, StopGently, StopDone, Open, KillTx, DropCalls, TypeOK
<1>6. \A k \in calls : k.op = "CommitPrepared" => k.at \in Participants
  BY CallPlace DEF PartOps
<1>7. ReservedInv'
  BY <1>1, <1>2, <1>3, <1>5, <1>6 DEF HeldInv, ReservedInv
<1>8. Held(q)'
  <2>1. CASE Crash(q) \/ StopDone(q) \/ StopGently(q)
    <3>1. live'[q] = "down"
      BY <2>1 DEF Crash, StopDone, StopGently, TypeOK
    <3> QED BY <3>1 DEF Held
  <2>2. CASE KillTx(q)
    BY <1>1, <1>4, <2>2 DEF KillTx, HeldInv, Held
  <2>3. CASE Open(q)
    <3>1. ~Writing(q)'
      BY <1>4, <2>3 DEF Open, ConnectionInv, Writing
    <3>2. redo[q] \in {"none", "prepared", "failed"}
      BY DEF TypeOK
    <3>3. redo[q] # "none" => reserved'[q] # "none" \/ tx'[q] = "prepared"
      BY <2>3, <3>2 DEF Open, TypeOK
    <3> QED BY <1>1, <3>1, <3>3 DEF Held
  <2> QED BY <2>1, <2>2, <2>3
<1>9. \A p \in Participants : p # q => Held(p)'
  BY <1>1, <1>2, <1>4 DEF HeldInv, Held
<1> QED BY <1>7, <1>8, <1>9 DEF HeldInv

(* HeldInv is an invariant of the tablets that never stop gracefully and   *)
(* whose redo always succeeds: a transaction that will be committed is in  *)
(* the prepared pool or in the redo log until it is.                       *)
THEOREM HeldInvariant ==
  ASSUME MayStop = FALSE, RedoMayFail = FALSE
  PROVE  Spec => []HeldInv
<1>1. Init => HeldInv
  BY DEF Init, HeldInv, ReservedInv, Held, Writing
<1>2. TypeOK /\ CallInv /\ DecisionInv /\ ConnectionInv /\ HeldInv /\ [Next]_vars => HeldInv'
  <2> SUFFICES ASSUME TypeOK, CallInv, DecisionInv, ConnectionInv, HeldInv, [Next]_vars PROVE HeldInv'
    OBVIOUS
  <2>1. ASSUME NEW k \in calls, HandleParticipant(k) PROVE HeldInv'
    BY <2>1, HandleReserved, HandleHeld DEF HeldInv
  <2> QED BY <2>1, AwayHeld, TabletHeld DEF Next, Handle, AwayStep
<1> QED BY <1>1, <1>2, TypeCorrect, DecisionInvariant, ConnectionInvariant, PTL DEF Spec
(* CommitPrepared answers ok only for a committed transaction.             *)
LEMMA CommitPreparedAnswer ==
  ASSUME TypeOK, CallInv, DecisionInv, RedoInv, HeldInv, NEW k \in calls, HandleParticipant(k),
         k.op = "CommitPrepared"
  PROVE  \/ Reply(k, "err") \/ \E s : Advance(k, s)
         \/ Reply(k, "ok") /\ (k.at \in Writers => committed'[k.at])
<1> USE DEF Handles
<1>0. decision = "COMMIT" /\ k.at \in Participants
  BY DEF DecisionInv, HandleParticipant
<1>1. CASE CommitPreparedFetch(k) /\ live[k.at] # "down"
  <2>1. CASE reserved[k.at] = "none" /\ tx[k.at] # "prepared"
    <3>1. Reply(k, "ok") /\ committed' = committed
      BY <1>1, <2>1 DEF CommitPreparedFetch
    <3>2. k.at \in Writers => committed[k.at] \/ redo[k.at] # "none"
      BY <1>0 DEF RedoInv, Safe
    <3>3. k.at \in Writers => committed[k.at]
      BY <1>0, <1>1, <2>1, <3>2 DEF HeldInv, Held
    <3> QED BY <3>1, <3>3
  <2> QED BY <1>1, <2>1 DEF CommitPreparedFetch
<1>2. CASE CommitPreparedForget(k)
  BY <1>2 DEF CommitPreparedForget, HeldInv, ReservedInv
<1>3. CASE CommitPreparedCommit(k) \/ SetFailed(k) \/ MarkFailed(k) \/ Reject(k)
  BY <1>3 DEF CommitPreparedCommit, SetFailed, MarkFailed, Reject
<1> QED BY <1>1, <1>2, <1>3 DEF HandleParticipant, PrepareGet, PreparePut, PrepareSaveRedo,
      RollbackPreparedRedo, RollbackPreparedFetch, RollbackTx

(* The answers a step adds: got changes only where a call is answered, an  *)
(* operation is entered or left, or an error is reported.                  *)
LEMMA AckStep ==
  ASSUME TypeOK, CallInv, DecisionInv, RedoInv, HeldInv, AckedIsCommitted, [Next]_vars
  PROVE  AckedIsCommitted'
<1> USE DEF Handles
<1>0. \A p \in Writers : committed[p] => committed'[p]
  BY CommittedKept
<1>a. ASSUME pc' = pc, \A c \in Callers, p \in Writers : got'[c][p] = "ok" => got[c][p] = "ok"
      PROVE  AckedIsCommitted'
  BY <1>0, <1>a DEF AckedIsCommitted
<1>b. ASSUME NEW c \in Callers, \A p \in Writers : got'[c][p] # "ok",
             \A d \in Callers : d # c => got'[d] = got[d] /\ pc'[d] = pc[d]
      PROVE  AckedIsCommitted'
  BY <1>0, <1>b DEF AckedIsCommitted
<1>c. ASSUME NEW s \in Shards, DropCalls(s) PROVE AckedIsCommitted'
  <2>1. pc' = pc /\ \A c \in Callers, p \in Writers : got'[c][p] = "ok" => got[c][p] = "ok"
    BY <1>c DEF DropCalls
  <2> QED BY <1>a, <2>1
<1>d. CASE UNCHANGED <<pc, got>>
  BY <1>a, <1>d
<1>1. CASE GateStep \/ \E r \in Resolvers : ResolverStep(r)
  <2> USE DEF Ops, MMOps, PartOps
  <2>1. ASSUME NEW c \in Callers, NEW op \in Ops, Enter(c, op) PROVE AckedIsCommitted'
    <3>1. \A p \in Writers : got'[c][p] \in {"wait", "unset"}
      BY <2>1 DEF Enter, TypeOK
    <3>2. \A d \in Callers : d # c => got'[d] = got[d] /\ pc'[d] = pc[d]
      BY <2>1 DEF Enter, TypeOK
    <3> QED BY <1>b, <3>1, <3>2
  <2>2. ASSUME NEW c \in Callers, Finish(c) PROVE AckedIsCommitted'
    <3>1. \A p \in Writers : got'[c][p] = "unset"
      BY <2>2 DEF Finish, TypeOK
    <3>2. \A d \in Callers : d # c => got'[d] = got[d] /\ pc'[d] = pc[d]
      BY <2>2 DEF Finish, TypeOK
    <3> QED BY <1>b, <3>1, <3>2
  <2>3. ASSUME NEW c \in Callers, Resolve(c) PROVE (\E op \in Ops : Enter(c, op)) \/ Finish(c)
    BY <2>3 DEF Resolve, AfterRead, AfterSetRollback, AfterParticipants, AfterConclude
  <2>4. ASSUME GateStep PROVE (\E op \in Ops : Enter(Gate, op)) \/ Finish(Gate)
    BY <2>3, <2>4 DEF GateStep, Commit2PC, AfterCreate, AfterRollback, AfterPrepare, AfterStartCommit
  <2>5. ASSUME NEW r \in Resolvers, ResolverStep(r) PROVE (\E op \in Ops : Enter(r, op)) \/ Finish(r)
    BY <2>3, <2>5 DEF ResolverStep, Watchdog
  <2> QED BY <1>1, <2>1, <2>2, <2>4, <2>5
<1>2. ASSUME NEW k \in calls, HandleMM(k) PROVE AckedIsCommitted'
  <2>1. (\E v : Reply(k, v)) \/ (\E s \in Steps : Advance(k, s))
    BY <1>2 DEF HandleMM, CreateTransaction, StartCommitGet, StartCommit, SetRollbackTx, SetRollback,
      ConcludeTransaction, ReadTransaction, RollbackMM, Steps
  <2>2. k.at = MM /\ MM \notin Writers
    BY <1>2, ConstantsAssumption DEF HandleMM
  <2>3. CASE \E v : Reply(k, v)
    <3>1. pc' = pc /\ \A c \in Callers, p \in Writers : got'[c][p] = got[c][p]
      BY <2>2, <2>3, ReplyFacts, SMT
    <3> QED BY <1>a, <3>1
  <2> QED BY <1>d, <2>1, <2>3, AdvanceFacts
<1>3. ASSUME NEW k \in calls, HandleParticipant(k) PROVE AckedIsCommitted'
  <2>1. ASSUME NEW v \in {"ok", "err"}, Reply(k, v),
               k.op = "CommitPrepared" /\ k.at \in Writers => v = "err" \/ committed'[k.at]
        PROVE  AckedIsCommitted'
    <3>1. /\ pc' = pc
          /\ \A c \in Callers, s \in Shards : got'[c][s] = IF c = k.by /\ s = k.at THEN v ELSE got[c][s]
          /\ \A c \in Callers : c = k.by => pc[c] = k.op
      BY <2>1, ReplyFacts
    <3>2. ASSUME NEW c \in Callers, NEW p \in Writers, pc'[c] = "CommitPrepared", got'[c][p] = "ok"
          PROVE  committed'[p]
      <4>1. CASE c = k.by /\ p = k.at
        BY <2>1, <3>1, <3>2, <4>1
      <4>2. CASE ~(c = k.by /\ p = k.at)
        <5>1. pc[c] = "CommitPrepared" /\ got[c][p] = "ok"
          BY <3>1, <3>2, <4>2
        <5> QED BY <1>0, <5>1 DEF AckedIsCommitted
      <4> QED BY <4>1, <4>2
    <3> QED BY <3>2 DEF AckedIsCommitted
  <2>2. ASSUME NEW s, Advance(k, s) PROVE AckedIsCommitted'
    BY <1>d, <2>2, AdvanceFacts
  <2>3. CASE k.op = "CommitPrepared"
    BY <1>3, <2>1, <2>2, <2>3, CommitPreparedAnswer
  <2>4. CASE k.op # "CommitPrepared"
    BY <1>3, <2>1, <2>2, <2>4, HandlerFrame
  <2> QED BY <2>3, <2>4
<1>4. ASSUME NEW k \in calls, Timeout(k) PROVE AckedIsCommitted'
  <2>1. k.by \in Callers /\ k.at \in Shards
    BY <1>4 DEF Timeout, TypeOK, Call
  <2>2. pc' = pc /\ \A c \in Callers, p \in Writers : got'[c][p] = "ok" => got[c][p] = "ok"
    BY <1>4, <2>1 DEF Timeout, TypeOK
  <2> QED BY <1>a, <2>2
<1>5. CASE RestartMM \/ KillMMTx \/ UNCHANGED vars
  BY <1>c, <1>d, <1>5 DEF RestartMM, KillMMTx, vars
<1>6. ASSUME NEW p \in Participants, Crash(p) \/ StopGently(p) \/ StopDone(p) \/ Open(p) \/ KillTx(p)
      PROVE  AckedIsCommitted'
  BY <1>c, <1>d, <1>6 DEF Crash, StopGently, StopDone, Open, KillTx
<1> QED BY <1>1, <1>2, <1>3, <1>4, <1>5, <1>6 DEF Next, Handle

(* An ok answer to CommitPrepared means the changes are committed, when no *)
(* tablet is shut down gracefully and every redo log is restored.          *)
THEOREM AckCommitted ==
  ASSUME MayStop = FALSE, RedoMayFail = FALSE
  PROVE  Spec => []AckedIsCommitted
<1>1. Init => AckedIsCommitted
  BY DEF Init, AckedIsCommitted
<1>2. /\ TypeOK /\ CallInv /\ DecisionInv /\ RedoInv /\ HeldInv /\ AckedIsCommitted
      /\ [Next]_vars
      => AckedIsCommitted'
  BY AckStep
<1>3. Spec => []HeldInv
  BY HeldInvariant
<1> QED BY <1>1, <1>2, <1>3, TypeCorrect, DecisionInvariant, RedoInvariant, PTL DEF Spec

(* A committed transaction is concluded, and the callers that conclude it  *)
(* start to, only when every participant has committed.                    *)
ConcludeInv ==
  decision = "COMMIT" =>
    \/ \A p \in Writers : committed[p]
    \/ /\ dt # "none"
       /\ \A k \in calls : k.op # "ConcludeTransaction"
       /\ \A c \in Callers : pc[c] # "ConcludeTransaction"

(* Nobody concludes a committed transaction before every CommitPrepared    *)
(* was answered ok.                                                        *)
LEMMA ConcludeStep ==
  ASSUME TypeOK, CallInv, DecisionInv, AckedIsCommitted, ConcludeInv, [Next]_vars
  PROVE  ConcludeInv'
<1> USE DEF Handles
<1>0. CASE decision = "COMMIT" /\ \A p \in Writers : committed[p]
  <2>1. \A p \in Writers : committed'[p]
    BY <1>0, CommittedKept
  <2> QED BY <2>1 DEF ConcludeInv
<1>a. CASE decision' # "COMMIT"
  BY <1>a DEF ConcludeInv
<1>1. CASE decision' = "COMMIT" /\ ~(decision = "COMMIT" /\ \A p \in Writers : committed[p])
  <2>0. decision \in {"none", "COMMIT"}
    BY <1>1, DecisionFinalStep DEF TypeOK
  <2>a. /\ decision = "COMMIT" => dt # "none"
        /\ \A k \in calls : k.op # "ConcludeTransaction"
        /\ \A c \in Callers : pc[c] # "ConcludeTransaction"
    BY <1>1, <2>0 DEF ConcludeInv, DecisionInv
  <2>b. ASSUME dt' # "none", \A j \in calls' : \E i \in calls : i.op = j.op, pc' = pc PROVE ConcludeInv'
    BY <2>a, <2>b DEF ConcludeInv
  <2>1. ASSUME NEW c \in Callers, NEW op \in Ops, Enter(c, op), op # "ConcludeTransaction"
        PROVE  ConcludeInv'
    <3> DEFINE New == {[by |-> c, op |-> op, at |-> s, step |-> "sent"] : s \in Targets(op)}
    <3>a. calls' = calls \cup New
      BY <2>1 DEF Enter
    <3>b. \A k \in New : k.op = op
      BY SMT
    <3>1. calls' = calls \cup New /\ \A k \in New : k.op = op
      BY <3>a, <3>b
    <3> HIDE DEF New
    <3>2. \A d \in Callers : pc'[d] # "ConcludeTransaction"
      BY <2>1, <2>a DEF Enter, TypeOK
    <3>3. decision' = decision /\ dt' = dt
      BY <2>1 DEF Enter, mmVars
    <3> QED BY <1>1, <2>1, <2>a, <3>1, <3>2, <3>3 DEF ConcludeInv
  <2>2. ASSUME NEW c \in Callers, Finish(c) PROVE ConcludeInv'
    <3>1. \A d \in Callers : pc'[d] # "ConcludeTransaction"
      BY <2>2, <2>a DEF Finish, TypeOK
    <3>2. decision' = decision /\ dt' = dt /\ calls' = calls
      BY <2>2 DEF Finish, mmVars
    <3> QED BY <1>1, <2>a, <3>1, <3>2 DEF ConcludeInv
  <2>3. ASSUME NEW c \in Callers, Resolve(c) PROVE ConcludeInv'
    <3> USE DEF Ops, MMOps, PartOps
    <3>1. CASE AfterParticipants(c)
      <4>1. CASE Finish(c)
        BY <2>2, <4>1
      <4>2. CASE OK(c) /\ Enter(c, "ConcludeTransaction")
        <5>1. decision' = decision
          BY <4>2 DEF Enter, mmVars
        <5>2. Returned(c, "CommitPrepared")
          BY <1>1, <3>1, <5>1 DEF AfterParticipants, Returned, DecisionInv
        <5>3. \A p \in Writers : got[c][p] = "ok"
          <6> SUFFICES ASSUME NEW p \in Writers PROVE got[c][p] = "ok"
            OBVIOUS
          <6>1. pc[c] = "CommitPrepared" /\ got[c][p] \notin {"wait", "err"}
            BY <4>2, <5>2 DEF Returned, OK
          <6>2. got[c][p] # "unset" /\ got[c][p] \notin DTStates
            BY <6>1 DEF CallInv, Targets
          <6> QED BY <6>1, <6>2 DEF TypeOK, Replies
        <5>4. \A p \in Writers : committed[p]
          BY <5>2, <5>3 DEF AckedIsCommitted, Returned
        <5> QED BY <1>1, <5>1, <5>4
      <4> QED BY <3>1, <4>1, <4>2 DEF AfterParticipants
    <3>2. CASE AfterRead(c) \/ AfterSetRollback(c) \/ AfterConclude(c)
      BY <3>2, <2>1, <2>2 DEF AfterRead, AfterSetRollback, AfterConclude
    <3> QED BY <2>3, <3>1, <3>2 DEF Resolve
  <2>4. CASE GateStep
    <3> USE DEF Ops, MMOps, PartOps
    <3> QED BY <2>1, <2>2, <2>3, <2>4 DEF GateStep, Commit2PC, AfterCreate, AfterRollback, AfterPrepare,
          AfterStartCommit
  <2>5. ASSUME NEW r \in Resolvers, ResolverStep(r) PROVE ConcludeInv'
    <3> USE DEF Ops, MMOps, PartOps
    <3> QED BY <2>1, <2>3, <2>5 DEF ResolverStep, Watchdog
  <2>c. ASSUME NEW k \in calls, (\E v : Reply(k, v)) \/ (\E s : Advance(k, s))
        PROVE  pc' = pc /\ \A j \in calls' : \E i \in calls : i.op = j.op
    <3>1. CASE \E v : Reply(k, v)
      BY <3>1 DEF Reply
    <3>2. ASSUME NEW s, Advance(k, s) PROVE pc' = pc /\ \A j \in calls' : \E i \in calls : i.op = j.op
      BY <3>2, AdvanceFacts, SMT
    <3> QED BY <2>c, <3>1, <3>2
  <2>6. ASSUME NEW k \in calls, HandleMM(k) PROVE ConcludeInv'
    <3>1. (\E v : Reply(k, v)) \/ (\E s : Advance(k, s))
      BY <2>6 DEF HandleMM, CreateTransaction, StartCommitGet, StartCommit, SetRollbackTx, SetRollback,
        ConcludeTransaction, ReadTransaction, RollbackMM
    <3>2. ~ConcludeTransaction(k)
      BY <2>a DEF ConcludeTransaction
    <3>3. decision' # decision => dt' = "COMMIT"
      BY <1>1, <2>6, <3>2 DEF HandleMM, CreateTransaction, StartCommitGet, StartCommit, SetRollbackTx, SetRollback,
        ReadTransaction, RollbackMM, Transition, mmVars
    <3>4. decision' = decision => dt' = dt \/ dt' # "none"
      BY <2>6, <3>2 DEF HandleMM, CreateTransaction, StartCommitGet, StartCommit, SetRollbackTx, SetRollback,
        ReadTransaction, RollbackMM, Transition, mmVars
    <3>5. dt' # "none"
      BY <1>1, <2>a, <3>3, <3>4
    <3> QED BY <2>b, <2>c, <3>1, <3>5
  <2>7. ASSUME NEW k \in calls, HandleParticipant(k) PROVE ConcludeInv'
    <3>1. decision' = decision /\ dt' = dt /\ ((\E v : Reply(k, v)) \/ (\E s : Advance(k, s)))
      BY <2>7, HandlerFrame DEF mmVars
    <3> QED BY <1>1, <2>a, <2>b, <2>c, <3>1
  <2>8. CASE UNCHANGED <<dt, decision, calls, pc>>
    BY <1>1, <2>a, <2>8 DEF ConcludeInv
  <2>9. ASSUME NEW s \in Shards, DropCalls(s), UNCHANGED <<dt, decision>> PROVE ConcludeInv'
    <3>1. calls' \subseteq calls /\ pc' = pc
      BY <2>9 DEF DropCalls
    <3> QED BY <1>1, <2>9, <2>a, <2>b, <3>1
  <2>10. ASSUME NEW k \in calls, Timeout(k) PROVE ConcludeInv'
    <3> DEFINE n == [by |-> Late, op |-> k.op, at |-> k.at, step |-> k.step]
    <3>1. n.op = k.op
      OBVIOUS
    <3>2. calls' = (calls \ {k}) \cup {n} /\ UNCHANGED <<dt, decision, pc>>
      BY <2>10 DEF Timeout, mmVars
    <3> HIDE DEF n
    <3> QED BY <1>1, <2>a, <2>b, <3>1, <3>2
  <2>11. CASE RestartMM \/ KillMMTx \/ UNCHANGED vars
    BY <2>8, <2>9, <2>11 DEF RestartMM, KillMMTx, vars, mmVars
  <2>12. ASSUME NEW p \in Participants, Crash(p) \/ StopGently(p) \/ StopDone(p) \/ Open(p) \/ KillTx(p)
         PROVE  ConcludeInv'
    BY <2>8, <2>9, <2>12 DEF Crash, StopGently, StopDone, Open, KillTx, mmVars
  <2> QED BY <2>4, <2>5, <2>6, <2>7, <2>10, <2>11, <2>12 DEF Next, Handle
<1> QED BY <1>0, <1>a, <1>1

(* The row of a committed transaction is deleted only when every           *)
(* participant with changes has committed, under the same conditions.      *)
THEOREM ConcludedCommitted ==
  ASSUME MayStop = FALSE, RedoMayFail = FALSE
  PROVE  Spec => []ConcludedIsCommitted
<1>1. Init => ConcludeInv
  BY DEF Init, ConcludeInv
<1>2. /\ TypeOK /\ CallInv /\ DecisionInv /\ AckedIsCommitted /\ ConcludeInv
      /\ [Next]_vars
      => ConcludeInv'
  BY ConcludeStep
<1>3. Spec => []AckedIsCommitted
  BY AckCommitted
<1>4. ConcludeInv => ConcludedIsCommitted
  BY DEF ConcludeInv, ConcludedIsCommitted
<1> QED BY <1>1, <1>2, <1>3, <1>4, TypeCorrect, DecisionInvariant, PTL DEF Spec
=============================================================================
