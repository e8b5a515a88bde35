---------------------------- MODULE AtomicCommit ----------------------------
(***************************************************************************)
(* What two phase commit promises.  A transaction has a part on every      *)
(* shard.  The shard that holds the decision (MM) commits its own part in  *)
(* the step that decides to commit, which needs every part to be pending;  *)
(* after that no part may be given up.  A part is given up only as long as *)
(* the decision is not to commit.                                          *)
(***************************************************************************)
CONSTANTS Shards, MM

VARIABLES part, decision

vars == <<part, decision>>

Init == part = [s \in Shards |-> "pending"] /\ decision = "none"

DecideCommit ==
  /\ decision = "none"
  /\ \A s \in Shards : part[s] = "pending"
  /\ decision' = "COMMIT"
  /\ part' = [part EXCEPT ![MM] = "committed"]

DecideRollback ==
  /\ decision = "none"
  /\ decision' = "ROLLBACK"
  /\ UNCHANGED part

Commit(s) ==
  /\ decision = "COMMIT" /\ part[s] = "pending"
  /\ part' = [part EXCEPT ![s] = "committed"]
  /\ UNCHANGED decision

GiveUp(s) ==
  /\ decision # "COMMIT" /\ part[s] = "pending"
  /\ part' = [part EXCEPT ![s] = "aborted"]
  /\ UNCHANGED decision

Next == \/ DecideCommit \/ DecideRollback
        \/ \E s \in Shards : Commit(s) \/ GiveUp(s)

Spec == Init /\ [][Next]_vars

(* Atomicity: no part is committed while another one is given up.          *)
Atomic == ~ \E s, t \in Shards : part[s] = "committed" /\ part[t] = "aborted"
=============================================================================
