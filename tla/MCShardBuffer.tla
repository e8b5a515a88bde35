---------------------------- MODULE MCShardBuffer ----------------------------
EXTENDS ShardBuffer, TLC

Symmetry == Permutations(Requests)

(* The same system with one slot: two requests fill the buffer, and the    *)
(* second one evicts the first.                                            *)
One == INSTANCE ShardBuffer WITH Size <- 1

(* Size bounds the slots in the initial state and nowhere else. *)
AnySizeSpec == (Init \/ One!Init) /\ [][Next]_vars /\ Fairness
=============================================================================
