--------------------------- MODULE MCTxSerializer ----------------------------
(* Instances of TxSerializer for TLC. *)
EXTENDS TxSerializer
=============================================================================
