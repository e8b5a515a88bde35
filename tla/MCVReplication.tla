--------------------------- MODULE MCVReplication ----------------------------
(***************************************************************************)
(* VReplication for TLC: two tables, and logs in which rows of both are    *)
(* inserted, updated and deleted before, below and beyond what a copy has  *)
(* reached, with a DDL statement between or after them.                    *)
(***************************************************************************)
EXTENDS VReplication

RowChange(t, k, v) == [table |-> t, pk |-> k, value |-> v]
Tx(changes) == [ddl |-> FALSE, rows |-> changes]
Ddl == [ddl |-> TRUE, rows |-> <<>>]

\* The rows of a are changed around the key that a copy has reached, and a
\* transaction that touches only b is empty while b is not copied.
MCLog ==
  << Tx(<<RowChange("a", 1, 1), RowChange("b", 1, 1)>>),
     Tx(<<RowChange("b", 1, 2)>>),
     Tx(<<RowChange("a", 2, 1), RowChange("a", 1, 2), RowChange("a", 2, 2)>>),
     Ddl >>

\* Changes of both tables, one of them a deletion, and a DDL statement.
MCLogShort ==
  << Tx(<<RowChange("a", 1, 1), RowChange("b", 1, 1)>>),
     Tx(<<RowChange("a", 1, 0), RowChange("a", 2, 1)>>),
     Ddl >>

Stream(stop, onDdl, select) ==
  [stopPos |-> stop, stopOnDdl |-> onDdl, star |-> select]

PlainStream == {Stream(0, FALSE, FALSE)}
StarStream == {Stream(0, FALSE, TRUE)}
MCStreams == {Stream(2, FALSE, FALSE), Stream(0, TRUE, FALSE)}
==============================================================================
