------------------------ MODULE MCOverlineDBRestart -------------------------
(***************************************************************************)
(* OverlineDBRestart on the block trees of MCOverlineDB.                   *)
(***************************************************************************)
EXTENDS MCOverlineDB, OverlineDBRestart

\* A rival at the height where the first chunk may end, so that stale and
\* fresh chainstate blocks share heights.
ForkBlocks == {"b1", "b2", "b3", "b4", "f2"}
ForkHeight == [b1 |-> 1, b2 |-> 2, b3 |-> 3, b4 |-> 4, f2 |-> 2]
ForkPrevious == [b1 |-> NoBlock, b2 |-> "b1", b3 |-> "b2", b4 |-> "b3", f2 |-> "b1"]
ForkDistance == [b1 |-> 1, b2 |-> 2, b3 |-> 4, b4 |-> 5, f2 |-> 3]
ForkTxs == [b \in ForkBlocks |-> {}]

=============================================================================
