------------------------- MODULE MCOverlineReaders --------------------------
(***************************************************************************)
(* Lookups in a small store.                                               *)
(***************************************************************************)
EXTENDS OverlineReaders

\* A chain of three blocks and a rival at height 2 with the same transaction.
ForkBlocks == {"b1", "b2", "b3", "f2"}
ForkHeight == [b1 |-> 1, b2 |-> 2, b3 |-> 3, f2 |-> 2]
ForkPrevious == [b1 |-> NoBlock, b2 |-> "b1", b3 |-> "b2", f2 |-> "b1"]
ForkDistance == [b1 |-> 1, b2 |-> 2, b3 |-> 4, f2 |-> 3]
ForkTxs == [b \in ForkBlocks |-> IF ForkHeight[b] = 2 THEN {"t"} ELSE {}]

\* A block that is in no chunk, a height with rivals, and what they carry.
FewLookups == {<<"hash", "b3">>, <<"height", 2>>, <<"tx", "t">>}

=============================================================================
