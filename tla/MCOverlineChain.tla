--------------------------- MODULE MCOverlineChain --------------------------
(***************************************************************************)
(* Small block trees on which TLC checks OverlineChain.                    *)
(***************************************************************************)
EXTENDS OverlineChain

\* A chain b1 <- b2 <- ... <- b5, and a rival branch f3 <- f4 off b2, each of its
\* blocks with more distance than the one it rivals.  The download may store the
\* chain, and its serialized part go by the rivals in the tree.
ForkedBlocks == {"b1", "b2", "b3", "b4", "b5", "f3", "f4"}
ForkedHeight == [b1 |-> 1, b2 |-> 2, b3 |-> 3, b4 |-> 4, b5 |-> 5,
                 f3 |-> 3, f4 |-> 4]
ForkedPrevious == [b1 |-> NoBlock, b2 |-> "b1", b3 |-> "b2", b4 |-> "b3",
                   b5 |-> "b4", f3 |-> "b2", f4 |-> "f3"]
ForkedDistance == [b1 |-> 1, b2 |-> 2, b3 |-> 3, b4 |-> 4, b5 |-> 6,
                   f3 |-> 4, f4 |-> 5]
ForkedTxs == [b \in ForkedBlocks |-> {}]
ForkedChunks == {<<"b1", "b2">>}

=============================================================================
