---------------------------- MODULE MCOverlineDB ----------------------------
(***************************************************************************)
(* Small block trees on which TLC checks OverlineDB.                       *)
(***************************************************************************)
EXTENDS OverlineDB
LOCAL INSTANCE HeaderRanges

\* A chain b1 <- b2 <- ... <- b5, and a rival branch f2 <- f3 off b1, each of
\* its blocks with more distance than the one it rivals.
TreeBlocks == {"b1", "b2", "b3", "b4", "b5", "f2", "f3"}
TreeHeight == [b1 |-> 1, b2 |-> 2, b3 |-> 3, b4 |-> 4, b5 |-> 5,
               f2 |-> 2, f3 |-> 3]
TreePrevious == [b1 |-> NoBlock, b2 |-> "b1", b3 |-> "b2", b4 |-> "b3",
                 b5 |-> "b4", f2 |-> "b1", f3 |-> "f2"]
TreeDistance == [b1 |-> 1, b2 |-> 2, b3 |-> 4, b4 |-> 6, b5 |-> 7,
                 f2 |-> 3, f3 |-> 5]
TreeTime == TreeHeight
\* The rivals at height 2 carry the same transaction.
TreeTxs == [b \in TreeBlocks |-> IF TreeHeight[b] = 2 THEN {"t"} ELSE {}]

\* The same chain with two single rivals: f2, and g4 off b3.  Every block carries
\* two headers of a rover chain.  Those of g4 are not linked to each other; those
\* of b4 are not to b3's, which nothing checks.
WoodBlocks == {"b1", "b2", "b3", "b4", "b5", "f2", "g4"}
WoodHeight == [b1 |-> 1, b2 |-> 2, b3 |-> 3, b4 |-> 4, b5 |-> 5,
               f2 |-> 2, g4 |-> 4]
WoodPrevious == [b1 |-> NoBlock, b2 |-> "b1", b3 |-> "b2", b4 |-> "b3",
                 b5 |-> "b4", f2 |-> "b1", g4 |-> "b3"]
WoodDistance == [b1 |-> 1, b2 |-> 2, b3 |-> 4, b4 |-> 6, b5 |-> 7,
                 f2 |-> 3, g4 |-> 5]
WoodTxs == [b \in WoodBlocks |-> IF WoodHeight[b] = 2 THEN {"t"} ELSE {}]

Rover(hash) == [height |-> hash, hash |-> hash, previousHash |-> hash - 1]
WoodHeaders ==
  [b \in WoodBlocks |->
     LET h == WoodHeight[b] IN
     CASE b = "g4" -> <<Rover(2 * h - 1), Rover(2 * h + 1)>>
       [] b = "b4" -> <<Rover(20), Rover(21)>>
       [] OTHER -> <<Rover(2 * h - 1), Rover(2 * h)>>]
WoodBreaks == {b \in WoodBlocks \ {"b1"} :
                 ~ HeaderRangeIsContiguous(WoodHeaders[WoodPrevious[b]], WoodHeaders[b])}

\* A single chain of six blocks.
LineBlocks == {"b1", "b2", "b3", "b4", "b5", "b6"}
LineHeight == [b1 |-> 1, b2 |-> 2, b3 |-> 3, b4 |-> 4, b5 |-> 5, b6 |-> 6]
LinePrevious == [b1 |-> NoBlock, b2 |-> "b1", b3 |-> "b2", b4 |-> "b3",
                 b5 |-> "b4", b6 |-> "b5"]
LineTxs == [b \in LineBlocks |-> IF b = "b3" THEN {"t"} ELSE {}]

=============================================================================
