--------------------------- MODULE OverlineBlocks ---------------------------
(***************************************************************************)
(* The blocks of the Overline chain, as far as the node's bookkeeping can  *)
(* tell them apart.  A block is identified with its hash; its fields are   *)
(* functions on the set of blocks.  All blocks are ones that              *)
(* validation.IsValidBlock accepts: the code drops every other block       *)
(* before any state changes.                                               *)
(***************************************************************************)
EXTENDS Integers, FiniteSets

CONSTANTS
  Blocks,         \* the valid blocks that exist
  NoBlock,        \* the nil pointer, and the hash of no known block
  Genesis,        \* what genesis.BuildGenesisBlock returns
  Height,         \* [Blocks -> Nat \ {0}], BcBlock.Height
  PreviousHash,   \* [Blocks -> Blocks \cup {NoBlock}], BcBlock.PreviousHash
  TotalDistance,  \* [Blocks -> Nat], BcBlock.TotalDistance
  Timestamp,      \* [Blocks -> Nat], BcBlock.Timestamp
  HeaderBreaks,   \* blocks whose rover headers do not continue their parent's
  Txs,            \* transaction hashes
  TxsOf           \* [Blocks -> SUBSET Txs], BcBlock.Txs

ASSUME BlocksAssumption ==
  /\ IsFiniteSet(Blocks)     \* a block is known by its 256-bit hash
  /\ NoBlock \notin Blocks
  /\ Genesis \in Blocks
  /\ Height \in [Blocks -> Nat \ {0}]
  /\ Height[Genesis] = 1
  /\ PreviousHash \in [Blocks -> Blocks \cup {NoBlock}]
  /\ PreviousHash[Genesis] = NoBlock     \* PREVIOUS_HASH of genesis_block.go
  /\ TotalDistance \in [Blocks -> Nat]
  /\ Timestamp \in [Blocks -> Nat]
  /\ HeaderBreaks \subseteq Blocks
  /\ TxsOf \in [Blocks -> SUBSET Txs]

BlockOrNil == Blocks \cup {NoBlock}

\* common.BlockOrderingRule(i, j): i sorts strictly below j.  At equal height
\* and total distance the block with the later timestamp sorts lower.
BlockOrderingRule(i, j) ==
  \/ Height[i] < Height[j]
  \/ /\ Height[i] = Height[j]
     /\ \/ TotalDistance[i] < TotalDistance[j]
        \/ TotalDistance[i] = TotalDistance[j] /\ Timestamp[j] < Timestamp[i]

\* validation.OrderedBlockPairIsValid(low, high): the difficulty and distance
\* progressions are computed and their verdicts dropped ("|| true"), headers
\* are not compared when low is at height 1.
OrderedBlockPairIsValid(low, high) ==
  /\ Height[high] - 1 = Height[low]
  /\ PreviousHash[high] = low
  /\ Height[low] # 1 => high \notin HeaderBreaks

=============================================================================
