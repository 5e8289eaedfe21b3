---------------------------- MODULE OverlineChain ---------------------------
(***************************************************************************)
(* blockchain.OverlineBlockchain: the tree of blocks that are not yet deep *)
(* enough to be stored (src/blockchain/blockchain.go), on top of the block *)
(* store.                                                                  *)
(*                                                                         *)
(* Only the message loop of the node calls AddBlock, but its steps run     *)
(* among those of the store's ingestion thread and of the goroutines that  *)
(* answer queries.  AddBlock puts a block into the tree, drops or connects *)
(* heads, and then goes over the heads in rounds: a head whose branch is   *)
(* deep enough and whose parent is stored is popped off the tree, and the  *)
(* best head popped in a round is stored.  The order in which Go visits    *)
(* the heads, and whether it visits one added meanwhile, is not specified. *)
(***************************************************************************)
EXTENDS OverlineDB

CONSTANTS
  COINBASE_MATURITY,       \* a head is popped below a branch deeper than this
  DisjointCheckupDepth,    \* OverlineBlockchainConfig
  DisjointCheckupHeight,
  FirstChunks,             \* chunks an earlier run of the node may have stored
  IbdBlocks,               \* blocks that peers send for the block download
  Relayed                  \* blocks that peers send once the chain is followed

ASSUME ChainAssumption ==
  /\ COINBASE_MATURITY \in Nat
  /\ DisjointCheckupDepth \in Nat
  /\ DisjointCheckupHeight \in Nat
  /\ \A c \in FirstChunks : /\ c \in [1..AncientChunkSize -> Blocks]
                            /\ c[1] = Genesis
                            /\ \A i \in 1..(AncientChunkSize - 1) :
                                 OrderedBlockPairIsValid(c[i], c[i + 1])
  /\ IbdBlocks \subseteq Blocks
  /\ Relayed \subseteq Blocks

VARIABLES
  ibdMode, isFollowingChain,
  BlockGraph,           \* the blocks in the tree
  connected,            \* those with an edge from the parent
  Heads, HeadsToCheck, currentHighestBlock,
  \* AddBlock: where it is, and its local variables
  pc, heads, pending, poppedHeads, serHeight, longestHeadWithDB, highestHead

flags == <<ibdMode, isFollowingChain>>
tree == <<BlockGraph, connected>>
locals == <<pc, heads, pending, poppedHeads, serHeight,
            longestHeadWithDB, highestHead>>
chainVars == <<flags, tree, Heads, HeadsToCheck, currentHighestBlock, locals>>
allVars == <<vars, chainVars>>

\* HeadInformation: the head, and the highest block above it.
NoHead == [LowestBlock |-> NoBlock, HighestBlock |-> NoBlock, HasDB |-> FALSE]
Depth(info) == Height[info.HighestBlock] - Height[info.LowestBlock]

-----------------------------------------------------------------------------
(* The tree *)

Children(b) == {c \in connected : PreviousHash[c] = b}

\* b and what the tree connects it to, going back.
Lineage(b) ==
  LET back[c \in BlockGraph] ==
        IF c \in connected THEN {c} \cup back[PreviousHash[c]] ELSE {c}
  IN IF b \in BlockGraph THEN back[b] ELSE {}

\* What DFS from a head may end with as the highest block above it.
HighestAbove(h) ==
  LET branch == {b \in BlockGraph : h \in Lineage(b)} IN
  {b \in branch : \A c \in branch : ~ BlockOrderingRule(b, c)}

\* Takes a head off the tree and puts its children in its place; those may or
\* may not be visited as well.
BugStaysAHead(h) ==
  /\ BlockGraph' = BlockGraph \ {h}
  /\ connected' = connected \ (Children(h) \cup {h})
  /\ heads' = heads \cup Children(h)
  /\ pending' = pending \ {h}
BugChildrenForgotten(h) ==
  /\ BlockGraph' = BlockGraph \ {h}
  /\ connected' = connected \ (Children(h) \cup {h})
  /\ heads' = heads \ {h}
  /\ pending' = pending \ {h}
PopHead(h) ==
  /\ BlockGraph' = BlockGraph \ {h}
  /\ connected' = connected \ (Children(h) \cup {h})
  /\ heads' = (heads \ {h}) \cup Children(h)
  /\ \E more \in SUBSET Children(h) : pending' = (pending \ {h}) \cup more

\* The block store is asked for a block by its hash.  Before the first chunk
\* is written there is no bucket to look into.
LookupPanics(b) == b \notin incomingBlocks \cup toSerialize /\ lastWritten = NoBlock

BugAboveTip == IF tipOfSerializedChain = NoBlock THEN 0
               ELSE Height[tipOfSerializedChain] + 1
SerializedHeight == IF tipOfSerializedChain = NoBlock THEN 0
                    ELSE Height[tipOfSerializedChain]

-----------------------------------------------------------------------------
(* AddBlock *)

AlreadyKnown(b) == b \in BlockGraph \/ (~ ibdMode /\ Retrievable(b))

\* A block that is new goes into the tree, as a head unless its parent is there.
InsertBlock(b) ==
  /\ Running /\ pc = "idle"
  /\ isFollowingChain
  /\ ~ AlreadyKnown(b)
  /\ ~ ibdMode => ~ LookupPanics(b)
  /\ BlockGraph' = BlockGraph \cup {b}
  /\ \/ /\ PreviousHash[b] \in BlockGraph
        /\ connected' = connected \cup {b}
        /\ heads' = Heads
     \/ /\ PreviousHash[b] \notin BlockGraph
        /\ heads' = Heads \cup {b}
        /\ UNCHANGED connected
  /\ Heads' = heads'
  /\ pending' = heads'
  /\ serHeight' = SerializedHeight
  /\ pc' = "clean"
  /\ UNCHANGED <<vars, flags, HeadsToCheck, currentHighestBlock,
                 poppedHeads, longestHeadWithDB, highestHead>>

\* A head below the serialized height is dropped, one whose parent has come
\* meanwhile is connected to it.
CleanHead(h) ==
  /\ pc = "clean" /\ h \in pending
  /\ \/ /\ Height[h] < serHeight
        /\ PopHead(h)
     \/ /\ Height[h] >= serHeight
        /\ PreviousHash[h] \in BlockGraph
        /\ connected' = connected \cup {h}
        /\ heads' = heads \ {h}
        /\ pending' = pending \ {h}
        /\ UNCHANGED BlockGraph
     \/ /\ Height[h] >= serHeight
        /\ PreviousHash[h] \notin BlockGraph
        /\ pending' = pending \ {h}
        /\ UNCHANGED <<tree, heads>>
  /\ UNCHANGED <<vars, flags, Heads, HeadsToCheck, currentHighestBlock, pc,
                 poppedHeads, serHeight, longestHeadWithDB, highestHead>>

StartRounds ==
  /\ pc = "clean" /\ pending = {}
  /\ pc' = "visit"
  /\ pending' = heads
  /\ poppedHeads' = {}
  /\ longestHeadWithDB' = NoHead /\ highestHead' = NoHead
  /\ UNCHANGED <<vars, flags, tree, Heads, HeadsToCheck, currentHighestBlock,
                 heads, serHeight>>

\* The head is popped: its branch is deep enough and its parent is stored.
BugMatureParentPopped(info) ==
  Depth(info) > COINBASE_MATURITY
    /\ (info.HasDB \/ PreviousHash[info.LowestBlock] \in poppedHeads)
Mature(info) == Depth(info) > COINBASE_MATURITY /\ info.HasDB

\* "mark the head with the longest chain and the head with the highest chain"
Longer(info) ==
  \/ longestHeadWithDB.LowestBlock = NoBlock
  \/ BlockOrderingRule(longestHeadWithDB.LowestBlock, info.LowestBlock)
  \/ Depth(info) > Depth(longestHeadWithDB)
Higher(info) ==
  \/ highestHead.LowestBlock = NoBlock
  \/ BlockOrderingRule(highestHead.HighestBlock, info.HighestBlock)

VisitHead(h) ==
  /\ Running /\ pc = "visit" /\ h \in pending
  /\ ~ LookupPanics(PreviousHash[h])
  /\ \E highest \in HighestAbove(h) :
       LET info == [LowestBlock |-> h, HighestBlock |-> highest,
                    HasDB |-> Retrievable(PreviousHash[h])]
           linked == info.HasDB \/ PreviousHash[h] \in poppedHeads
           marked == [info EXCEPT !.HasDB = linked]
       IN
       /\ \/ /\ Mature(info)
             /\ PopHead(h)
             /\ poppedHeads' = poppedHeads \cup {h}
          \/ /\ ~ Mature(info)
             /\ pending' = pending \ {h}
             /\ UNCHANGED <<tree, heads, poppedHeads>>
       /\ HeadsToCheck' =
            IF ~ ibdMode /\ ~ linked /\ Depth(info) > DisjointCheckupDepth
            THEN HeadsToCheck \cup {h} ELSE HeadsToCheck
       /\ longestHeadWithDB' =
            IF linked /\ Longer(info) THEN marked ELSE longestHeadWithDB
       /\ highestHead' = IF Higher(info) THEN marked ELSE highestHead
  /\ UNCHANGED <<vars, flags, Heads, currentHighestBlock, pc, serHeight>>

\* A lookup in the store before its first chunk is written.
AddBlockPanics ==
  /\ Running
  /\ \/ pc = "idle" /\ isFollowingChain /\ ~ ibdMode
        /\ \E b \in Relayed \ BlockGraph : LookupPanics(b)
     \/ pc = "visit" /\ \E h \in pending : LookupPanics(PreviousHash[h])
  /\ Die("panic")
  /\ UNCHANGED <<disk, chainVars>>

\* The best of the heads popped in a round: "the others perish".
BugWorstPopped == {h \in poppedHeads : \A g \in poppedHeads : ~ BlockOrderingRule(g, h)}
BestPopped == {h \in poppedHeads : \A g \in poppedHeads : ~ BlockOrderingRule(h, g)}

BugRoundsNeverEnd == IF heads = {} THEN "idle" ELSE "visit"
BugOneRound == "idle"
AfterRound == IF poppedHeads = {} THEN "idle" ELSE "visit"

\* The end of a round; the next one begins if a head was popped.
FinishRound ==
  /\ Running /\ pc = "visit" /\ pending = {}
  /\ currentHighestBlock' = IF longestHeadWithDB.LowestBlock = NoBlock
                            THEN currentHighestBlock
                            ELSE longestHeadWithDB.HighestBlock
  /\ HeadsToCheck' =
       IF /\ longestHeadWithDB.LowestBlock # NoBlock
          /\ ~ highestHead.HasDB
          /\ Height[highestHead.HighestBlock]
               - Height[longestHeadWithDB.HighestBlock] > DisjointCheckupHeight
       THEN HeadsToCheck \cup {highestHead.LowestBlock} ELSE HeadsToCheck
  /\ \/ poppedHeads = {} /\ UNCHANGED vars
     \/ BestPopped \cap incomingBlocks # {} /\ UNCHANGED vars
     \/ \E best \in BestPopped : AddBlock(best)
  /\ Heads' = heads
  /\ pc' = AfterRound
  /\ pending' = heads
  /\ poppedHeads' = {}
  /\ UNCHANGED <<flags, tree, heads, serHeight, longestHeadWithDB, highestHead>>

-----------------------------------------------------------------------------
(* What runs beside AddBlock *)

\* During the initial download blocks go straight to the store.
IbdData(b) ==
  /\ pc = "idle" /\ ibdMode /\ ~ isFollowingChain
  /\ AddBlock(b)
  /\ UNCHANGED chainVars

\* The message loop finds a peer not much above the serialized height.
SetFollowingChain ==
  /\ Running /\ pc = "idle" /\ ~ isFollowingChain
  /\ isFollowingChain' = TRUE
  /\ UNCHANGED <<vars, ibdMode, tree, Heads, HeadsToCheck, currentHighestBlock, locals>>

\* The download reaches the highest peer, or gives up.
UnSetInitialBlockDownload ==
  /\ Running /\ ibdMode
  /\ ibdMode' = FALSE
  /\ UNCHANGED <<vars, isFollowingChain, tree, Heads, HeadsToCheck,
                 currentHighestBlock, locals>>

\* After the download the heads to check are taken and asked for, over and over.
TakeHeadsToCheck ==
  /\ Running /\ ~ ibdMode /\ HeadsToCheck # {}
  /\ HeadsToCheck' = {}
  /\ UNCHANGED <<vars, flags, tree, Heads, currentHighestBlock, locals>>

Ingestion == Run /\ UNCHANGED chainVars

\* Open found no chainstate: the genesis block was put into the store.
FreshStore ==
  /\ incomingBlocks = {Genesis}
  /\ incomingBlocksByHeight = [h \in {1} |-> Genesis]
  /\ incomingBlocksByTx = [t \in TxsOf[Genesis] |-> Genesis]
  /\ tipOfSerializedChain = NoBlock /\ highestBlock = Genesis
  /\ blockChunks = <<>> /\ hash2chunk = <<>> /\ height2hash = <<>>
  /\ tx2hash = <<>> /\ lastWritten = NoBlock
  /\ chainstate = NoChainstate

\* Open found the chunk c and an empty chainstate.
StoreWithChunk(c) ==
  /\ incomingBlocks = {}
  /\ incomingBlocksByHeight = <<>> /\ incomingBlocksByTx = <<>>
  /\ lastWritten = c[AncientChunkSize]
  /\ tipOfSerializedChain = lastWritten /\ highestBlock = lastWritten
  /\ blockChunks = [k \in {Genesis} |-> c]
  /\ hash2chunk = [b \in Range(c) |-> Genesis]
  /\ height2hash = c
  /\ tx2hash \in TxIndexes(Range(c), BlockOrderingRule)
  /\ chainstate = [NoChainstate EXCEPT !.present = TRUE]

ChainInit ==
  /\ FreshStore \/ \E c \in FirstChunks : StoreWithChunk(c)
  /\ toSerialize = {} /\ txMemPool = {} /\ mtxMemPool = {}
  /\ proc = "up" /\ exit = "clean"
  /\ ibdMode = TRUE /\ isFollowingChain = FALSE
  /\ BlockGraph = {} /\ connected = {}
  /\ Heads = {} /\ HeadsToCheck = {} /\ currentHighestBlock = NoBlock
  /\ pc = "idle" /\ heads = {} /\ pending = {} /\ poppedHeads = {}
  /\ serHeight = 0 /\ longestHeadWithDB = NoHead /\ highestHead = NoHead

AddBlockContinues ==
  \/ \E h \in Blocks : CleanHead(h)
  \/ StartRounds
  \/ \E h \in Blocks : VisitHead(h)
  \/ FinishRound
  \/ AddBlockPanics

ChainNext ==
  \/ \E b \in Relayed : InsertBlock(b)
  \/ AddBlockContinues
  \/ \E b \in IbdBlocks : IbdData(b)
  \/ SetFollowingChain
  \/ UnSetInitialBlockDownload
  \/ TakeHeadsToCheck
  \/ Ingestion

ChainSpec == ChainInit /\ [][ChainNext]_allVars

\* The message loop's goroutine is never stopped in the midst of AddBlock.
ChainFairSpec == ChainSpec /\ WF_allVars(AddBlockContinues)

-----------------------------------------------------------------------------
(* Answers to queries *)

\* OverlineDB.GetBlockByHeight, without the cache.
StoredAtHeight(h) ==
  IF h \in DOMAIN incomingBlocksByHeight THEN incomingBlocksByHeight[h] ELSE BlockAt(h)

\* OverlineBlockchain.GetBlockByHeight: on the branch of the best block, or
\* else in the store.
GetBlockByHeight(h) ==
  LET onBranch == {b \in Lineage(currentHighestBlock) : Height[b] = h} IN
  IF currentHighestBlock # NoBlock /\ h >= Height[currentHighestBlock]
  THEN IF h = Height[currentHighestBlock] THEN currentHighestBlock ELSE NoBlock
  ELSE IF onBranch # {} THEN CHOOSE b \in onBranch : TRUE
       ELSE StoredAtHeight(h)

-----------------------------------------------------------------------------
(* Safety *)

\* The heads are exactly the blocks of the tree whose parent is not in it, and
\* every other block is connected to its parent, in whatever order the blocks
\* came and the heads were visited.  (AddBlock.)
HeadsAreRoots ==
  Running /\ pc = "idle" =>
    /\ Heads = {b \in BlockGraph : PreviousHash[b] \notin BlockGraph}
    /\ connected = BlockGraph \ Heads

\* No step of AddBlock looks for a head that is not in the tree any more, which
\* would be a panic.
HeadsAreInTree == heads \cup pending \subseteq BlockGraph

\* Of two rivals the one that is ahead stays ahead on the next height.
RivalsKeepTheirRank ==
  \A b, c \in Blocks :
    /\ Height[b] = Height[c] /\ PreviousHash[b] # PreviousHash[c]
    /\ PreviousHash[b] \in Blocks /\ PreviousHash[c] \in Blocks
    /\ ~ BlockOrderingRule(PreviousHash[b], PreviousHash[c])
    => BlockOrderingRule(c, b)

\* The serialized chain has not gone by another branch than that of b.
Ancestry(b) ==
  LET back[c \in Blocks] == {c} \cup IF PreviousHash[c] \in Blocks
                                     THEN back[PreviousHash[c]] ELSE {}
  IN back[b]
SerializedBelow(b) ==
  tipOfSerializedChain = NoBlock \/ tipOfSerializedChain \in Ancestry(b)

\* Between calls the best block is in the tree, and its branch leads back to a
\* block in the store, unless a rival overtakes or the serialized chain has left
\* the best block behind on another branch.  (longestHeadWithDB, serHeight.)
Anchored(b) == \E c \in Lineage(b) : Retrievable(PreviousHash[c])
BestIsAnchored ==
  /\ RivalsKeepTheirRank /\ Running /\ pc = "idle"
  /\ currentHighestBlock # NoBlock /\ SerializedBelow(currentHighestBlock)
  => Anchored(currentHighestBlock)

\* AddBlock leaves no head that could be popped: when its rounds are over, every
\* head whose parent is stored has a branch no deeper than maturity.
NothingMatureIsLeft ==
  Running /\ pc = "idle" =>
    \A h \in Heads : Retrievable(PreviousHash[h]) =>
      \A b \in HighestAbove(h) : Height[b] - Height[h] <= COINBASE_MATURITY

\* Between calls, if the store holds a chain, what it serialized is below the best
\* block and no rival overtakes, asking height by height for the blocks below the best
\* one gives a linked chain down to the genesis block.
InStore == {b \in Blocks : Retrievable(b)}
StoreIsAChain ==
  /\ \A b \in InStore : Height[b] > 1 => PreviousHash[b] \in InStore
  /\ \A b, c \in InStore : Height[b] = Height[c] => b = c
AnswersFollowBest ==
  /\ RivalsKeepTheirRank /\ StoreIsAChain /\ Running /\ pc = "idle"
  /\ currentHighestBlock # NoBlock /\ SerializedBelow(currentHighestBlock)
  => /\ GetBlockByHeight(1) = Genesis
     /\ \A h \in 2..Height[currentHighestBlock] :
          /\ GetBlockByHeight(h) \in Blocks
          /\ PreviousHash[GetBlockByHeight(h)] = GetBlockByHeight(h - 1)

\* A block comes to the store from the tree only after its parent.
StoredAfterParent ==
  [][pc = "visit" => \A b \in incomingBlocks' \ incomingBlocks :
                       Retrievable(PreviousHash[b])]_allVars

-----------------------------------------------------------------------------
(* Liveness *)

\* AddBlock comes to an end: the rounds and the visits do.  (Nothing keeps the
\* message loop's goroutine, which holds no lock between its steps, from going
\* on.)
AddBlockEnds == pc # "idle" ~> (pc = "idle" \/ ~ Running)

-----------------------------------------------------------------------------
(* Inductive strengthenings, for the proofs *)

\* Every block of the tree is a head or connected.  What is neither visited nor a
\* root is still to be cleaned; before the chain is followed there is no tree.
TreeInv ==
  /\ BlockGraph \subseteq Blocks /\ poppedHeads \subseteq Blocks
  /\ heads \cup connected = BlockGraph /\ heads \cap connected = {}
  /\ pending \subseteq heads
  /\ pc \in {"idle", "clean", "visit"}
  /\ pc = "idle" => Heads = heads
  /\ \A b \in connected : PreviousHash[b] \in BlockGraph
  /\ \A h \in heads : (pc = "clean" /\ h \in pending) \/ PreviousHash[h] \notin BlockGraph
  /\ ~ isFollowingChain => BlockGraph = {}

\* The parents of the popped heads are stored.  In a round that has popped nothing
\* so far, no head that was visited is mature.
RoundInv ==
  Running =>
    /\ pc = "visit" => \A h \in poppedHeads : Retrievable(PreviousHash[h])
    /\ pc = "idle" \/ (pc = "visit" /\ poppedHeads = {}) =>
         \A h \in heads :
           \/ (pc = "visit" /\ h \in pending)
           \/ Retrievable(PreviousHash[h]) =>
                \A b \in HighestAbove(h) : Height[b] - Height[h] <= COINBASE_MATURITY

\* Every block is one higher than its parent.
HeightsFollow ==
  \A b \in Blocks : PreviousHash[b] \in Blocks => Height[b] = Height[PreviousHash[b]] + 1

\* The longest head of the rounds so far and the end of its branch.  The end is in
\* the tree and has no children.  It is anchored, or hangs on a head that was popped
\* in this round and may be the one to be stored; or its head lost, and a head above
\* the one that was stored instead is still to be visited.
LongestInv ==
  LET low == longestHeadWithDB.LowestBlock
      high == longestHeadWithDB.HighestBlock
  IN
  /\ low \in Blocks
  /\ high \in BlockGraph /\ Children(high) = {}
  /\ \A b \in Lineage(high) : Height[low] <= Height[b]
  /\ \/ Anchored(high)
     \/ \E b \in Lineage(high) :
          /\ PreviousHash[b] \in poppedHeads
          /\ \/ Height[low] <= Height[PreviousHash[b]]
             \/ PreviousHash[low] = PreviousHash[b]
     \/ \E h \in pending : Retrievable(PreviousHash[h]) /\ BlockOrderingRule(low, h)

BestHolds ==
  currentHighestBlock # NoBlock /\ SerializedBelow(currentHighestBlock)
    => Anchored(currentHighestBlock)

\* The best block is anchored unless the rounds have found another.  Each head they
\* popped has left a child, which is a head or was popped itself.
BestInv ==
  RivalsKeepTheirRank /\ HeightsFollow /\ Running =>
    /\ currentHighestBlock \in BlockOrNil
    /\ pc = "clean" => serHeight \in Nat /\ serHeight <= SerializedHeight
    /\ pc = "visit" =>
         /\ poppedHeads # {} => longestHeadWithDB.LowestBlock # NoBlock
         /\ \A p \in poppedHeads : \E c \in heads \cup poppedHeads : PreviousHash[c] = p
    /\ IF pc = "visit" /\ longestHeadWithDB.LowestBlock # NoBlock
       THEN LongestInv
       ELSE BestHolds

\* The heights of the blocks in memory are indexed, and nothing on disk is higher than
\* the tip.
AnswersInv ==
  Running =>
    /\ DOMAIN incomingBlocksByHeight = Heights(incomingBlocks)
    /\ \A h \in DOMAIN incomingBlocksByHeight :
         /\ incomingBlocksByHeight[h] \in incomingBlocks
         /\ Height[incomingBlocksByHeight[h]] = h
    /\ \A b \in Blocks :
         Stored(b) => lastWritten # NoBlock /\ Height[b] <= Height[lastWritten]

=============================================================================
