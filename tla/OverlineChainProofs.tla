------------------------- MODULE OverlineChainProofs ------------------------
(***************************************************************************)
(* The block tree: what AddBlock keeps true of heads, edges and stored     *)
(* blocks, for every tree of blocks, every order of arrival and every      *)
(* order in which Go may visit the heads.                                  *)
(***************************************************************************)
EXTENDS OverlineChain, OverlineDBLogProofs

-----------------------------------------------------------------------------
(* Heads and edges *)

LEMMA ChildrenAreConnected ==
  ASSUME TreeInv, NEW h \in heads
  PROVE  /\ Children(h) \subseteq connected /\ h \notin Children(h)
         /\ h \in BlockGraph /\ h \notin connected
BY DEF TreeInv, Children

\* Popping a head makes roots of its children.
LEMMA PopHeadTree ==
  ASSUME TreeInv, NEW h \in pending, PopHead(h),
         UNCHANGED <<pc, Heads, isFollowingChain>>, pc # "idle",
         poppedHeads' \subseteq Blocks
  PROVE  TreeInv'
<1>1. /\ BlockGraph' = BlockGraph \ {h}
      /\ connected' = connected \ (Children(h) \cup {h})
      /\ heads' = (heads \ {h}) \cup Children(h)
      /\ pending' \subseteq (pending \ {h}) \cup Children(h)
      /\ (pending \ {h}) \subseteq pending'
  BY DEF PopHead
<1>2. h \in heads
  BY DEF TreeInv
<1>3. /\ Children(h) \subseteq connected /\ h \notin Children(h)
      /\ h \in BlockGraph /\ h \notin connected
  BY <1>2, ChildrenAreConnected
<1>4. heads' \cup connected' = BlockGraph' /\ heads' \cap connected' = {}
  BY <1>1, <1>3 DEF TreeInv
<1>5. pending' \subseteq heads'
  BY <1>1 DEF TreeInv
<1>6. \A b \in connected' : PreviousHash[b] \in BlockGraph'
  BY <1>1 DEF TreeInv, Children
<1>7. \A b \in Children(h) : PreviousHash[b] = h
  BY DEF Children
<1>8. \A b \in heads' : (pc' = "clean" /\ b \in pending') \/ PreviousHash[b] \notin BlockGraph'
  BY <1>1, <1>7 DEF TreeInv
<1>9. QED
  BY <1>1, <1>4, <1>5, <1>6, <1>8 DEF TreeInv

LEMMA TreeInvInit == ChainInit => TreeInv
BY DEF ChainInit, TreeInv

LEMMA TreeInvStep ==
  ASSUME TreeInv, [ChainNext]_allVars
  PROVE  TreeInv'
<1>1. ASSUME UNCHANGED <<tree, Heads, heads, pending, poppedHeads, pc>>,
             isFollowingChain => isFollowingChain'
      PROVE  TreeInv'
  BY <1>1 DEF TreeInv, tree
<1>2. ASSUME NEW b \in Relayed, InsertBlock(b) PROVE TreeInv'
  <2>1. b \in Blocks /\ b \notin BlockGraph /\ isFollowingChain' /\ pc' = "clean"
    BY <1>2, ChainAssumption DEF InsertBlock, AlreadyKnown, flags
  <2>2. /\ BlockGraph' = BlockGraph \cup {b} /\ Heads = heads
        /\ pending' = heads' /\ poppedHeads' = poppedHeads
    BY <1>2 DEF InsertBlock, TreeInv
  <2>3. CASE PreviousHash[b] \in BlockGraph /\ connected' = connected \cup {b} /\ heads' = Heads
    BY <2>1, <2>2, <2>3 DEF TreeInv
  <2>4. CASE PreviousHash[b] \notin BlockGraph /\ heads' = Heads \cup {b} /\ connected' = connected
    BY <2>1, <2>2, <2>4 DEF TreeInv
  <2>5. QED
    BY <1>2, <2>3, <2>4 DEF InsertBlock
<1>3. ASSUME NEW h \in Blocks, CleanHead(h) PROVE TreeInv'
  <2>1. /\ pc = "clean" /\ h \in pending /\ h \in heads
        /\ UNCHANGED <<pc, Heads, poppedHeads, isFollowingChain>>
    BY <1>3 DEF CleanHead, TreeInv, flags
  <2>2. CASE PopHead(h)
    BY <2>1, <2>2, PopHeadTree DEF TreeInv
  <2>3. CASE /\ PreviousHash[h] \in BlockGraph
             /\ connected' = connected \cup {h} /\ BlockGraph' = BlockGraph
             /\ heads' = heads \ {h} /\ pending' = pending \ {h}
    BY <2>1, <2>3 DEF TreeInv
  <2>4. CASE /\ PreviousHash[h] \notin BlockGraph
             /\ pending' = pending \ {h} /\ UNCHANGED <<tree, heads>>
    BY <2>1, <2>4 DEF TreeInv, tree
  <2>5. QED
    BY <1>3, <2>2, <2>3, <2>4 DEF CleanHead
<1>4. ASSUME StartRounds PROVE TreeInv'
  BY <1>4 DEF StartRounds, TreeInv, tree, flags
<1>5. ASSUME NEW h \in Blocks, VisitHead(h) PROVE TreeInv'
  <2>1. /\ pc = "visit" /\ h \in pending
        /\ UNCHANGED <<pc, Heads, isFollowingChain>>
    BY <1>5 DEF VisitHead, flags
  <2>2. CASE PopHead(h) /\ poppedHeads' = poppedHeads \cup {h}
    BY <2>1, <2>2, PopHeadTree DEF TreeInv
  <2>3. CASE pending' = pending \ {h} /\ UNCHANGED <<tree, heads, poppedHeads>>
    BY <2>1, <2>3 DEF TreeInv, tree
  <2>4. QED
    BY <1>5, <2>2, <2>3 DEF VisitHead
<1>6. ASSUME FinishRound PROVE TreeInv'
  BY <1>6 DEF FinishRound, AfterRound, TreeInv, tree, flags
<1>7. CASE AddBlockPanics
  BY <1>1, <1>7 DEF AddBlockPanics, chainVars, locals, flags
<1>8. CASE \E b \in IbdBlocks : IbdData(b)
  BY <1>1, <1>8 DEF IbdData, chainVars, locals, flags
<1>9. CASE SetFollowingChain \/ UnSetInitialBlockDownload \/ TakeHeadsToCheck
  BY <1>1, <1>9
  DEF SetFollowingChain, UnSetInitialBlockDownload, TakeHeadsToCheck, locals, flags
<1>10. CASE Ingestion \/ UNCHANGED allVars
  BY <1>1, <1>10 DEF Ingestion, allVars, chainVars, locals, flags
<1>11. QED
  BY <1>2, <1>3, <1>4, <1>5, <1>6, <1>7, <1>8, <1>9, <1>10 DEF ChainNext, AddBlockContinues

\* In whatever order blocks come and heads are visited, between calls the heads are
\* exactly the roots of the tree, and every other block has its edge.  (AddBlock.)
THEOREM HeadsRoots == ChainSpec => []HeadsAreRoots
<1>1. TreeInv => HeadsAreRoots
  BY DEF TreeInv, HeadsAreRoots
<1>2. QED
  BY <1>1, TreeInvInit, TreeInvStep, PTL DEF ChainSpec

\* AddBlock never panics for want of a head that it has itself taken off the tree.
THEOREM HeadsInTree == ChainSpec => []HeadsAreInTree
<1>1. TreeInv => HeadsAreInTree
  BY DEF TreeInv, HeadsAreInTree
<1>2. QED
  BY <1>1, TreeInvInit, TreeInvStep, PTL DEF ChainSpec

-----------------------------------------------------------------------------
(* The store under the tree *)

LEMMA FreshStoreServed ==
  ASSUME ChainInit, FreshStore
  PROVE  ServedStore
<1>1. Genesis \in Blocks /\ TxsOf[Genesis] \subseteq Txs /\ NoBlock \notin Blocks
  BY BlocksAssumption
<1>2. /\ IsMap(incomingBlocksByHeight, Nat, Blocks)
      /\ IsMap(incomingBlocksByTx, Txs, Blocks)
  BY <1>1 DEF FreshStore, IsMap
<1>3. BufferInv
  BY <1>1, <1>2, EmptyMap
  DEF ChainInit, FreshStore, BufferInv, TypeOK, MemoryTypeOK, ChunkBucketsTypeOK,
      BlockOrNil, NoChainstate, NothingLeftInBuffer
<1>4. ChainInv
  BY DEF ChainInit, FreshStore, ChainInv, TipIsLastWritten, SerializedChainIsWhole
<1>5. LogInv /\ FilesInv
  BY DEF ChainInit, FreshStore, LogInv, FilesInv, serializedLog, Log!IsChain
<1>6. QED
  BY <1>3, <1>4, <1>5 DEF ChainInit, ServedStore

LEMMA FirstChunkServed ==
  ASSUME ChainInit, NEW c \in FirstChunks, StoreWithChunk(c)
  PROVE  ServedStore
<1> DEFINE n == AncientChunkSize
<1>1. /\ n \in Nat /\ n >= 2
      /\ c \in ChunkShape /\ c[1] = Genesis
      /\ \A i \in 1..(n - 1) : OrderedBlockPairIsValid(c[i], c[i + 1])
  BY ChainAssumption, SizesAssumption DEF ChunkShape
<1>2. \A i \in 1..n : c[i] \in Blocks /\ Height[c[i]] = i
  <2>1. \A i \in 1..n : Height[c[i]] = Height[c[1]] + i - 1
    BY <1>1, LinkedHeights
  <2>2. Height[c[1]] = 1
    BY <1>1, BlocksAssumption
  <2>3. \A i \in 1..n : c[i] \in Blocks
    BY <1>1 DEF ChunkShape
  <2>4. QED
    BY <1>1, <2>1, <2>2, <2>3
<1>3. /\ lastWritten = c[n] /\ lastWritten \in Blocks /\ lastWritten # NoBlock
      /\ tipOfSerializedChain = lastWritten /\ Height[lastWritten] = n
      /\ height2hash = c /\ DOMAIN c = 1..n
      /\ Range(c) \subseteq Blocks
  BY <1>1, <1>2, BlocksAssumption DEF StoreWithChunk, ChunkShape, Range
<1>4. \A i \in 1..n : /\ hash2chunk[c[i]] = Genesis /\ Stored(c[i])
  BY <1>3 DEF StoreWithChunk, Stored, Range
<1>5. BufferInv
  <2>1. /\ IsMap(blockChunks, Blocks, ChunkShape) /\ IsMap(hash2chunk, Blocks, Blocks)
        /\ IsMap(height2hash, Nat, Blocks)
    BY <1>1, <1>3, BlocksAssumption DEF StoreWithChunk, IsMap, ChunkShape
  <2>2. IsMap(tx2hash, Txs, Blocks)
    BY <1>3, BlocksAssumption DEF StoreWithChunk, TxIndexes, TxsIn, IsMap
  <2>3. QED
    BY <1>3, <2>1, <2>2, EmptyMap
    DEF ChainInit, StoreWithChunk, BufferInv, TypeOK, MemoryTypeOK, ChunkBucketsTypeOK,
        BlockOrNil, NoChainstate, NothingLeftInBuffer
<1>6. ChainInv
  <2>1. \A h \in 2..n : PreviousHash[c[h]] = c[h - 1]
    BY <1>1 DEF OrderedBlockPairIsValid
  <2>2. SerializedChainIsWhole
    BY <1>1, <1>2, <1>3, <1>4, <2>1 DEF SerializedChainIsWhole
  <2>3. \A h \in 1..n : Height[hash2chunk[height2hash[h]]] <= h
    BY <1>1, <1>3, <1>4, BlocksAssumption
  <2>4. QED
    BY <1>3, <2>2, <2>3 DEF ChainInit, ChainInv, TipIsLastWritten
<1>7. LogInv
  <2>1. serializedLog = [h \in 1..n |-> c[h]]
    BY <1>3 DEF serializedLog
  <2>2. serializedLog = c
    BY <1>1, <2>1 DEF ChunkShape
  <2>3. c \in Seq(Blocks) /\ Len(c) = n
    BY <1>1 DEF ChunkShape
  <2>4. Log!IsChain(serializedLog)
    BY <1>1, <2>2, <2>3 DEF Log!IsChain, Log!OrderedBlockPairIsValid, OrderedBlockPairIsValid
  <2>5. QED
    BY <1>3, <2>4 DEF ChainInit, LogInv
<1>8. FilesInv
  <2>1. \A k \in DOMAIN blockChunks : Height[k] <= Height[lastWritten]
    BY <1>1, <1>3, BlocksAssumption DEF StoreWithChunk
  <2>2. \A t \in DOMAIN tx2hash : tx2hash[t] \in Range(c) /\ t \in TxsOf[tx2hash[t]]
    BY DEF StoreWithChunk, TxIndexes
  <2>3. \A b \in Range(c) : Stored(b)
    BY <1>3, <1>4 DEF Range
  <2>4. QED
    BY <1>3, <2>1, <2>2, <2>3 DEF FilesInv
<1>9. QED
  BY <1>5, <1>6, <1>7, <1>8 DEF ChainInit, ServedStore

LEMMA ServedStoreInit == ChainInit => ServedStore
BY FreshStoreServed, FirstChunkServed DEF ChainInit

\* Steps of the tree are steps of the store, the tree panicking apart.
LEMMA StoreSteps ==
  ASSUME TreeInv, ServedStore, [ChainNext]_allVars
  PROVE  \/ [CarefulNext]_vars /\ proc' \in {"up", "down"}
         \/ proc = "up" /\ proc' = "down" /\ incomingBlocks' = {}
<1>1. ASSUME Run PROVE [CarefulNext]_vars /\ proc' \in {"up", "down"}
  BY <1>1, RunIsCareful
<1>2. ASSUME NEW b \in Blocks, AddBlock(b) PROVE [CarefulNext]_vars /\ proc' \in {"up", "down"}
  BY <1>2, AddBlockIsCareful
<1>3. ASSUME UNCHANGED vars PROVE [CarefulNext]_vars /\ proc' \in {"up", "down"}
  BY <1>3 DEF vars, ServedStore
<1>4. ASSUME FinishRound PROVE UNCHANGED vars \/ \E b \in Blocks : AddBlock(b)
  <2>1. CASE UNCHANGED vars
    BY <2>1
  <2>2. CASE \E best \in BestPopped : AddBlock(best)
    <3>1. PICK best \in BestPopped : AddBlock(best)
      BY <2>2
    <3>2. best \in Blocks
      BY DEF TreeInv, BestPopped
    <3>3. QED
      BY <3>1, <3>2
  <2>3. QED
    BY <1>4, <2>1, <2>2 DEF FinishRound
<1>5. CASE AddBlockPanics
  BY <1>5 DEF AddBlockPanics, Running, ServedStore, Die, EmptyMemory
<1>6. CASE \E b \in IbdBlocks : IbdData(b)
  BY <1>2, <1>6, ChainAssumption DEF IbdData
<1>7. CASE FinishRound
  BY <1>2, <1>3, <1>4, <1>7
<1>8. CASE Ingestion
  BY <1>1, <1>8 DEF Ingestion
<1>9. QED
  BY <1>3, <1>5, <1>6, <1>7, <1>8
  DEF ChainNext, AddBlockContinues, InsertBlock, CleanHead, StartRounds, VisitHead,
      SetFollowingChain, UnSetInitialBlockDownload, TakeHeadsToCheck, allVars

\* A process that has ended is not followed by another.
LEMMA DownStays ==
  ASSUME TreeInv, ServedStore, [ChainNext]_allVars, proc = "down"
  PROVE  proc' = "down"
<1>1. ~ Running
  BY DEF Running
<1>2. QED
  BY <1>1
  DEF ChainNext, AddBlockContinues, InsertBlock, CleanHead, StartRounds, VisitHead, FinishRound,
      AddBlockPanics, IbdData, AddBlock, Ingestion, Run,
      SetFollowingChain, UnSetInitialBlockDownload, TakeHeadsToCheck, allVars, vars

LEMMA ServedStoreStep ==
  ASSUME PruneHeights = {}, ~ DiskCanFail, TreeInv, ServedStore, [ChainNext]_allVars
  PROVE  ServedStore'
<1>1. CASE proc' = "down"
  BY <1>1 DEF ServedStore
<1>2. QED
  BY <1>1, StoreSteps, DownStays, ServedStep DEF ServedStore

-----------------------------------------------------------------------------
(* Mature heads *)

\* What DFS may end with is one height.
LEMMA HighestAreLevel ==
  ASSUME TreeInv, NEW h, NEW b \in HighestAbove(h), NEW c \in HighestAbove(h)
  PROVE  /\ Height[b] = Height[c]
         /\ b \in Blocks /\ Height[b] \in Nat
<1>1. b \in BlockGraph /\ c \in BlockGraph
  BY DEF HighestAbove
<1>2. ~ BlockOrderingRule(b, c) /\ ~ BlockOrderingRule(c, b)
  BY DEF HighestAbove
<1>3. b \in Blocks /\ c \in Blocks
  BY <1>1 DEF TreeInv
<1>4. Height[b] \in Nat /\ Height[c] \in Nat
  BY <1>3, BlocksAssumption
<1>5. QED
  BY <1>2, <1>3, <1>4 DEF BlockOrderingRule

\* A head whose branch must not get deeper before its parent is stored.
Waits(h) ==
  Retrievable(PreviousHash[h]) =>
    \A b \in HighestAbove(h) : Height[b] - Height[h] <= COINBASE_MATURITY

\* Neither the tree nor the store has changed for the head.
LEMMA StillWaits ==
  ASSUME NEW h, UNCHANGED tree, Retrievable(PreviousHash[h])' => Retrievable(PreviousHash[h]),
         Waits(h)
  PROVE  Waits(h)'
<1>1. HighestAbove(h)' = HighestAbove(h)
  BY DEF HighestAbove, Lineage, tree
<1>2. QED
  BY <1>1 DEF Waits

LEMMA RoundInvInit == ChainInit => RoundInv
BY DEF ChainInit, RoundInv

LEMMA RoundInvStep ==
  ASSUME PruneHeights = {}, ~ DiskCanFail, TreeInv, ServedStore, RoundInv, [ChainNext]_allVars
  PROVE  RoundInv'
<1>1. CASE ~ Running'
  BY <1>1 DEF RoundInv
<1> SUFFICES ASSUME Running' PROVE RoundInv'
  BY <1>1
<1>2. /\ proc = "up" /\ proc' = "up" /\ Running /\ [CarefulNext]_vars
      /\ BufferInv /\ ChainInv /\ LogInv /\ FilesInv
  BY StoreSteps, DownStays DEF ServedStore, Running
<1>3. \A h \in heads \cup poppedHeads : h \in Blocks /\ PreviousHash[h] \in BlockOrNil
  BY BlocksAssumption DEF TreeInv, BlockOrNil
<1>4. RoundInv <=>
        /\ pc = "visit" => \A h \in poppedHeads : Retrievable(PreviousHash[h])
        /\ pc = "idle" \/ (pc = "visit" /\ poppedHeads = {}) =>
             \A h \in heads : (pc = "visit" /\ h \in pending) \/ Waits(h)
  BY <1>2 DEF RoundInv, Waits
<1>5. RoundInv' <=>
        /\ pc' = "visit" => \A h \in poppedHeads' : Retrievable(PreviousHash[h])'
        /\ pc' = "idle" \/ (pc' = "visit" /\ poppedHeads' = {}) =>
             \A h \in heads' : (pc' = "visit" /\ h \in pending') \/ Waits(h)'
  BY DEF RoundInv, Waits
<1>6. ASSUME UNCHANGED <<tree, heads, pending, poppedHeads, pc>>,
             \A h \in heads \cup poppedHeads :
               Retrievable(PreviousHash[h])' <=> Retrievable(PreviousHash[h])
      PROVE  RoundInv'
  <2>1. \A h \in heads : Waits(h) => Waits(h)'
    BY <1>6, StillWaits
  <2>2. QED
    BY <1>4, <1>5, <1>6, <2>1
<1>7. ASSUME UNCHANGED vars, NEW b PROVE Retrievable(b)' <=> Retrievable(b)
  BY <1>7 DEF Retrievable, Stored, vars, memory, disk, chunkBuckets
<1>8. ASSUME pc' = "clean" PROVE RoundInv'
  BY <1>5, <1>8
<1>9. ASSUME StartRounds PROVE RoundInv'
  BY <1>5, <1>9 DEF StartRounds
<1>10. ASSUME NEW h \in Blocks, VisitHead(h) PROVE RoundInv'
  <2>1. /\ pc = "visit" /\ pc' = "visit" /\ h \in pending /\ h \in heads
        /\ \A b : Retrievable(b)' <=> Retrievable(b)
    BY <1>7, <1>10 DEF VisitHead, TreeInv
  <2>2. PICK highest \in HighestAbove(h) :
          LET info == [LowestBlock |-> h, HighestBlock |-> highest,
                       HasDB |-> Retrievable(PreviousHash[h])] IN
          \/ Mature(info) /\ poppedHeads' = poppedHeads \cup {h}
          \/ ~ Mature(info) /\ pending' = pending \ {h} /\ UNCHANGED <<tree, heads, poppedHeads>>
    BY <1>10 DEF VisitHead
  <2> DEFINE info == [LowestBlock |-> h, HighestBlock |-> highest,
                      HasDB |-> Retrievable(PreviousHash[h])]
  <2>3. CASE Mature(info) /\ poppedHeads' = poppedHeads \cup {h}
    <3>1. Retrievable(PreviousHash[h])
      BY <2>3 DEF Mature
    <3>2. QED
      BY <1>4, <1>5, <2>1, <2>3, <3>1
  <2>4. CASE ~ Mature(info) /\ pending' = pending \ {h} /\ UNCHANGED <<tree, heads, poppedHeads>>
    <3>1. Waits(h)
      <4>1. Retrievable(PreviousHash[h]) => Height[highest] - Height[h] <= COINBASE_MATURITY
        BY <1>3, <2>1, <2>4, HighestAreLevel, BlocksAssumption, ChainAssumption DEF Mature, Depth
      <4>2. QED
        BY <4>1, HighestAreLevel DEF Waits
    <3>2. \A g \in heads : Waits(g) => Waits(g)'
      BY <2>1, <2>4, StillWaits
    <3>3. QED
      BY <1>4, <1>5, <2>1, <2>4, <3>1, <3>2
  <2>5. QED
    BY <2>2, <2>3, <2>4
<1>11. ASSUME FinishRound PROVE RoundInv'
  <2>1. CASE poppedHeads = {}
    <3>1. BestPopped = {}
      BY <2>1 DEF BestPopped
    <3>2. UNCHANGED vars /\ pc = "visit" /\ pending = {} /\ pc' = "idle"
      BY <1>11, <2>1, <3>1 DEF FinishRound, AfterRound
    <3>3. UNCHANGED <<tree, heads>> /\ poppedHeads' = {}
      BY <1>11 DEF FinishRound
    <3>4. \A h \in heads : Waits(h) => Waits(h)'
      BY <1>7, <3>2, <3>3, StillWaits
    <3>5. QED
      BY <1>4, <1>5, <2>1, <3>2, <3>3, <3>4
  <2>2. CASE poppedHeads # {}
    <3>1. pc' = "visit" /\ pending' = heads /\ heads' = heads /\ poppedHeads' = {}
      BY <1>11, <2>2 DEF FinishRound, AfterRound
    <3>2. QED
      BY <1>5, <3>1
  <2>3. QED
    BY <2>1, <2>2
<1>12. ASSUME NEW b \in IbdBlocks, IbdData(b) PROVE RoundInv'
  <2>1. pc = "idle" /\ pc' = "idle" /\ heads = {} /\ heads' = {}
    BY <1>12 DEF IbdData, TreeInv, chainVars, locals
  <2>2. QED
    BY <1>5, <2>1
<1>13. CASE Ingestion
  <2>1. \A h \in heads \cup poppedHeads :
          Retrievable(PreviousHash[h])' <=> Retrievable(PreviousHash[h])
    <3> TAKE h \in heads \cup poppedHeads
    <3>1. CASE PreviousHash[h] = NoBlock
      <4>1. BufferInv'
        BY <1>2, ServedStoreStep DEF ServedStore
      <4>2. ~ Retrievable(NoBlock) /\ ~ Retrievable(NoBlock)'
        <5>1. NoBlock \notin Blocks
          BY BlocksAssumption
        <5>2. (\A b : Retrievable(b) => b \in Blocks)'
          BY <4>1, OnlyBlocksAreFound, PTL
        <5>3. QED
          BY <1>2, <5>1, <5>2, OnlyBlocksAreFound
      <4>3. QED
        BY <3>1, <4>2
    <3>2. CASE PreviousHash[h] \in Blocks
      BY <1>2, <1>13, <3>2, SerializationKeepsAnswers DEF Ingestion
    <3>3. QED
      BY <1>3, <3>1, <3>2 DEF BlockOrNil
  <2>2. QED
    BY <1>6, <1>13, <2>1 DEF Ingestion, chainVars, locals
<1>14. CASE SetFollowingChain \/ UnSetInitialBlockDownload \/ TakeHeadsToCheck \/ UNCHANGED allVars
  <2>1. UNCHANGED vars /\ UNCHANGED <<tree, heads, pending, poppedHeads, pc>>
    BY <1>14 DEF SetFollowingChain, UnSetInitialBlockDownload, TakeHeadsToCheck,
       allVars, chainVars, locals
  <2>2. QED
    BY <1>6, <1>7, <2>1
<1>15. CASE AddBlockPanics
  BY <1>2, <1>15 DEF AddBlockPanics, Die
<1>16. ASSUME (\E b \in Relayed : InsertBlock(b)) \/ (\E h \in Blocks : CleanHead(h))
       PROVE  pc' = "clean"
  BY <1>16 DEF InsertBlock, CleanHead
<1>17. QED
  BY <1>8, <1>9, <1>10, <1>11, <1>12, <1>13, <1>14, <1>15, <1>16 DEF ChainNext, AddBlockContinues

LEMMA ChainInvariants ==
  ASSUME PruneHeights = {}, ~ DiskCanFail
  PROVE  ChainSpec => [](TreeInv /\ ServedStore /\ RoundInv)
<1>1. ChainInit => TreeInv /\ ServedStore /\ RoundInv
  BY TreeInvInit, ServedStoreInit, RoundInvInit
<1>2. TreeInv /\ ServedStore /\ RoundInv /\ [ChainNext]_allVars
        => (TreeInv /\ ServedStore /\ RoundInv)'
  BY TreeInvStep, ServedStoreStep, RoundInvStep
<1>3. QED
  BY <1>1, <1>2, PTL DEF ChainSpec

\* When AddBlock's rounds are over no head is left that could be popped, although the
\* ingestion thread writes chunks in between.  (AddBlock, its newHeads loop.)
THEOREM NoneMatureLeft ==
  ASSUME PruneHeights = {}, ~ DiskCanFail
  PROVE  ChainSpec => []NothingMatureIsLeft
<1>1. TreeInv /\ RoundInv => NothingMatureIsLeft
  BY DEF TreeInv, RoundInv, NothingMatureIsLeft
<1>2. QED
  BY <1>1, ChainInvariants, PTL

\* A block is stored from the tree only after its parent, whatever the ingestion
\* thread does between the visit of the head and the end of the round.  (AddBlock.)
THEOREM AfterParent ==
  ASSUME PruneHeights = {}, ~ DiskCanFail
  PROVE  ChainSpec => StoredAfterParent
<1>1. TreeInv /\ ServedStore /\ RoundInv /\ [ChainNext]_allVars =>
        [pc = "visit" => \A b \in incomingBlocks' \ incomingBlocks :
                           Retrievable(PreviousHash[b])]_allVars
  <2> SUFFICES ASSUME TreeInv, ServedStore, RoundInv, [ChainNext]_allVars,
                      pc = "visit", NEW b \in incomingBlocks' \ incomingBlocks
               PROVE  Retrievable(PreviousHash[b])
    OBVIOUS
  <2>1. CASE FinishRound
    <3>1. PICK best \in BestPopped : AddBlock(best)
      BY <2>1 DEF FinishRound, vars, memory
    <3>2. b = best /\ Running
      BY <3>1 DEF AddBlock, addBlockUnsafe
    <3>3. QED
      BY <3>1, <3>2 DEF BestPopped, RoundInv
  <2>2. CASE Ingestion
    <3>1. proc = "up" /\ BufferInv
      BY <2>2 DEF Ingestion, Run, Running, ServedStore
    <3>2. incomingBlocks' \subseteq incomingBlocks
      BY <2>2, <3>1, RunCutsAChunk
      DEF Ingestion, ChunkLeaves, SerializationIsFatal, Die, EmptyMemory
    <3>3. QED
      BY <3>2
  <2>3. CASE AddBlockPanics
    BY <2>3 DEF AddBlockPanics, Die, EmptyMemory
  <2>4. CASE ~ FinishRound /\ ~ Ingestion /\ ~ AddBlockPanics
    <3>1. UNCHANGED vars
      BY <2>4
      DEF ChainNext, AddBlockContinues, InsertBlock, CleanHead, StartRounds, VisitHead,
          IbdData, SetFollowingChain, UnSetInitialBlockDownload, TakeHeadsToCheck, allVars
    <3>2. QED
      BY <3>1 DEF vars, memory
  <2>5. QED
    BY <2>1, <2>2, <2>3, <2>4
<1>2. QED
  BY <1>1, ChainInvariants, PTL DEF ChainSpec, StoredAfterParent

-----------------------------------------------------------------------------
(* Branches: the lineage of a block in the tree, and all its ancestry *)

\* The sets that follow P from c for as long as it leads out of E: the recursive
\* definition of them has a solution.
Paths(S, E, P) ==
  [c \in S |-> {d \in S : \A T \in SUBSET S :
                             c \in T /\ (\A e \in T \cap E : P[e] \in T) => d \in T}]

Follows(f, S, E, P) ==
  /\ f \in [S -> SUBSET S]
  /\ \A c \in S : f[c] = IF c \in E THEN {c} \cup f[P[c]] ELSE {c}

LEMMA PathsSolve ==
  ASSUME NEW S, NEW E, NEW P, \A c \in S \cap E : P[c] \in S
  PROVE  Follows(Paths(S, E, P), S, E, P)
<1> DEFINE Closed(T) == \A e \in T \cap E : P[e] \in T
           f == Paths(S, E, P)
<1>0. f = [c \in S |-> {d \in S : \A T \in SUBSET S : c \in T /\ Closed(T) => d \in T}]
  BY DEF Paths
<1> HIDE DEF f
<1>1. ASSUME NEW c \in S, c \notin E PROVE f[c] = {c}
  <2>1. Closed({c})
    BY <1>1
  <2>2. \A d \in f[c] : d = c
    BY <1>0, <1>1, <2>1
  <2>3. c \in f[c]
    BY <1>0, <1>1
  <2>4. QED
    BY <2>2, <2>3
<1>2. ASSUME NEW c \in S, c \in E PROVE f[c] = {c} \cup f[P[c]]
  <2>1. P[c] \in S
    BY <1>2
  <2>2. ASSUME NEW d \in f[c], d # c PROVE d \in f[P[c]]
    <3>1. ASSUME NEW T \in SUBSET S, P[c] \in T, Closed(T) PROVE d \in T
      <4>1. Closed(T \cup {c}) /\ T \cup {c} \in SUBSET S
        BY <1>2, <3>1
      <4>2. d \in T \cup {c}
        BY <1>0, <1>2, <2>2, <4>1
      <4>3. QED
        BY <2>2, <4>2
    <3>2. d \in S
      BY <1>0, <2>2
    <3>3. QED
      BY <1>0, <2>1, <3>1, <3>2
  <2>3. \A d \in f[P[c]] : d \in f[c]
    BY <1>0, <1>2, <2>1
  <2>4. c \in f[c]
    BY <1>0, <1>2
  <2>5. QED
    BY <2>2, <2>3, <2>4
<1>3. f \in [S -> SUBSET S]
  BY <1>0
<1>4. QED
  BY <1>1, <1>2, <1>3 DEF f, Follows

LEMMA LineageStep ==
  ASSUME TreeInv, NEW b \in BlockGraph
  PROVE  Lineage(b) = IF b \in connected THEN {b} \cup Lineage(PreviousHash[b]) ELSE {b}
<1> DEFINE solves(f) == f = [c \in BlockGraph |-> IF c \in connected
                                                   THEN {c} \cup f[PreviousHash[c]] ELSE {c}]
           back == CHOOSE f : solves(f)
<1>1. \A c \in BlockGraph \cap connected : PreviousHash[c] \in BlockGraph
  BY DEF TreeInv
<1>2. \E f : solves(f)
  <2> DEFINE f == Paths(BlockGraph, connected, PreviousHash)
  <2>1. Follows(f, BlockGraph, connected, PreviousHash)
    BY <1>1, PathsSolve
  <2> HIDE DEF f
  <2>2. solves(f)
    BY <2>1 DEF Follows
  <2>3. QED
    BY <2>2
<1>3. solves(back)
  BY <1>2
<1>4. \A c : Lineage(c) = IF c \in BlockGraph THEN back[c] ELSE {}
  BY DEF Lineage
<1> HIDE DEF back
<1>5. back[b] = IF b \in connected THEN {b} \cup back[PreviousHash[b]] ELSE {b}
  BY <1>3
<1>6. QED
  BY <1>1, <1>4, <1>5

LEMMA AncestryStep ==
  ASSUME NEW b \in Blocks
  PROVE  Ancestry(b) = {b} \cup IF PreviousHash[b] \in Blocks THEN Ancestry(PreviousHash[b]) ELSE {}
<1> DEFINE E == {c \in Blocks : PreviousHash[c] \in Blocks}
           solves(f) == f = [c \in Blocks |-> {c} \cup IF PreviousHash[c] \in Blocks
                                                       THEN f[PreviousHash[c]] ELSE {}]
           back == CHOOSE f : solves(f)
<1>1. \E f : solves(f)
  <2>1. \A c \in Blocks \cap E : PreviousHash[c] \in Blocks
    OBVIOUS
  <2> DEFINE f == Paths(Blocks, E, PreviousHash)
  <2> HIDE DEF E
  <2>2. Follows(f, Blocks, E, PreviousHash)
    BY <2>1, PathsSolve
  <2> HIDE DEF f
  <2>3. \A c \in Blocks : f[c] = {c} \cup IF PreviousHash[c] \in Blocks
                                           THEN f[PreviousHash[c]] ELSE {}
    BY <2>2 DEF E, Follows
  <2>4. solves(f)
    BY <2>2, <2>3 DEF Follows
  <2>5. QED
    BY <2>4
<1>4. solves(back)
  BY <1>1
<1>5. \A c : Ancestry(c) = back[c]
  BY DEF Ancestry
<1> HIDE DEF back
<1>6. back[b] = {b} \cup IF PreviousHash[b] \in Blocks THEN back[PreviousHash[b]] ELSE {}
  BY <1>4
<1>7. QED
  BY <1>5, <1>6

\* Blocks are higher than their parents: what is passed on from parent to child holds
\* along every path.
LEMMA PathInduction ==
  ASSUME HeightsFollow, NEW S, S \subseteq Blocks,
         NEW E, \A b \in S : b \in E => PreviousHash[b] \in S,
         NEW T, \A b \in S : (b \in E => PreviousHash[b] \in T) => b \in T
  PROVE  S \subseteq T
<1> DEFINE bad == {b \in S : b \notin T}
           heights == {Height[b] : b \in bad}
<1>1. \A b \in S : Height[b] \in Nat
  BY BlocksAssumption
<1>2. heights \subseteq Nat
  BY <1>1
<1>3. SUFFICES ASSUME bad # {} PROVE FALSE
  OBVIOUS
<1>4. heights # {}
  <2>1. PICK b \in bad : TRUE
    BY <1>3
  <2>2. Height[b] \in heights
    BY <2>1
  <2>3. QED
    BY <2>2
<1>5. PICK n \in heights : \A m \in heights : n <= m
  <2> HIDE DEF heights
  <2>1. QED
    BY <1>2, <1>4, LeastNatural
<1>6. PICK b \in bad : Height[b] = n
  BY <1>5
<1>7. b \in E /\ PreviousHash[b] \in bad
  BY <1>6
<1>8. Height[b] = Height[PreviousHash[b]] + 1
  BY <1>6, <1>7 DEF HeightsFollow
<1>9. Height[b] <= Height[PreviousHash[b]]
  BY <1>5, <1>6, <1>7
<1>10. QED
  BY <1>1, <1>6, <1>7, <1>8, <1>9

LEMMA TreeInduction ==
  ASSUME TreeInv, HeightsFollow,
         NEW T, \A b \in BlockGraph : (b \in connected => PreviousHash[b] \in T) => b \in T
  PROVE  BlockGraph \subseteq T
<1>1. BlockGraph \subseteq Blocks
  BY DEF TreeInv
<1>2. \A b \in BlockGraph : b \in connected => PreviousHash[b] \in BlockGraph
  BY DEF TreeInv
<1>3. QED
  BY <1>1, <1>2, PathInduction

LEMMA BlocksInduction ==
  ASSUME HeightsFollow,
         NEW T, \A b \in Blocks : (PreviousHash[b] \in Blocks => PreviousHash[b] \in T) => b \in T
  PROVE  Blocks \subseteq T
<1> DEFINE E == {b \in Blocks : PreviousHash[b] \in Blocks}
<1>1. \A b \in Blocks : b \in E => PreviousHash[b] \in Blocks
  OBVIOUS
<1>2. \A b \in Blocks : (b \in E => PreviousHash[b] \in T) => b \in T
  OBVIOUS
<1>3. QED
  <2> HIDE DEF E
  <2>1. QED
    BY <1>1, <1>2, PathInduction

LEMMA HeightAboveParent ==
  ASSUME HeightsFollow, NEW b \in Blocks, PreviousHash[b] \in Blocks
  PROVE  /\ Height[b] \in Nat /\ Height[PreviousHash[b]] \in Nat
         /\ Height[b] = Height[PreviousHash[b]] + 1
BY BlocksAssumption DEF HeightsFollow

\* A lineage is a path: one block a height from the block down to a head.
IsPath(b) ==
  /\ b \in Lineage(b) /\ Lineage(b) \subseteq BlockGraph
  /\ \A c \in Lineage(b) : c = b \/ Height[c] < Height[b]
  /\ \A c \in Lineage(b) : c \in connected => PreviousHash[c] \in Lineage(b)
  /\ \A c \in Lineage(b) : c # b => \E e \in Lineage(b) : e \in connected /\ PreviousHash[e] = c
  /\ \A c, d \in Lineage(b) : Height[c] = Height[d] => c = d
  /\ \A h \in Lineage(b) : h \notin connected => \A c \in Lineage(b) : Height[h] <= Height[c]

LEMMA LineagesArePaths ==
  ASSUME TreeInv, HeightsFollow
  PROVE  \A b \in BlockGraph : IsPath(b)
<1> DEFINE T == {b \in BlockGraph : IsPath(b)}
<1>1. ASSUME NEW b \in BlockGraph, b \in connected => PreviousHash[b] \in T
      PROVE  b \in T
  <2>1. b \in Blocks /\ Height[b] \in Nat
    BY BlocksAssumption DEF TreeInv
  <2>2. CASE b \notin connected
    <3>1. Lineage(b) = {b}
      BY <2>2, LineageStep
    <3>2. IsPath(b)
      BY <2>1, <2>2, <3>1 DEF IsPath
    <3>3. QED
      BY <3>2
  <2>3. CASE b \in connected
    <3> DEFINE p == PreviousHash[b]
               L == Lineage(p)
    <3>1. Lineage(b) = {b} \cup L
      BY <2>3, LineageStep
    <3>2. p \in BlockGraph /\ IsPath(p)
      BY <1>1, <2>3
    <3>3. p \in Blocks /\ Height[p] \in Nat /\ Height[b] = Height[p] + 1
      BY <2>1, <3>2, HeightAboveParent DEF TreeInv
    <3>4. \A c \in L : Height[c] \in Nat
      BY <3>2, BlocksAssumption DEF TreeInv, IsPath
    <3>5. \A c \in L : Height[c] <= Height[p]
      BY <3>2, <3>3, <3>4 DEF IsPath
    <3>6. \A c \in L : Height[c] < Height[b]
      BY <3>3, <3>4, <3>5
    <3> HIDE DEF p
    <3>7. p \in L /\ L \subseteq BlockGraph
      BY <3>2 DEF IsPath
    <3>8. /\ \A c \in L : c \in connected => PreviousHash[c] \in L
          /\ \A c \in L : c # p => \E e \in L : e \in connected /\ PreviousHash[e] = c
          /\ \A c, d \in L : Height[c] = Height[d] => c = d
          /\ \A h \in L : h \notin connected => \A c \in L : Height[h] <= Height[c]
      BY <3>2 DEF IsPath
    <3> HIDE DEF L
    <3>9. \A c \in Lineage(b) : c \in connected => PreviousHash[c] \in Lineage(b)
      BY <3>1, <3>7, <3>8 DEF p
    <3>10. \A c \in Lineage(b) : c # b =>
             \E e \in Lineage(b) : e \in connected /\ PreviousHash[e] = c
      BY <2>3, <3>1, <3>8 DEF p
    <3>11. \A c, d \in Lineage(b) : Height[c] = Height[d] => c = d
      BY <2>1, <3>1, <3>4, <3>6, <3>8
    <3>12. \A h \in Lineage(b) : h \notin connected =>
             \A c \in Lineage(b) : Height[h] <= Height[c]
      BY <2>1, <2>3, <3>1, <3>4, <3>6, <3>8
    <3>13. IsPath(b)
      BY <3>1, <3>6, <3>7, <3>9, <3>10, <3>11, <3>12 DEF IsPath
    <3>14. QED
      BY <3>13
  <2>4. QED
    BY <2>2, <2>3
<1>2. BlockGraph \subseteq T
  <2> HIDE DEF T
  <2>1. QED
    BY <1>1, TreeInduction
<1>3. QED
  BY <1>2

\* What DFS ends with has no children in the tree.
LEMMA HighestIsAnEnd ==
  ASSUME TreeInv, HeightsFollow, NEW h, NEW b \in HighestAbove(h)
  PROVE  b \in BlockGraph /\ h \in Lineage(b) /\ Children(b) = {}
<1>1. b \in BlockGraph /\ h \in Lineage(b)
  BY DEF HighestAbove
<1>2. ASSUME NEW c \in Children(b) PROVE FALSE
  <2>1. c \in connected /\ c \in BlockGraph /\ PreviousHash[c] = b
    BY <1>2 DEF Children, TreeInv
  <2>2. h \in Lineage(c)
    BY <1>1, <2>1, LineageStep
  <2>3. ~ BlockOrderingRule(b, c)
    BY <2>1, <2>2 DEF HighestAbove
  <2>4. b \in Blocks /\ c \in Blocks
    BY <1>1, <2>1 DEF TreeInv
  <2>5. /\ Height[b] \in Nat /\ Height[c] \in Nat /\ Height[c] = Height[b] + 1
    BY <2>1, <2>4, HeightAboveParent
  <2>6. QED
    BY <2>3, <2>5 DEF BlockOrderingRule
<1>3. QED
  BY <1>1, <1>2

\* The same of the tree as it will be.
LineageSteps ==
  \A b \in BlockGraph :
    Lineage(b) = IF b \in connected THEN {b} \cup Lineage(PreviousHash[b]) ELSE {b}

LEMMA LineagesStep == TreeInv => LineageSteps
BY LineageStep DEF LineageSteps

\* When a head is popped every lineage loses it.
LEMMA LineagesWhenPopped ==
  ASSUME TreeInv, TreeInv', HeightsFollow, NEW h \in heads, PopHead(h)
  PROVE  \A b \in BlockGraph' : Lineage(b)' = Lineage(b) \ {h}
<1> DEFINE T == {b \in BlockGraph : b = h \/ Lineage(b)' = Lineage(b) \ {h}}
<1>1. /\ BlockGraph' = BlockGraph \ {h} /\ connected' = connected \ (Children(h) \cup {h})
      /\ h \in BlockGraph /\ h \notin connected
  BY ChildrenAreConnected DEF PopHead
<1>0. LineageSteps'
  BY LineagesStep, PTL
<1>2. ASSUME NEW b \in BlockGraph, b \in connected => PreviousHash[b] \in T
      PROVE  b \in T
  <2>1. SUFFICES ASSUME b # h PROVE Lineage(b)' = Lineage(b) \ {h}
    BY <1>2
  <2>2. b \in BlockGraph'
    BY <1>1, <2>1
  <2>3. Lineage(b) = IF b \in connected THEN {b} \cup Lineage(PreviousHash[b]) ELSE {b}
    BY LineageStep
  <2>4. Lineage(b)' = IF b \in connected' THEN {b} \cup Lineage(PreviousHash[b])' ELSE {b}
    BY <1>0, <2>2 DEF LineageSteps
  <2>5. CASE b \notin connected
    BY <1>1, <2>1, <2>3, <2>4, <2>5
  <2>6. CASE b \in connected /\ PreviousHash[b] = h
    <3>1. b \notin connected'
      BY <1>1, <2>6 DEF Children
    <3>2. Lineage(h) = {h}
      BY <1>1, LineageStep
    <3>3. QED
      BY <2>1, <2>3, <2>4, <2>6, <3>1, <3>2
  <2>7. CASE b \in connected /\ PreviousHash[b] # h
    <3>1. b \in connected'
      BY <1>1, <2>1, <2>7 DEF Children
    <3>2. Lineage(PreviousHash[b])' = Lineage(PreviousHash[b]) \ {h}
      BY <1>2, <2>7
    <3>3. QED
      BY <2>1, <2>3, <2>4, <2>7, <3>1, <3>2
  <2>8. QED
    BY <2>5, <2>6, <2>7
<1>3. BlockGraph \subseteq T
  <2> HIDE DEF T
  <2>1. QED
    BY <1>2, TreeInduction
<1>4. QED
  BY <1>1, <1>3

\* What is added to the tree takes nothing from a lineage.
LEMMA LineagesWhenAdded ==
  ASSUME TreeInv, TreeInv', HeightsFollow,
         BlockGraph \subseteq BlockGraph', connected \subseteq connected'
  PROVE  \A b \in BlockGraph : Lineage(b) \subseteq Lineage(b)'
<1> DEFINE T == {b \in BlockGraph : Lineage(b) \subseteq Lineage(b)'}
<1>0. LineageSteps'
  BY LineagesStep, PTL
<1>1. ASSUME NEW b \in BlockGraph, b \in connected => PreviousHash[b] \in T
      PROVE  b \in T
  <2>1. Lineage(b) = IF b \in connected THEN {b} \cup Lineage(PreviousHash[b]) ELSE {b}
    BY LineageStep
  <2>2. b \in BlockGraph'
    OBVIOUS
  <2>3. Lineage(b)' = IF b \in connected' THEN {b} \cup Lineage(PreviousHash[b])' ELSE {b}
    BY <1>0, <2>2 DEF LineageSteps
  <2>4. b \in Lineage(b)'
    BY <2>3
  <2>5. CASE b \notin connected
    BY <2>1, <2>4, <2>5
  <2>6. CASE b \in connected
    BY <1>1, <2>1, <2>3, <2>6
  <2>7. QED
    BY <2>5, <2>6
<1>2. BlockGraph \subseteq T
  <2> HIDE DEF T
  <2>1. QED
    BY <1>1, TreeInduction
<1>3. QED
  BY <1>2

\* The ancestry of a block: all that it was mined on.
AncestryPath(b) ==
  /\ b \in Ancestry(b) /\ Ancestry(b) \subseteq Blocks
  /\ \A c \in Ancestry(b) : c = b \/ Height[c] < Height[b]
  /\ \A c \in Ancestry(b) : Ancestry(c) \subseteq Ancestry(b)

LEMMA AncestriesArePaths ==
  ASSUME HeightsFollow
  PROVE  \A b \in Blocks : AncestryPath(b)
<1> DEFINE T == {b \in Blocks : AncestryPath(b)}
<1>1. ASSUME NEW b \in Blocks, PreviousHash[b] \in Blocks => PreviousHash[b] \in T
      PROVE  b \in T
  <2> DEFINE p == PreviousHash[b]
             A == Ancestry(p)
  <2>1. Height[b] \in Nat
    BY BlocksAssumption
  <2>2. CASE p \notin Blocks
    <3>1. Ancestry(b) = {b}
      BY <2>2, AncestryStep
    <3>2. QED
      BY <3>1 DEF AncestryPath
  <2>3. CASE p \in Blocks
    <3>1. Ancestry(b) = {b} \cup A
      BY <2>3, AncestryStep
    <3>2. /\ p \in A /\ A \subseteq Blocks
          /\ \A c \in A : c = p \/ Height[c] < Height[p]
          /\ \A c \in A : Ancestry(c) \subseteq A
      BY <1>1, <2>3 DEF AncestryPath
    <3>3. Height[p] \in Nat /\ Height[b] = Height[p] + 1
      BY <2>3, HeightAboveParent
    <3>4. \A c \in A : Height[c] \in Nat
      BY <3>2, BlocksAssumption
    <3>5. \A c \in A : Height[c] < Height[b]
      BY <2>1, <3>2, <3>3, <3>4
    <3> HIDE DEF A, p
    <3>6. QED
      BY <3>1, <3>2, <3>5 DEF AncestryPath
  <2>4. QED
    BY <2>2, <2>3
<1>2. Blocks \subseteq T
  <2> HIDE DEF T
  <2>1. QED
    BY <1>1, BlocksInduction
<1>3. QED
  BY <1>2

LEMMA LineageInAncestry ==
  ASSUME TreeInv, HeightsFollow
  PROVE  \A b \in BlockGraph : Lineage(b) \subseteq Ancestry(b)
<1> DEFINE T == {b \in BlockGraph : Lineage(b) \subseteq Ancestry(b)}
<1>1. ASSUME NEW b \in BlockGraph, b \in connected => PreviousHash[b] \in T
      PROVE  b \in T
  <2>1. Lineage(b) = IF b \in connected THEN {b} \cup Lineage(PreviousHash[b]) ELSE {b}
    BY LineageStep
  <2>2. b \in Blocks /\ (b \in connected => PreviousHash[b] \in Blocks)
    BY DEF TreeInv
  <2>3. /\ b \in Ancestry(b)
        /\ b \in connected => Ancestry(PreviousHash[b]) \subseteq Ancestry(b)
    BY <2>2, AncestryStep
  <2>4. CASE b \notin connected
    BY <2>1, <2>3, <2>4
  <2>5. CASE b \in connected
    BY <1>1, <2>1, <2>3, <2>5
  <2>6. QED
    BY <2>4, <2>5
<1>2. BlockGraph \subseteq T
  <2> HIDE DEF T
  <2>1. QED
    BY <1>1, TreeInduction
<1>3. QED
  BY <1>2

\* b is the serialized block of its height.
OnChain(b) ==
  b \in Blocks /\ Height[b] <= Height[lastWritten] /\ height2hash[Height[b]] = b

LEMMA ParentsOnChain ==
  ASSUME ChainInv, lastWritten \in Blocks, NEW b, OnChain(b)
  PROVE  /\ PreviousHash[b] \in Blocks => Height[b] >= 2
         /\ Height[b] >= 2 => /\ PreviousHash[b] = height2hash[Height[b] - 1]
                              /\ Height[height2hash[Height[b] - 1]] = Height[b] - 1
<1>1. /\ Height[b] \in Nat /\ Height[b] >= 1 /\ Height[lastWritten] \in Nat
      /\ lastWritten # NoBlock
  BY BlocksAssumption DEF OnChain
<1>2. Height[b] \in 1..Height[lastWritten]
  BY <1>1 DEF OnChain
<1>3. CASE Height[b] = 1
  <2>1. b = Genesis
    BY <1>1, <1>3 DEF OnChain, ChainInv, SerializedChainIsWhole
  <2>2. QED
    BY <1>3, <2>1, BlocksAssumption
<1>4. CASE Height[b] >= 2
  <2>1. Height[b] \in 2..Height[lastWritten] /\ Height[b] - 1 \in 1..Height[lastWritten]
    BY <1>1, <1>2, <1>4
  <2>2. PreviousHash[height2hash[Height[b]]] = height2hash[Height[b] - 1]
    BY <1>1, <2>1 DEF ChainInv, SerializedChainIsWhole
  <2>3. Height[height2hash[Height[b] - 1]] = Height[b] - 1
    BY <1>1, <2>1 DEF ChainInv, SerializedChainIsWhole
  <2>4. QED
    BY <1>4, <2>2, <2>3 DEF OnChain
<1>5. QED
  BY <1>1, <1>3, <1>4

\* What a serialized block was mined on is serialized, and nothing else is below it.
LEMMA ChainIsAncestry ==
  ASSUME HeightsFollow, BufferInv, ChainInv, lastWritten \in Blocks
  PROVE  \A b : OnChain(b) =>
           /\ \A a \in Ancestry(b) : OnChain(a)
           /\ \A h \in 1..Height[b] : height2hash[h] \in Ancestry(b)
<1> DEFINE Good(b) == /\ \A a \in Ancestry(b) : OnChain(a)
                      /\ \A h \in 1..Height[b] : height2hash[h] \in Ancestry(b)
           T == {b \in Blocks : OnChain(b) => Good(b)}
<1>1. ASSUME NEW b \in Blocks, PreviousHash[b] \in Blocks => PreviousHash[b] \in T
      PROVE  b \in T
  <2> SUFFICES ASSUME OnChain(b) PROVE Good(b)
    OBVIOUS
  <2> DEFINE p == PreviousHash[b]
  <2>1. /\ Height[b] \in Nat /\ Height[b] >= 1 /\ Height[lastWritten] \in Nat
        /\ height2hash[Height[b]] = b /\ Height[b] <= Height[lastWritten]
    BY BlocksAssumption DEF OnChain
  <2>2. CASE p \notin Blocks
    <3>1. Ancestry(b) = {b}
      BY <2>2, AncestryStep
    <3>2. Height[b] = 1
      <4>1. SUFFICES ASSUME Height[b] >= 2 PROVE FALSE
        BY <2>1
      <4>2. p = height2hash[Height[b] - 1] /\ Height[b] - 1 \in 1..Height[lastWritten]
        BY <2>1, <4>1, ParentsOnChain
      <4>3. height2hash[Height[b] - 1] \in Blocks
        <5>1. Height[b] - 1 \in DOMAIN height2hash
          BY <4>2, BlocksAssumption DEF ChainInv, SerializedChainIsWhole
        <5>2. QED
          BY <5>1 DEF BufferInv, TypeOK, ChunkBucketsTypeOK, IsMap
      <4>4. QED
        BY <2>2, <4>2, <4>3
    <3>3. QED
      BY <2>1, <3>1, <3>2
  <2>3. CASE p \in Blocks
    <3>1. Ancestry(b) = {b} \cup Ancestry(p)
      BY <2>3, AncestryStep
    <3>2. Height[b] >= 2 /\ p = height2hash[Height[b] - 1] /\ Height[p] = Height[b] - 1
      BY <2>3, ParentsOnChain
    <3>3. OnChain(p)
      BY <2>1, <2>3, <3>2 DEF OnChain
    <3>4. Good(p)
      BY <1>1, <2>3, <3>3
    <3>5. \A a \in Ancestry(b) : OnChain(a)
      BY <3>1, <3>4
    <3>6. ASSUME NEW h \in 1..Height[b] PROVE height2hash[h] \in Ancestry(b)
      <4>1. CASE h = Height[b]
        BY <2>1, <3>1, <4>1
      <4>2. CASE h # Height[b]
        <5>1. h \in 1..Height[p]
          BY <2>1, <3>2, <4>2
        <5>2. QED
          BY <3>1, <3>4, <5>1
      <4>3. QED
        BY <4>1, <4>2
    <3>7. QED
      BY <3>5, <3>6
  <2>4. QED
    BY <2>2, <2>3
<1>2. Blocks \subseteq T
  <2> HIDE DEF T
  <2>1. QED
    BY <1>1, BlocksInduction
<1>3. QED
  BY <1>2 DEF OnChain

\* Above a serialized block there is one way down.
LEMMA BelowTheTip ==
  ASSUME HeightsFollow, BufferInv, ChainInv, lastWritten \in Blocks,
         NEW b \in Blocks, lastWritten \in Ancestry(b),
         NEW a \in Ancestry(b), Height[a] <= Height[lastWritten]
  PROVE  OnChain(a)
<1> DEFINE tip == lastWritten
           T == {c \in Blocks : tip \in Ancestry(c) =>
                   \A d \in Ancestry(c) : Height[d] <= Height[tip] => OnChain(d)}
<1>1. OnChain(tip)
  BY BlocksAssumption DEF OnChain, ChainInv, SerializedChainIsWhole
<1>2. \A d \in Ancestry(tip) : OnChain(d)
  BY <1>1, ChainIsAncestry
<1>3. ASSUME NEW c \in Blocks, PreviousHash[c] \in Blocks => PreviousHash[c] \in T
      PROVE  c \in T
  <2> SUFFICES ASSUME tip \in Ancestry(c), NEW d \in Ancestry(c), Height[d] <= Height[tip]
               PROVE  OnChain(d)
    OBVIOUS
  <2>1. CASE c = tip
    BY <1>2, <2>1
  <2>2. CASE c # tip
    <3>1. tip \in Ancestry(PreviousHash[c]) /\ PreviousHash[c] \in Blocks
      BY <2>2, AncestryStep
    <3>2. Height[tip] < Height[c] /\ Height[tip] \in Nat /\ Height[c] \in Nat
      BY <2>2, AncestriesArePaths, BlocksAssumption DEF AncestryPath
    <3>3. d # c
      BY <3>2
    <3>4. d \in Ancestry(PreviousHash[c])
      BY <3>1, <3>3, AncestryStep
    <3>5. QED
      BY <1>3, <3>1, <3>4
  <2>3. QED
    BY <2>1, <2>2
<1>4. Blocks \subseteq T
  <2> HIDE DEF T
  <2>1. QED
    BY <1>3, BlocksInduction
<1>5. QED
  BY <1>4

-----------------------------------------------------------------------------
(* What steps of the store do to the tree *)

LEMMA StoreGoesOn ==
  ASSUME PruneHeights = {}, ~ DiskCanFail, TreeInv, ServedStore, [ChainNext]_allVars, Running'
  PROVE  /\ proc = "up" /\ proc' = "up" /\ Running /\ [CarefulNext]_vars
         /\ BufferInv /\ ChainInv /\ LogInv /\ FilesInv
         /\ BufferInv' /\ ChainInv' /\ LogInv' /\ FilesInv'
<1>1. proc = "up" /\ proc' = "up" /\ Running /\ [CarefulNext]_vars
  BY StoreSteps, DownStays DEF ServedStore, Running
<1>2. BufferInv /\ ChainInv /\ LogInv /\ FilesInv
  BY <1>1 DEF ServedStore
<1>3. ServedStore'
  BY ServedStoreStep
<1>4. BufferInv' /\ ChainInv' /\ LogInv' /\ FilesInv'
  BY <1>1, <1>3 DEF ServedStore
<1>5. QED
  BY <1>1, <1>2, <1>4

\* What was found once is found again.
LEMMA AnswersStay ==
  ASSUME PruneHeights = {}, ~ DiskCanFail, TreeInv, ServedStore, [ChainNext]_allVars, Running'
  PROVE  \A b : Retrievable(b) => Retrievable(b)'
<1>1. /\ proc' = "up" /\ [Next]_vars
      /\ BufferInv /\ ChainInv /\ LogInv /\ FilesInv
  BY StoreGoesOn DEF CarefulNext
<1>2. \A b \in incomingBlocks : Retrievable(b)'
  BY <1>1, AcceptedStep
<1>3. \A b \in Blocks : Stored(b) => Stored(b)'
  BY <1>1, FilesStep
<1>4. toSerialize = {}
  BY <1>1 DEF BufferInv, NothingLeftInBuffer
<1>5. \A b : Retrievable(b) => b \in Blocks
  BY <1>1, OnlyBlocksAreFound
<1>6. QED
  BY <1>2, <1>3, <1>4, <1>5 DEF Retrievable

\* The tip is the last written block, and no open store loses it.
LEMMA TipStays ==
  ASSUME PruneHeights = {}, ~ DiskCanFail, TreeInv, ServedStore, [ChainNext]_allVars, Running',
         tipOfSerializedChain # NoBlock
  PROVE  /\ tipOfSerializedChain = lastWritten /\ lastWritten \in Blocks
         /\ tipOfSerializedChain' = lastWritten' /\ lastWritten' \in Blocks
         /\ Height[lastWritten] <= Height[lastWritten']
         /\ height2hash'[Height[lastWritten]] = lastWritten
<1>1. /\ proc = "up" /\ proc' = "up" /\ [Next]_vars
      /\ BufferInv /\ ChainInv /\ LogInv /\ FilesInv
      /\ BufferInv' /\ ChainInv' /\ LogInv'
  BY StoreGoesOn DEF CarefulNext
<1>2. tipOfSerializedChain = lastWritten /\ lastWritten \in Blocks
  BY <1>1 DEF ChainInv, TipIsLastWritten, BufferInv, TypeOK, ChunkBucketsTypeOK, BlockOrNil
<1>3. /\ Height[lastWritten] \in Nat /\ Height[lastWritten] >= 1
      /\ height2hash[Height[lastWritten]] = lastWritten /\ lastWritten # NoBlock
  BY <1>1, <1>2, BlocksAssumption DEF ChainInv, SerializedChainIsWhole
<1>4. CASE UNCHANGED chunkBuckets
  <2>1. lastWritten' = lastWritten /\ height2hash' = height2hash
    BY <1>4 DEF chunkBuckets
  <2>2. tipOfSerializedChain' = lastWritten'
    BY <1>1, <1>3, <2>1 DEF LogInv, ChainInv, TipIsLastWritten
  <2>3. QED
    BY <1>2, <1>3, <2>1, <2>2
<1>5. ASSUME NEW c \in Chunks(incomingBlocks), ChunkLeaves(c)
      PROVE  /\ tipOfSerializedChain' = lastWritten' /\ lastWritten' \in Blocks
             /\ Height[lastWritten] <= Height[lastWritten']
             /\ height2hash'[Height[lastWritten]] = lastWritten
  <2> DEFINE n == AncientChunkSize
             top == Height[lastWritten]
  <2>1. n \in Nat /\ n >= 1
    BY SizesAssumption
  <2>2. /\ c \in ChunkShape /\ ChunkIsValid(c) /\ serializeBlocks(c)
        /\ \A i \in 1..n : Height[c[i]] = top + i /\ c[i] \in Blocks
    BY <1>1, <1>3, <1>5, ChunkOnTop DEF LogHeight
  <2>3. /\ lastWritten' = c[n]
        /\ \A h \in DOMAIN height2hash \ Heights(Range(c)) : height2hash'[h] = height2hash[h]
    BY <2>2, ChunkWritten
  <2>4. tipOfSerializedChain' = c[n]
    BY <1>5 DEF ChunkLeaves
  <2>5. top \notin Heights(Range(c))
    BY <1>3, <2>1, <2>2 DEF Heights, Range, ChunkShape
  <2>6. top \in DOMAIN height2hash
    BY <1>1, <1>3 DEF ChainInv, SerializedChainIsWhole
  <2>7. Height[c[n]] = top + n /\ c[n] \in Blocks
    BY <2>1, <2>2
  <2>8. QED
    BY <1>3, <2>1, <2>3, <2>4, <2>5, <2>6, <2>7
<1>6. QED
  BY <1>1, <1>2, <1>4, <1>5, BucketsChange

\* The tip was mined on the whole serialized chain.
TipAbove == \A h \in 1..Height[lastWritten] : height2hash[h] \in Ancestry(lastWritten)

LEMMA TipIsAbove ==
  HeightsFollow /\ BufferInv /\ ChainInv /\ lastWritten \in Blocks => TipAbove
<1> SUFFICES ASSUME HeightsFollow, BufferInv, ChainInv, lastWritten \in Blocks
             PROVE  TipAbove
  OBVIOUS
<1>1. OnChain(lastWritten)
  BY BlocksAssumption DEF OnChain, ChainInv, SerializedChainIsWhole
<1>2. QED
  BY <1>1, ChainIsAncestry DEF TipAbove

\* What the serialized chain will be below, it is below already.
LEMMA BelowStaysBelow ==
  ASSUME PruneHeights = {}, ~ DiskCanFail, HeightsFollow,
         TreeInv, ServedStore, [ChainNext]_allVars, Running',
         NEW b \in Blocks, SerializedBelow(b)'
  PROVE  SerializedBelow(b)
<1>1. SUFFICES ASSUME tipOfSerializedChain # NoBlock
               PROVE  tipOfSerializedChain \in Ancestry(b)
  BY DEF SerializedBelow
<1>2. /\ tipOfSerializedChain = lastWritten /\ lastWritten \in Blocks
      /\ tipOfSerializedChain' = lastWritten' /\ lastWritten' \in Blocks
      /\ Height[lastWritten] <= Height[lastWritten']
      /\ height2hash'[Height[lastWritten]] = lastWritten
  BY <1>1, TipStays
<1>3. BufferInv' /\ ChainInv'
  BY StoreGoesOn
<1>4. /\ Height[lastWritten] \in Nat /\ Height[lastWritten] >= 1
      /\ Height[lastWritten'] \in Nat /\ lastWritten' # NoBlock
  BY <1>2, BlocksAssumption
<1>5. TipAbove'
  <2>1. (HeightsFollow /\ BufferInv /\ ChainInv /\ lastWritten \in Blocks)'
    BY <1>2, <1>3 DEF HeightsFollow
  <2>2. QED
    BY <2>1, TipIsAbove, PTL
<1>7. lastWritten \in Ancestry(lastWritten')
  BY <1>2, <1>4, <1>5 DEF TipAbove
<1>8. lastWritten' \in Ancestry(b)
  BY <1>2, <1>4 DEF SerializedBelow
<1>9. QED
  BY <1>2, <1>7, <1>8, AncestriesArePaths DEF AncestryPath

-----------------------------------------------------------------------------
(* The best block *)

LEMMA StillAnchored ==
  ASSUME NEW b, Anchored(b), Lineage(b) \subseteq Lineage(b)',
         \A c : Retrievable(c) => Retrievable(c)'
  PROVE  Anchored(b)'
BY DEF Anchored

\* The tree is left alone, and the rounds are.
LEMMA BestQuiet ==
  ASSUME PruneHeights = {}, ~ DiskCanFail, RivalsKeepTheirRank, HeightsFollow,
         TreeInv, ServedStore, BestInv, [ChainNext]_allVars, Running',
         UNCHANGED <<tree, heads, pending, poppedHeads, pc, serHeight,
                     longestHeadWithDB, currentHighestBlock>>
  PROVE  BestInv'
<1>1. Running
  BY StoreGoesOn
<1>2. \A b : Lineage(b)' = Lineage(b) /\ Children(b)' = Children(b)
  BY DEF Lineage, Children, tree
<1>3. \A b : Retrievable(b) => Retrievable(b)'
  BY AnswersStay
<1>4. \A b : Anchored(b) => Anchored(b)'
  BY <1>2, <1>3, StillAnchored
<1>5. BlockGraph' = BlockGraph
  BY DEF tree
<1>6. pc = "clean" => serHeight \in Nat /\ serHeight <= SerializedHeight'
  <2>1. CASE tipOfSerializedChain = NoBlock
    <3>1. BufferInv'
      BY StoreGoesOn
    <3>2. SerializedHeight' \in Nat
      BY <3>1, BlocksAssumption
      DEF SerializedHeight, BufferInv, TypeOK, MemoryTypeOK, BlockOrNil
    <3>3. QED
      BY <1>1, <2>1, <3>2 DEF BestInv, SerializedHeight
  <2>2. CASE tipOfSerializedChain # NoBlock
    <3>1. /\ tipOfSerializedChain = lastWritten /\ lastWritten \in Blocks
          /\ tipOfSerializedChain' = lastWritten' /\ lastWritten' \in Blocks
          /\ Height[lastWritten] <= Height[lastWritten']
      BY <2>2, TipStays
    <3>2. Height[lastWritten] \in Nat /\ Height[lastWritten'] \in Nat /\ lastWritten' # NoBlock
      BY <3>1, BlocksAssumption
    <3>3. SerializedHeight = Height[lastWritten] /\ SerializedHeight' = Height[lastWritten']
      BY <2>2, <3>1, <3>2 DEF SerializedHeight
    <3>4. QED
      BY <1>1, <3>2, <3>1, <3>3 DEF BestInv
  <2>3. QED
    BY <2>1, <2>2
<1>7. ASSUME LongestInv PROVE LongestInv'
  <2> DEFINE low == longestHeadWithDB.LowestBlock
             high == longestHeadWithDB.HighestBlock
  <2>1. /\ low' = low /\ high' = high /\ poppedHeads' = poppedHeads /\ pending' = pending
    OBVIOUS
  <2>2. /\ low \in Blocks /\ high \in BlockGraph' /\ Children(high)' = {}
        /\ \A b \in Lineage(high)' : Height[low] <= Height[b]
    BY <1>2, <1>5, <1>7 DEF LongestInv
  <2>3. \/ Anchored(high)'
        \/ \E b \in Lineage(high)' :
             /\ PreviousHash[b] \in poppedHeads'
             /\ \/ Height[low] <= Height[PreviousHash[b]]
                \/ PreviousHash[low] = PreviousHash[b]
        \/ \E h \in pending' : Retrievable(PreviousHash[h])' /\ BlockOrderingRule(low, h)
    BY <1>2, <1>3, <1>4, <1>7 DEF LongestInv
  <2> HIDE DEF low, high
  <2>4. QED
    BY <2>1, <2>2, <2>3 DEF LongestInv, low, high
<1>8. ASSUME BestHolds, currentHighestBlock \in BlockOrNil PROVE BestHolds'
  BY <1>4, <1>8, BelowStaysBelow DEF BestHolds, BlockOrNil
<1>9. QED
  BY <1>1, <1>6, <1>7, <1>8 DEF BestInv

LEMMA BestAfterInsert ==
  ASSUME RivalsKeepTheirRank, HeightsFollow,
         TreeInv, TreeInv', BestInv, Running, NEW b \in Relayed, InsertBlock(b),
         \A c : Retrievable(c) => Retrievable(c)', SerializedHeight \in Nat
  PROVE  BestInv'
<1>1. /\ pc = "idle" /\ pc' = "clean" /\ UNCHANGED vars
      /\ serHeight' = SerializedHeight /\ currentHighestBlock' = currentHighestBlock
      /\ BlockGraph \subseteq BlockGraph' /\ connected \subseteq connected'
  BY DEF InsertBlock
<1>2. SerializedHeight' = SerializedHeight
  BY <1>1 DEF SerializedHeight, vars, memory
<1>3. BestHolds /\ currentHighestBlock \in BlockOrNil
  BY <1>1 DEF BestInv
<1>4. ASSUME NEW b0, Anchored(b0) PROVE Anchored(b0)'
  <2>1. b0 \in BlockGraph
    BY <1>4 DEF Anchored, Lineage
  <2>2. Lineage(b0) \subseteq Lineage(b0)'
    BY <1>1, <2>1, LineagesWhenAdded
  <2>3. QED
    BY <1>4, <2>2, StillAnchored
<1>5. \A x : SerializedBelow(x)' => SerializedBelow(x)
  BY <1>1 DEF SerializedBelow, vars, memory
<1>6. BestHolds'
  BY <1>1, <1>3, <1>4, <1>5 DEF BestHolds
<1>7. QED
  BY <1>1, <1>2, <1>3, <1>6 DEF BestInv

LEMMA BestAfterClean ==
  ASSUME RivalsKeepTheirRank, HeightsFollow,
         TreeInv, TreeInv', BufferInv, ChainInv, proc = "up", BestInv, Running,
         NEW h \in Blocks, CleanHead(h),
         \A c : Retrievable(c) => Retrievable(c)'
  PROVE  BestInv'
<1>1. /\ pc = "clean" /\ pc' = "clean" /\ UNCHANGED vars /\ h \in heads
      /\ UNCHANGED <<serHeight, currentHighestBlock>>
  BY DEF CleanHead, TreeInv
<1>2. SerializedHeight' = SerializedHeight
  BY <1>1 DEF SerializedHeight, vars, memory
<1>3. /\ BestHolds /\ currentHighestBlock \in BlockOrNil
      /\ serHeight \in Nat /\ serHeight <= SerializedHeight
  BY <1>1 DEF BestInv
<1>4. ASSUME NEW best, Anchored(best), SerializedBelow(best)
      PROVE  Anchored(best)'
  <2>1. SerializedBelow(best)
    BY <1>4
  <2>2. Anchored(best)
    BY <1>4
  <2>3. best \in BlockGraph /\ best \in Blocks
    BY <2>2 DEF Anchored, Lineage, TreeInv
  <2>4. CASE BlockGraph \subseteq BlockGraph' /\ connected \subseteq connected'
    <3>1. Lineage(best) \subseteq Lineage(best)'
      BY <2>3, <2>4, LineagesWhenAdded
    <3>2. QED
      BY <2>2, <3>1, StillAnchored
  <2>5. CASE Height[h] < serHeight /\ PopHead(h)
    <3>1. Height[h] \in Nat /\ Height[h] >= 1
      BY BlocksAssumption
    <3>2. tipOfSerializedChain # NoBlock
      BY <1>3, <2>5, <3>1 DEF SerializedHeight
    <3>3. /\ tipOfSerializedChain = lastWritten /\ lastWritten \in Blocks
          /\ lastWritten \in Ancestry(best)
      BY <2>1, <3>2 DEF ChainInv, TipIsLastWritten, SerializedBelow,
         BufferInv, TypeOK, MemoryTypeOK, BlockOrNil
    <3>4. Height[lastWritten] \in Nat /\ Height[best] \in Nat /\ Height[h] < Height[lastWritten]
      BY <1>3, <2>3, <2>5, <3>1, <3>2, <3>3, BlocksAssumption DEF SerializedHeight
    <3>5. Height[lastWritten] <= Height[best]
      BY <2>3, <3>3, <3>4, AncestriesArePaths DEF AncestryPath
    <3>6. best # h
      BY <3>1, <3>4, <3>5
    <3>7. best \in BlockGraph' /\ Lineage(best)' = Lineage(best) \ {h}
      <4>1. best \in BlockGraph'
        BY <2>3, <2>5, <3>6 DEF PopHead
      <4>2. QED
        BY <1>1, <2>5, <4>1, LineagesWhenPopped
    <3>8. CASE h \in Lineage(best)
      <4>1. PICK e \in Lineage(best) : e \in connected /\ PreviousHash[e] = h
        BY <2>3, <3>6, <3>8, LineagesArePaths DEF IsPath
      <4>2. h \in Ancestry(best)
        BY <2>3, <3>8, LineageInAncestry
      <4>3. OnChain(h)
        BY <2>3, <3>1, <3>3, <3>4, <4>2, BelowTheTip
      <4>4. Stored(h)
        BY <3>1, <3>3, <3>4, <4>3, BlocksAssumption
        DEF OnChain, ChainInv, SerializedChainIsWhole
      <4>5. Retrievable(PreviousHash[e])'
        BY <4>1, <4>4 DEF Retrievable
      <4>6. e \in Lineage(best)'
        BY <1>1, <3>7, <4>1 DEF TreeInv
      <4>7. QED
        BY <1>1, <4>5, <4>6 DEF Anchored
    <3>9. CASE h \notin Lineage(best)
      <4>1. Lineage(best)' = Lineage(best)
        BY <3>7, <3>9
      <4>2. QED
        BY <2>2, <4>1, StillAnchored
    <3>10. QED
      BY <3>8, <3>9
  <2>6. QED
    BY <2>4, <2>5 DEF CleanHead, tree
<1>5. \A x : SerializedBelow(x)' => SerializedBelow(x)
  BY <1>1 DEF SerializedBelow, vars, memory
<1>6. BestHolds'
  BY <1>1, <1>3, <1>4, <1>5 DEF BestHolds
<1>7. QED
  BY <1>1, <1>2, <1>3, <1>6 DEF BestInv

\* A step of the rounds keeps what is known of the longest head.
LEMMA BestAfterVisit ==
  ASSUME HeightsFollow, RivalsKeepTheirRank,
         TreeInv, TreeInv', BestInv, Running, NEW h \in Blocks, VisitHead(h),
         \A c : Retrievable(c) <=> Retrievable(c)'
  PROVE  BestInv'
<1> DEFINE low == longestHeadWithDB.LowestBlock
           high == longestHeadWithDB.HighestBlock
<1>1. /\ pc = "visit" /\ pc' = "visit" /\ h \in pending /\ h \in heads /\ UNCHANGED vars
      /\ UNCHANGED <<currentHighestBlock, serHeight>>
      /\ h \in BlockGraph /\ h \notin connected
  BY DEF VisitHead, TreeInv
<1>2. PICK highest \in HighestAbove(h) :
        LET info == [LowestBlock |-> h, HighestBlock |-> highest,
                     HasDB |-> Retrievable(PreviousHash[h])]
            linked == info.HasDB \/ PreviousHash[h] \in poppedHeads
            marked == [info EXCEPT !.HasDB = linked]
        IN
        /\ \/ Mature(info) /\ PopHead(h) /\ poppedHeads' = poppedHeads \cup {h}
           \/ /\ ~ Mature(info) /\ pending' = pending \ {h}
              /\ UNCHANGED <<tree, heads, poppedHeads>>
        /\ longestHeadWithDB' = IF linked /\ Longer(info) THEN marked ELSE longestHeadWithDB
  BY DEF VisitHead
<1> DEFINE info == [LowestBlock |-> h, HighestBlock |-> highest,
                    HasDB |-> Retrievable(PreviousHash[h])]
           linked == Retrievable(PreviousHash[h]) \/ PreviousHash[h] \in poppedHeads
           replaced == linked /\ Longer(info)
           popped == PopHead(h) /\ poppedHeads' = poppedHeads \cup {h}
           kept == pending' = pending \ {h} /\ UNCHANGED <<tree, heads, poppedHeads>>
<1>3. /\ info.LowestBlock = h /\ info.HighestBlock = highest
      /\ info.HasDB = Retrievable(PreviousHash[h])
  OBVIOUS
<1>4. \/ Mature(info) /\ popped
      \/ kept
  BY <1>2
<1>5. /\ replaced => longestHeadWithDB'.LowestBlock = h /\ longestHeadWithDB'.HighestBlock = highest
      /\ ~ replaced => longestHeadWithDB' = longestHeadWithDB
  BY <1>2, <1>3
<1>6. Mature(info) => Retrievable(PreviousHash[h]) /\ Height[highest] - Height[h] > COINBASE_MATURITY
  BY <1>3 DEF Mature, Depth
<1>7. low = NoBlock \/ BlockOrderingRule(low, h) => Longer(info)
  BY <1>3 DEF Longer
<1> HIDE DEF info
<1>8. h \in Blocks /\ h # NoBlock /\ Height[h] \in Nat
  BY BlocksAssumption
<1>9. /\ highest \in BlockGraph /\ h \in Lineage(highest) /\ Children(highest) = {}
      /\ \A b \in Lineage(highest) : Height[h] <= Height[b]
  <2>1. highest \in BlockGraph /\ h \in Lineage(highest) /\ Children(highest) = {}
    BY HighestIsAnEnd
  <2>2. QED
    BY <1>1, <2>1, LineagesArePaths DEF IsPath
<1>10. ASSUME Mature(info)
       PROVE  \E e \in Lineage(highest) : e \in Children(h)
  <2>1. highest # h
    BY <1>6, <1>8, <1>10, ChainAssumption
  <2>2. \E e \in Lineage(highest) : e \in connected /\ PreviousHash[e] = h
    BY <1>9, <2>1, LineagesArePaths DEF IsPath
  <2>3. QED
    BY <2>2 DEF Children
<1>11. ASSUME popped, NEW b \in BlockGraph, b # h, Children(b) = {}
       PROVE  b \in BlockGraph' /\ Children(b)' = {} /\ Lineage(b)' = Lineage(b) \ {h}
  <2>1. b \in BlockGraph' /\ connected' \subseteq connected
    BY <1>11 DEF PopHead
  <2>2. Lineage(b)' = Lineage(b) \ {h}
    BY <1>1, <1>11, <2>1, LineagesWhenPopped
  <2>3. Children(b)' = {}
    BY <1>11, <2>1 DEF Children
  <2>4. QED
    BY <2>1, <2>2, <2>3
<1>12. ASSUME kept, NEW b
       PROVE  Children(b)' = Children(b) /\ Lineage(b)' = Lineage(b)
  BY <1>12 DEF Lineage, Children, tree
<1>13. ASSUME NEW lo \in Blocks, NEW hi \in BlockGraph, Children(hi) = {},
              \A b \in Lineage(hi) : Height[lo] <= Height[b],
              Mature(info), popped
       PROVE  /\ hi \in BlockGraph' /\ Children(hi)' = {} /\ hi # h
              /\ Lineage(hi)' = Lineage(hi) \ {h}
              /\ \A b \in Lineage(hi)' : Height[lo] <= Height[b]
              /\ h \in Lineage(hi) => \E b \in Lineage(hi)' :
                   PreviousHash[b] \in poppedHeads' /\ Height[lo] <= Height[PreviousHash[b]]
  <2>1. hi # h
    BY <1>10, <1>13
  <2>2. hi \in BlockGraph' /\ Children(hi)' = {} /\ Lineage(hi)' = Lineage(hi) \ {h}
    BY <1>11, <1>13, <2>1
  <2>3. ASSUME h \in Lineage(hi)
        PROVE  \E b \in Lineage(hi)' :
                 PreviousHash[b] \in poppedHeads' /\ Height[lo] <= Height[PreviousHash[b]]
    <3>1. PICK e \in Lineage(hi) : e \in connected /\ PreviousHash[e] = h
      BY <1>13, <2>1, <2>3, LineagesArePaths DEF IsPath
    <3>2. e \in Lineage(hi)' /\ PreviousHash[e] \in poppedHeads'
      BY <1>1, <1>13, <2>2, <3>1
    <3>3. Height[lo] <= Height[PreviousHash[e]]
      BY <1>13, <2>3, <3>1
    <3>4. QED
      BY <3>2, <3>3
  <2>4. QED
    BY <1>13, <2>1, <2>2, <2>3
<1>14. ASSUME replaced PROVE LongestInv'
  <2> DEFINE Hangs == \E b \in Lineage(highest)' :
                        /\ PreviousHash[b] \in poppedHeads'
                        /\ \/ Height[h] <= Height[PreviousHash[b]]
                           \/ PreviousHash[h] = PreviousHash[b]
  <2>1. SUFFICES /\ highest \in BlockGraph' /\ Children(highest)' = {}
                 /\ \A b \in Lineage(highest)' : Height[h] <= Height[b]
                 /\ Anchored(highest)' \/ Hangs
    <3>1. longestHeadWithDB'.LowestBlock = h /\ longestHeadWithDB'.HighestBlock = highest
      BY <1>5, <1>14
    <3>2. QED
      BY <1>8, <3>1 DEF LongestInv
  <2>2. CASE Mature(info) /\ popped
    BY <1>8, <1>9, <1>13, <2>2
  <2>3. CASE kept
    <3>1. /\ highest \in BlockGraph' /\ Children(highest)' = {}
          /\ Lineage(highest)' = Lineage(highest) /\ poppedHeads' = poppedHeads
      BY <1>9, <1>12, <2>3 DEF tree
    <3>2. CASE Retrievable(PreviousHash[h])
      <4>1. Anchored(highest)'
        BY <1>9, <3>1, <3>2 DEF Anchored
      <4>2. QED
        BY <1>9, <3>1, <4>1
    <3>3. CASE PreviousHash[h] \in poppedHeads
      <4>1. Hangs
        BY <1>9, <3>1, <3>3
      <4>2. QED
        BY <1>9, <3>1, <4>1
    <3>4. QED
      BY <1>14, <3>2, <3>3
  <2>4. QED
    BY <1>4, <2>2, <2>3
<1>15. ASSUME ~ replaced, LongestInv PROVE LongestInv'
  <2> DEFINE Hangs == \E b \in Lineage(high) :
                        /\ PreviousHash[b] \in poppedHeads
                        /\ \/ Height[low] <= Height[PreviousHash[b]]
                           \/ PreviousHash[low] = PreviousHash[b]
             HangsNow == \E b \in Lineage(high)' :
                        /\ PreviousHash[b] \in poppedHeads'
                        /\ \/ Height[low] <= Height[PreviousHash[b]]
                           \/ PreviousHash[low] = PreviousHash[b]
             Loses == \E g \in pending : Retrievable(PreviousHash[g]) /\ BlockOrderingRule(low, g)
             LosesNow == \E g \in pending' : Retrievable(PreviousHash[g])' /\ BlockOrderingRule(low, g)
  <2>1. /\ low \in Blocks /\ high \in BlockGraph /\ Children(high) = {}
        /\ \A b \in Lineage(high) : Height[low] <= Height[b]
        /\ Anchored(high) \/ Hangs \/ Loses
    BY <1>15 DEF LongestInv
  <2>2. PICK lo : lo = low
    OBVIOUS
  <2>3. PICK hi : hi = high
    OBVIOUS
  <2>4. longestHeadWithDB'.LowestBlock = lo /\ longestHeadWithDB'.HighestBlock = hi
    BY <1>5, <1>15, <2>2, <2>3
  <2>5. ASSUME Loses PROVE LosesNow
    <3>1. PICK g \in pending : Retrievable(PreviousHash[g]) /\ BlockOrderingRule(low, g)
      BY <2>5
    <3>2. g # h
      BY <1>7, <1>15, <3>1
    <3>3. g \in pending'
      BY <1>4, <3>1, <3>2 DEF PopHead
    <3>4. QED
      BY <3>1, <3>3
  <2> DEFINE Places == /\ hi \in BlockGraph' /\ Children(hi)' = {}
                       /\ \A b \in Lineage(hi)' : Height[lo] <= Height[b]
             HangsHere == \E b \in Lineage(hi)' :
                            /\ PreviousHash[b] \in poppedHeads'
                            /\ \/ Height[lo] <= Height[PreviousHash[b]]
                               \/ PreviousHash[lo] = PreviousHash[b]
             LosesHere == \E g \in pending' :
                            Retrievable(PreviousHash[g])' /\ BlockOrderingRule(lo, g)
  <2>6. Loses => LosesHere
    BY <2>2, <2>5
  <2>7. CASE Mature(info) /\ popped
    <3>1. /\ Places /\ Lineage(hi)' = Lineage(hi) \ {h}
          /\ h \in Lineage(hi) => HangsHere
      BY <1>13, <2>1, <2>2, <2>3, <2>7
    <3>2. ASSUME h \notin Lineage(hi), Anchored(hi) PROVE Anchored(hi)'
      BY <3>1, <3>2, StillAnchored
    <3>3. ASSUME h \notin Lineage(hi), Hangs PROVE HangsHere
      BY <2>2, <2>3, <2>7, <3>1, <3>3
    <3>4. Places /\ (Anchored(hi)' \/ HangsHere \/ LosesHere)
      BY <2>1, <2>3, <2>6, <3>1, <3>2, <3>3
    <3>5. QED
      BY <2>1, <2>2, <2>4, <3>4 DEF LongestInv
  <2>8. CASE kept
    <3>1. /\ Lineage(hi)' = Lineage(hi) /\ Children(hi)' = Children(hi)
          /\ BlockGraph' = BlockGraph /\ poppedHeads' = poppedHeads
      BY <1>12, <2>8 DEF tree
    <3>2. Anchored(hi) => Anchored(hi)'
      BY <3>1, StillAnchored
    <3>3. Places /\ (Anchored(hi)' \/ HangsHere \/ LosesHere)
      BY <2>1, <2>2, <2>3, <2>6, <3>1, <3>2
    <3>4. QED
      BY <2>1, <2>2, <2>4, <3>3 DEF LongestInv
  <2>9. QED
    BY <1>4, <2>7, <2>8
<1>16. /\ currentHighestBlock \in BlockOrNil
       /\ poppedHeads # {} => low # NoBlock
       /\ \A p \in poppedHeads : \E c \in heads \cup poppedHeads : PreviousHash[c] = p
       /\ low # NoBlock => LongestInv
       /\ low = NoBlock => BestHolds
  BY <1>1 DEF BestInv
<1>17. poppedHeads' # {} => longestHeadWithDB'.LowestBlock # NoBlock
  BY <1>4, <1>5, <1>6, <1>7, <1>8, <1>16
<1>18. \A p \in poppedHeads' : \E c \in heads' \cup poppedHeads' : PreviousHash[c] = p
  <2>1. CASE Mature(info) /\ popped
    <3>1. heads' = (heads \ {h}) \cup Children(h) /\ poppedHeads' = poppedHeads \cup {h}
      BY <2>1 DEF PopHead
    <3>2. \E c \in heads' : PreviousHash[c] = h
      BY <1>10, <2>1, <3>1 DEF Children
    <3>3. heads \cup poppedHeads \subseteq heads' \cup poppedHeads'
      BY <3>1
    <3>4. QED
      BY <1>16, <3>1, <3>2, <3>3
  <2>2. CASE kept
    BY <1>16, <2>2
  <2>3. QED
    BY <1>4, <2>1, <2>2
<1>19. ASSUME longestHeadWithDB'.LowestBlock = NoBlock PROVE BestHolds'
  <2>1. ~ linked /\ low = NoBlock
    BY <1>5, <1>7, <1>8, <1>19
  <2>2. kept
    BY <1>4, <1>6, <2>1
  <2>3. \A b : Anchored(b) => Anchored(b)'
    <3>1. \A b : Lineage(b)' = Lineage(b)
      BY <1>12, <2>2
    <3>2. QED
      BY <3>1, StillAnchored
  <2>4. \A b : SerializedBelow(b)' => SerializedBelow(b)
    BY <1>1 DEF SerializedBelow, vars, memory
  <2>5. QED
    BY <1>1, <1>16, <2>1, <2>3, <2>4 DEF BestHolds
<1>20. longestHeadWithDB'.LowestBlock # NoBlock => LongestInv'
  BY <1>5, <1>14, <1>15, <1>16
<1>21. QED
  BY <1>1, <1>16, <1>17, <1>18, <1>19, <1>20 DEF BestInv

\* Of the heads popped in a round one is stored, and what hung on another is behind a
\* child of that one.
LEMMA BestAfterRound ==
  ASSUME HeightsFollow, RivalsKeepTheirRank,
         TreeInv, BestInv, Running, FinishRound,
         \A c : Retrievable(c) => Retrievable(c)', \A c : Retrievable(c) => c \in Blocks
  PROVE  BestInv'
<1> DEFINE low == longestHeadWithDB.LowestBlock
           high == longestHeadWithDB.HighestBlock
<1>1. /\ pc = "visit" /\ pending = {} /\ pc' = AfterRound /\ pending' = heads
      /\ poppedHeads' = {} /\ UNCHANGED <<tree, heads, serHeight, longestHeadWithDB>>
      /\ currentHighestBlock' = IF low = NoBlock THEN currentHighestBlock ELSE high
  BY DEF FinishRound
<1>2. /\ currentHighestBlock \in BlockOrNil
      /\ poppedHeads # {} => low # NoBlock
      /\ \A p \in poppedHeads : \E c \in heads \cup poppedHeads : PreviousHash[c] = p
      /\ low # NoBlock => LongestInv
      /\ low = NoBlock => BestHolds
  BY <1>1 DEF BestInv
<1>3. \A b : Lineage(b)' = Lineage(b) /\ Children(b)' = Children(b)
  BY <1>1 DEF Lineage, Children, tree
<1>4. \A b : Anchored(b) => Anchored(b)'
  BY <1>3, StillAnchored
<1>5. BlockGraph' = BlockGraph /\ BlockGraph \subseteq Blocks
  BY <1>1 DEF tree, TreeInv
<1>6. low # NoBlock =>
        /\ low \in Blocks /\ high \in BlockGraph /\ Children(high) = {}
        /\ \A b \in Lineage(high) : Height[low] <= Height[b]
        /\ \/ Anchored(high)
           \/ \E b \in Lineage(high) :
                /\ PreviousHash[b] \in poppedHeads
                /\ \/ Height[low] <= Height[PreviousHash[b]]
                   \/ PreviousHash[low] = PreviousHash[b]
  BY <1>1, <1>2 DEF LongestInv
<1>7. currentHighestBlock' \in BlockOrNil
  BY <1>1, <1>2, <1>5, <1>6 DEF BlockOrNil
<1>8. CASE poppedHeads = {}
  <2>1. BestPopped = {} /\ pc' = "idle"
    BY <1>1, <1>8 DEF BestPopped, AfterRound
  <2>2. UNCHANGED vars
    BY <2>1 DEF FinishRound
  <2>3. BestHolds'
    <3>1. CASE low = NoBlock
      <4>1. \A b : SerializedBelow(b)' => SerializedBelow(b)
        BY <2>2 DEF SerializedBelow, vars, memory
      <4>2. QED
        BY <1>1, <1>2, <1>4, <3>1, <4>1 DEF BestHolds
    <3>2. CASE low # NoBlock
      <4>1. currentHighestBlock' = high /\ Anchored(high)
        BY <1>1, <1>6, <1>8, <3>2
      <4>2. QED
        BY <1>4, <4>1 DEF BestHolds
    <3>3. QED
      BY <3>1, <3>2
  <2>4. QED
    BY <1>7, <2>1, <2>3 DEF BestInv
<1>9. CASE poppedHeads # {}
  <2>1. pc' = "visit" /\ low # NoBlock
    BY <1>1, <1>2, <1>9 DEF AfterRound
  <2>2. PICK best \in BestPopped : Retrievable(best)'
    <3>1. CASE BestPopped \cap incomingBlocks # {}
      BY <3>1 DEF Retrievable
    <3>2. CASE \E best \in BestPopped : AddBlock(best)
      BY <3>2 DEF AddBlock, addBlockUnsafe, Retrievable
    <3>3. QED
      BY <1>9, <3>1, <3>2 DEF FinishRound
  <2>3. /\ best \in poppedHeads /\ best \in Blocks
        /\ \A p \in poppedHeads : ~ BlockOrderingRule(best, p)
        /\ poppedHeads \subseteq Blocks /\ heads \subseteq Blocks
    BY DEF BestPopped, TreeInv
  <2>4. PICK above \in heads \cup poppedHeads : PreviousHash[above] = best
    BY <1>2, <2>3
  <2>5. /\ above \in Blocks /\ Height[above] \in Nat /\ Height[best] \in Nat
        /\ Height[above] = Height[best] + 1
    BY <2>3, <2>4, HeightAboveParent
  <2>6. above \in pending'
    BY <1>1, <2>3, <2>4, <2>5 DEF BlockOrderingRule
  <2>7. ASSUME NEW lo \in Blocks, NEW b, PreviousHash[b] \in poppedHeads,
               PreviousHash[b] # best,
               \/ Height[lo] <= Height[PreviousHash[b]]
               \/ PreviousHash[lo] = PreviousHash[b]
        PROVE  BlockOrderingRule(lo, above)
    <3> DEFINE p == PreviousHash[b]
    <3>1. p \in Blocks /\ Height[p] \in Nat /\ Height[lo] \in Nat /\ p \in poppedHeads /\ p # best
      BY <2>3, <2>7, BlocksAssumption
    <3> HIDE DEF p
    <3>2. ~ BlockOrderingRule(best, p) /\ Height[p] <= Height[best]
      BY <2>3, <2>5, <3>1 DEF BlockOrderingRule
    <3>3. CASE Height[lo] <= Height[p]
      BY <2>5, <3>1, <3>2, <3>3 DEF BlockOrderingRule
    <3>4. CASE PreviousHash[lo] = p
      <4>1. Height[lo] = Height[p] + 1
        BY <3>1, <3>4, HeightAboveParent
      <4>2. CASE Height[lo] < Height[above]
        BY <4>2 DEF BlockOrderingRule
      <4>3. CASE Height[lo] = Height[above]
        BY <2>3, <2>4, <2>5, <2>7, <3>1, <3>2, <3>4, <4>3 DEF RivalsKeepTheirRank
      <4>4. QED
        BY <2>5, <3>1, <3>2, <4>1, <4>2, <4>3
    <3>5. QED
      BY <2>7, <3>3, <3>4 DEF p
  <2>8. /\ low' = low /\ high' = high
    BY <1>1
  <2>9. PICK lo, hi : lo = low /\ hi = high
    OBVIOUS
  <2>10. longestHeadWithDB'.LowestBlock = lo /\ longestHeadWithDB'.HighestBlock = hi
    BY <2>8, <2>9
  <2>11. /\ lo \in Blocks /\ hi \in BlockGraph' /\ Children(hi)' = {}
         /\ \A b \in Lineage(hi)' : Height[lo] <= Height[b]
    BY <1>3, <1>5, <1>6, <2>1, <2>9
  <2>12. \/ Anchored(hi)'
         \/ \E h \in pending' : Retrievable(PreviousHash[h])' /\ BlockOrderingRule(lo, h)
    <3>1. CASE Anchored(hi)
      BY <1>4, <3>1
    <3>2. ASSUME NEW b \in Lineage(hi), PreviousHash[b] \in poppedHeads,
                 \/ Height[lo] <= Height[PreviousHash[b]]
                 \/ PreviousHash[lo] = PreviousHash[b]
          PROVE  \/ Anchored(hi)'
                 \/ \E h \in pending' : Retrievable(PreviousHash[h])' /\ BlockOrderingRule(lo, h)
      <4>1. CASE PreviousHash[b] = best
        <5>1. Anchored(hi)'
          BY <1>3, <2>2, <3>2, <4>1 DEF Anchored
        <5>2. QED
          BY <5>1
      <4>2. CASE PreviousHash[b] # best
        <5>1. BlockOrderingRule(lo, above)
          BY <2>7, <2>11, <3>2, <4>2
        <5>2. Retrievable(PreviousHash[above])'
          BY <2>2, <2>4
        <5>3. QED
          BY <2>6, <5>1, <5>2
      <4>3. QED
        BY <4>1, <4>2
    <3>3. QED
      BY <1>6, <2>1, <2>9, <3>1, <3>2
  <2>13. LongestInv'
    BY <2>10, <2>11, <2>12 DEF LongestInv
  <2>14. QED
    BY <1>1, <1>7, <2>1, <2>13 DEF BestInv
<1>10. QED
  BY <1>8, <1>9

LEMMA BestInvInit == ChainInit => BestInv
BY DEF ChainInit, BestInv, BestHolds, BlockOrNil

LEMMA BestInvStep ==
  ASSUME PruneHeights = {}, ~ DiskCanFail,
         TreeInv, ServedStore, BestInv, [ChainNext]_allVars
  PROVE  BestInv'
<1> SUFFICES ASSUME RivalsKeepTheirRank, HeightsFollow, Running' PROVE BestInv'
  BY DEF BestInv, RivalsKeepTheirRank, HeightsFollow
<1>1. /\ proc = "up" /\ Running /\ BufferInv /\ ChainInv
  BY StoreGoesOn
<1>2. TreeInv'
  BY TreeInvStep
<1>3. \A b : Retrievable(b) => Retrievable(b)'
  BY AnswersStay
<1>4. \A b : Retrievable(b) => b \in Blocks
  BY <1>1, OnlyBlocksAreFound
<1>5. SerializedHeight \in Nat
  BY <1>1, BlocksAssumption DEF SerializedHeight, BufferInv, TypeOK, MemoryTypeOK, BlockOrNil
<1>6. CASE UNCHANGED <<tree, heads, pending, poppedHeads, pc, serHeight,
                       longestHeadWithDB, currentHighestBlock>>
  BY <1>6, BestQuiet
<1>7. ASSUME NEW b \in Relayed, InsertBlock(b) PROVE BestInv'
  BY <1>1, <1>2, <1>3, <1>5, <1>7, BestAfterInsert
<1>8. ASSUME NEW h \in Blocks, CleanHead(h) PROVE BestInv'
  BY <1>1, <1>2, <1>3, <1>8, BestAfterClean
<1>9. ASSUME StartRounds PROVE BestInv'
  <2>1. /\ pc = "clean" /\ pc' = "visit" /\ poppedHeads' = {} /\ longestHeadWithDB' = NoHead
        /\ UNCHANGED <<vars, tree, currentHighestBlock>>
    BY <1>9 DEF StartRounds
  <2>2. NoHead.LowestBlock = NoBlock
    BY DEF NoHead
  <2>3. \A b : Anchored(b) => Anchored(b)'
    <3>1. \A b : Lineage(b)' = Lineage(b)
      BY <2>1 DEF Lineage, tree
    <3>2. QED
      BY <1>3, <3>1, StillAnchored
  <2>4. \A b : SerializedBelow(b)' => SerializedBelow(b)
    BY <2>1 DEF SerializedBelow, vars, memory
  <2>5. BestHolds /\ currentHighestBlock \in BlockOrNil
    BY <1>1, <2>1 DEF BestInv
  <2>6. BestHolds'
    BY <2>1, <2>3, <2>4, <2>5 DEF BestHolds
  <2>7. QED
    BY <2>1, <2>2, <2>5, <2>6 DEF BestInv
<1>10. ASSUME NEW h \in Blocks, VisitHead(h) PROVE BestInv'
  <2>1. \A b : Retrievable(b) <=> Retrievable(b)'
    BY <1>10 DEF VisitHead, Retrievable, Stored, vars, memory, disk, chunkBuckets
  <2>2. QED
    BY <1>1, <1>2, <1>10, <2>1, BestAfterVisit
<1>11. CASE FinishRound
  BY <1>1, <1>3, <1>4, <1>11, BestAfterRound
<1>12. CASE AddBlockPanics
  BY <1>12 DEF AddBlockPanics, Die, Running
<1>13. CASE \/ \E b \in IbdBlocks : IbdData(b)
            \/ SetFollowingChain \/ UnSetInitialBlockDownload \/ TakeHeadsToCheck
            \/ Ingestion \/ UNCHANGED allVars
  BY <1>6, <1>13
  DEF IbdData, SetFollowingChain, UnSetInitialBlockDownload, TakeHeadsToCheck, Ingestion,
      allVars, chainVars, locals
<1>14. QED
  BY <1>7, <1>8, <1>9, <1>10, <1>11, <1>12, <1>13 DEF ChainNext, AddBlockContinues

LEMMA BestInvariant ==
  ASSUME PruneHeights = {}, ~ DiskCanFail
  PROVE  ChainSpec => [](TreeInv /\ ServedStore /\ BestInv)
<1>1. ChainInit => TreeInv /\ ServedStore /\ BestInv
  BY TreeInvInit, ServedStoreInit, BestInvInit
<1>2. TreeInv /\ ServedStore /\ BestInv /\ [ChainNext]_allVars
        => (TreeInv /\ ServedStore /\ BestInv)'
  BY TreeInvStep, ServedStoreStep, BestInvStep
<1>3. QED
  BY <1>1, <1>2, PTL DEF ChainSpec

\* In whatever order blocks come, heads are visited and rivals popped, the best block
\* between calls has a branch that leads back to the store, if the serialized chain has
\* not left it behind (AddBlock): for all trees in which every block is one higher than
\* its parent.
THEOREM BestAnchored ==
  ASSUME PruneHeights = {}, ~ DiskCanFail, HeightsFollow
  PROVE  ChainSpec => []BestIsAnchored
<1>1. BestInv => BestIsAnchored
  BY DEF BestInv, BestHolds, BestIsAnchored
<1>2. QED
  BY <1>1, BestInvariant, PTL

-----------------------------------------------------------------------------
(* Answers to queries by height *)

LEMMA AnswersInvInit == ChainInit => AnswersInv
<1> SUFFICES ASSUME ChainInit PROVE AnswersInv
  OBVIOUS
<1>1. CASE FreshStore
  <2> DEFINE one == [h \in {1} |-> Genesis]
  <2>1. Heights({Genesis}) = {1} /\ Height[Genesis] = 1
    BY BlocksAssumption DEF Heights
  <2>2. DOMAIN one = {1} /\ one[1] = Genesis
    OBVIOUS
  <2>3. incomingBlocks = {Genesis} /\ incomingBlocksByHeight = one /\ hash2chunk = <<>>
    BY <1>1 DEF FreshStore
  <2>4. \A b \in Blocks : ~ Stored(b)
    BY <2>3 DEF Stored
  <2> HIDE DEF one
  <2>5. QED
    BY <2>1, <2>2, <2>3, <2>4 DEF AnswersInv
<1>2. ASSUME NEW c \in FirstChunks, StoreWithChunk(c) PROVE AnswersInv
  <2> DEFINE n == AncientChunkSize
  <2>1. /\ n \in Nat /\ n >= 1 /\ c \in ChunkShape /\ c[1] = Genesis
        /\ \A i \in 1..(n - 1) : OrderedBlockPairIsValid(c[i], c[i + 1])
    BY ChainAssumption, SizesAssumption DEF ChunkShape
  <2>2. \A i \in 1..n : Height[c[i]] = i
    BY <2>1, LinkedHeights, BlocksAssumption
  <2>3. lastWritten = c[n] /\ c[n] \in Blocks /\ lastWritten # NoBlock /\ Height[lastWritten] = n
    BY <1>2, <2>1, <2>2, BlocksAssumption DEF StoreWithChunk, ChunkShape
  <2>4. ASSUME NEW b \in Blocks, Stored(b) PROVE Height[b] <= n
    <3>1. b \in Range(c)
      BY <1>2, <2>4 DEF StoreWithChunk, Stored
    <3>2. PICK i \in 1..n : b = c[i]
      BY <2>1, <3>1 DEF Range, ChunkShape
    <3>3. QED
      BY <2>1, <2>2, <3>2
  <2>5. Heights(incomingBlocks) = {} /\ DOMAIN incomingBlocksByHeight = {}
    BY <1>2 DEF StoreWithChunk, Heights
  <2>6. QED
    BY <2>3, <2>4, <2>5 DEF AnswersInv
<1>3. QED
  BY <1>1, <1>2 DEF ChainInit

\* What may happen to the store while the tree is served.
LEMMA StoreMoves ==
  ASSUME TreeInv, [ChainNext]_allVars, Running'
  PROVE  \/ UNCHANGED vars
         \/ \E b \in Blocks : AddBlock(b)
         \/ Run
<1>1. CASE FinishRound
  <2>1. \A best \in BestPopped : best \in Blocks
    BY DEF TreeInv, BestPopped
  <2>2. QED
    BY <1>1, <2>1 DEF FinishRound
<1>2. CASE AddBlockPanics
  BY <1>2 DEF AddBlockPanics, Die, Running
<1>3. CASE \E b \in IbdBlocks : IbdData(b)
  BY <1>3, ChainAssumption DEF IbdData
<1>4. CASE Ingestion
  BY <1>4 DEF Ingestion
<1>5. QED
  BY <1>1, <1>2, <1>3, <1>4
  DEF ChainNext, AddBlockContinues, InsertBlock, CleanHead, StartRounds, VisitHead,
      SetFollowingChain, UnSetInitialBlockDownload, TakeHeadsToCheck, allVars

LEMMA AnswersInvStep ==
  ASSUME PruneHeights = {}, ~ DiskCanFail,
         TreeInv, ServedStore, AnswersInv, [ChainNext]_allVars
  PROVE  AnswersInv'
<1> SUFFICES ASSUME Running' PROVE AnswersInv'
  BY DEF AnswersInv
<1>1. /\ proc = "up" /\ Running /\ proc' = "up"
      /\ BufferInv /\ ChainInv /\ LogInv /\ FilesInv
  BY StoreGoesOn
<1>2. /\ DOMAIN incomingBlocksByHeight = Heights(incomingBlocks)
      /\ \A h \in DOMAIN incomingBlocksByHeight :
           /\ incomingBlocksByHeight[h] \in incomingBlocks
           /\ Height[incomingBlocksByHeight[h]] = h
      /\ \A b \in Blocks :
           Stored(b) => lastWritten # NoBlock /\ Height[b] <= Height[lastWritten]
  BY <1>1 DEF AnswersInv
<1>3. CASE UNCHANGED vars
  BY <1>2, <1>3 DEF AnswersInv, Heights, Stored, vars, memory, indexes, disk, chunkBuckets
<1>4. ASSUME NEW b \in Blocks, AddBlock(b) PROVE AnswersInv'
  <2> DEFINE one == [h \in {Height[b]} |-> b]
  <2>1. /\ incomingBlocks' = incomingBlocks \cup {b}
        /\ incomingBlocksByHeight' = Put(incomingBlocksByHeight, one)
        /\ UNCHANGED disk
    BY <1>4 DEF AddBlock, addBlockUnsafe
  <2>2. DOMAIN one = {Height[b]} /\ one[Height[b]] = b
    OBVIOUS
  <2> HIDE DEF one
  <2>3. DOMAIN incomingBlocksByHeight' = DOMAIN incomingBlocksByHeight \cup {Height[b]}
    BY <2>1, <2>2 DEF Put
  <2>4. Heights(incomingBlocks') = Heights(incomingBlocks) \cup {Height[b]}
    BY <2>1 DEF Heights
  <2>5. \A h \in DOMAIN incomingBlocksByHeight' :
          incomingBlocksByHeight'[h] = IF h = Height[b] THEN b ELSE incomingBlocksByHeight[h]
    BY <2>1, <2>2 DEF Put
  <2>6. \A h \in DOMAIN incomingBlocksByHeight' :
          /\ incomingBlocksByHeight'[h] \in incomingBlocks'
          /\ Height[incomingBlocksByHeight'[h]] = h
    BY <1>2, <2>1, <2>3, <2>5
  <2>7. \A x \in Blocks : Stored(x)' => lastWritten' # NoBlock /\ Height[x] <= Height[lastWritten']
    BY <1>2, <2>1 DEF Stored, disk, chunkBuckets
  <2>8. DOMAIN incomingBlocksByHeight' = Heights(incomingBlocks')
    BY <1>2, <2>3, <2>4
  <2>9. QED
    BY <2>6, <2>7, <2>8 DEF AnswersInv, Heights
<1>5. CASE Run
  <2> DEFINE byHeight == Drop(incomingBlocksByHeight, Heights(incomingBlocks))
  <2>1. runSerialization /\ toSerialize = {}
    BY <1>1, <1>5 DEF Run, SerializationIsFatal, Die, BufferInv, NothingLeftInBuffer
  <2>2. incomingBlocks \cup toSerialize = incomingBlocks
    BY <2>1
  <2>3. DOMAIN byHeight = {}
    BY <1>2 DEF Drop, Restrict
  <2>4. CASE incomingBlocks' = {} /\ incomingBlocksByHeight' = byHeight /\ UNCHANGED chunkBuckets
    <3>1. Heights(incomingBlocks') = {}
      BY <2>4 DEF Heights
    <3>2. QED
      BY <1>2, <2>3, <2>4, <3>1 DEF AnswersInv, Heights, Stored, chunkBuckets
  <2>5. ASSUME NEW c \in Chunks(incomingBlocks), ChunkIsValid(c), serializeBlocks(c),
               tipOfSerializedChain' = c[AncientChunkSize],
               incomingBlocks' = incomingBlocks \ Range(c), toSerialize' = {},
               NEW f \in HeightIndexes(incomingBlocks \ Range(c), BlockOrderingRule),
               incomingBlocksByHeight' = Put(byHeight, f)
        PROVE  AnswersInv'
    <3> DEFINE n == AncientChunkSize
               rest == incomingBlocks \ Range(c)
    <3>1. /\ DOMAIN f = Heights(rest)
          /\ \A h \in Heights(rest) : f[h] \in rest /\ Height[f[h]] = h
      BY <2>5 DEF HeightIndexes
    <3> HIDE DEF byHeight
    <3>2. /\ DOMAIN incomingBlocksByHeight' = Heights(rest)
          /\ \A h \in Heights(rest) : incomingBlocksByHeight'[h] = f[h]
      BY <2>3, <2>5, <3>1 DEF Put
    <3>3. ChunkLeaves(c)
      BY <2>5 DEF ChunkLeaves
    <3>4. /\ n \in Nat /\ n >= 1 /\ LogHeight \in Nat /\ c \in ChunkShape
          /\ \A i \in 1..n : Height[c[i]] = LogHeight + i /\ c[i] \in Blocks
      BY <1>1, <2>5, <3>3, ChunkOnTop, LogType, SizesAssumption
    <3>5. lastWritten' = c[n]
      BY <2>5, <3>4, ChunkWritten
    <3>6. lastWritten' # NoBlock /\ Height[lastWritten'] = LogHeight + n
      BY <3>4, <3>5, BlocksAssumption
    <3>7. ASSUME NEW b \in Blocks, Stored(b)' PROVE Height[b] <= LogHeight + n
      <4>1. CASE Stored(b)
        BY <1>2, <3>4, <4>1, BlocksAssumption DEF LogHeight
      <4>2. CASE b \in Range(c)
        BY <3>4, <4>2 DEF Range, ChunkShape
      <4>3. QED
        BY <2>5, <3>4, <3>7, <4>1, <4>2, OnlyTheChunkIsStored
    <3>8. DOMAIN incomingBlocksByHeight' = Heights(incomingBlocks')
      BY <2>5, <3>2
    <3>9. \A h \in DOMAIN incomingBlocksByHeight' :
            /\ incomingBlocksByHeight'[h] \in incomingBlocks'
            /\ Height[incomingBlocksByHeight'[h]] = h
      BY <2>5, <3>1, <3>2
    <3>10. QED
      BY <3>6, <3>7, <3>8, <3>9 DEF AnswersInv, Heights
  <2>6. QED
    BY <2>1, <2>2, <2>4, <2>5 DEF runSerialization
<1>6. QED
  BY <1>3, <1>4, <1>5, StoreMoves

\* What the store holds it finds at its height, if it holds one block a height.
LEMMA StoredAnswers ==
  ASSUME BufferInv, ChainInv, AnswersInv, Running, StoreIsAChain, NEW s \in InStore
  PROVE  StoredAtHeight(Height[s]) = s
<1> DEFINE h == Height[s]
<1>1. /\ s \in Blocks /\ Retrievable(s) /\ h \in Nat /\ h >= 1
      /\ \A x \in Blocks : Retrievable(x) /\ Height[x] = h => x = s
  BY BlocksAssumption DEF InStore, StoreIsAChain
<1>2. CASE h \in DOMAIN incomingBlocksByHeight
  <2> DEFINE x == incomingBlocksByHeight[h]
  <2>1. x \in incomingBlocks /\ Height[x] = h
    BY <1>2 DEF AnswersInv
  <2>2. x \in Blocks /\ Retrievable(x)
    BY <2>1 DEF Retrievable, BufferInv, TypeOK, MemoryTypeOK
  <2>3. x = s
    BY <1>1, <2>1, <2>2
  <2>4. QED
    BY <1>2, <2>3 DEF StoredAtHeight
<1>3. CASE h \notin DOMAIN incomingBlocksByHeight
  <2> DEFINE x == height2hash[h]
             top == Height[lastWritten]
  <2>1. s \notin incomingBlocks
    BY <1>3 DEF AnswersInv, Heights
  <2>2. Stored(s)
    BY <1>1, <2>1 DEF Retrievable, BufferInv, NothingLeftInBuffer
  <2>3. lastWritten # NoBlock /\ h <= top
    BY <1>1, <2>2 DEF AnswersInv
  <2>4. lastWritten \in Blocks
    BY <2>3 DEF BufferInv, TypeOK, ChunkBucketsTypeOK, BlockOrNil
  <2>5. top \in Nat
    BY <2>4, BlocksAssumption
  <2>6. h \in 1..top
    BY <1>1, <2>3, <2>5
  <2>7. h \in DOMAIN height2hash /\ Height[x] = h /\ Stored(x)
    BY <2>3, <2>6 DEF ChainInv, SerializedChainIsWhole
  <2>8. x \in Blocks /\ Retrievable(x)
    BY <2>7, OnlyBlocksAreFound DEF Retrievable
  <2>9. x = s
    BY <1>1, <2>7, <2>8
  <2>10. QED
    BY <1>3, <2>7, <2>9 DEF StoredAtHeight, BlockAt
<1>4. QED
  BY <1>2, <1>3

LEMMA GenesisIsStored ==
  ASSUME BufferInv, ChainInv, proc = "up"
  PROVE  Genesis \in InStore
<1>1. CASE tipOfSerializedChain = NoBlock
  BY <1>1, BlocksAssumption DEF ChainInv, InStore, Retrievable
<1>2. CASE tipOfSerializedChain # NoBlock
  <2>1. lastWritten # NoBlock
    BY <1>2 DEF ChainInv, TipIsLastWritten
  <2>2. lastWritten \in Blocks
    BY <2>1 DEF BufferInv, TypeOK, ChunkBucketsTypeOK, BlockOrNil
  <2>3. 1 \in 1..Height[lastWritten]
    BY <2>2, BlocksAssumption
  <2>4. height2hash[1] = Genesis /\ Stored(height2hash[1])
    BY <2>1, <2>3 DEF ChainInv, SerializedChainIsWhole
  <2>5. QED
    BY <2>4, BlocksAssumption DEF InStore, Retrievable
<1>3. QED
  BY <1>1, <1>2

\* Below a block of the store every height has one.
StoreGoesDown == \A s \in InStore : \A k \in 1..Height[s] : \E t \in InStore : Height[t] = k

LEMMA StoreDown ==
  ASSUME HeightsFollow, StoreIsAChain
  PROVE  StoreGoesDown
<1> DEFINE T == {b \in Blocks : b \in InStore =>
                   \A k \in 1..Height[b] : \E t \in InStore : Height[t] = k}
<1>1. ASSUME NEW b \in Blocks, PreviousHash[b] \in Blocks => PreviousHash[b] \in T
      PROVE  b \in T
  <2> SUFFICES ASSUME b \in InStore, NEW k \in 1..Height[b]
               PROVE  \E t \in InStore : Height[t] = k
    OBVIOUS
  <2>1. Height[b] \in Nat
    BY BlocksAssumption
  <2>2. CASE k = Height[b]
    BY <2>2
  <2>3. CASE k # Height[b]
    <3>1. Height[b] > 1
      BY <2>1, <2>3
    <3>2. PreviousHash[b] \in InStore /\ PreviousHash[b] \in Blocks
      BY <3>1 DEF StoreIsAChain, InStore
    <3>3. Height[PreviousHash[b]] \in Nat /\ Height[b] = Height[PreviousHash[b]] + 1
      BY <3>2, HeightAboveParent
    <3>4. k \in 1..Height[PreviousHash[b]]
      BY <2>1, <2>3, <3>3
    <3>5. QED
      BY <1>1, <3>2, <3>4
  <2>4. QED
    BY <2>2, <2>3
<1>2. Blocks \subseteq T
  <2> HIDE DEF T
  <2>1. QED
    BY <1>1, BlocksInduction
<1>3. QED
  BY <1>2 DEF StoreGoesDown, InStore

\* A branch that leads back to the store hangs on it with its root, or its root is the
\* genesis block.
Hangs(r) == r \notin connected /\ (PreviousHash[r] \in InStore \/ r = Genesis)

LEMMA RootHangs ==
  ASSUME TreeInv, HeightsFollow, BufferInv, StoreIsAChain, Genesis \in InStore,
         NEW b \in BlockGraph, Anchored(b)
  PROVE  \E r \in Lineage(b) : Hangs(r)
<1> DEFINE T == {c \in BlockGraph : Anchored(c) \/ c \in InStore =>
                                      \E r \in Lineage(c) : Hangs(r)}
<1>1. ASSUME NEW c \in BlockGraph, c \in connected => PreviousHash[c] \in T
      PROVE  c \in T
  <2> SUFFICES ASSUME Anchored(c) \/ c \in InStore
               PROVE  \E r \in Lineage(c) : Hangs(r)
    OBVIOUS
  <2> DEFINE p == PreviousHash[c]
  <2>1. Lineage(c) = IF c \in connected THEN {c} \cup Lineage(p) ELSE {c}
    BY LineageStep
  <2>2. c \in Blocks /\ (c \in connected => p \in Blocks) /\ Height[c] \in Nat /\ Height[c] >= 1
    BY BlocksAssumption DEF TreeInv
  <2>3. c \in InStore => c = Genesis \/ p \in InStore
    BY <2>2, BlocksAssumption DEF StoreIsAChain
  <2>4. Retrievable(p) => p \in InStore
    BY OnlyBlocksAreFound DEF InStore
  <2>5. CASE c \notin connected
    <3>1. Lineage(c) = {c}
      BY <2>1, <2>5
    <3>2. c = Genesis \/ p \in InStore
      BY <2>3, <2>4, <3>1 DEF Anchored
    <3>3. QED
      BY <2>5, <3>1, <3>2 DEF Hangs
  <2>6. CASE c \in connected
    <3>1. Lineage(c) = {c} \cup Lineage(p) /\ p \in Blocks
      BY <2>1, <2>2, <2>6
    <3>2. c # Genesis
      BY <3>1, BlocksAssumption
    <3>3. Anchored(p) \/ p \in InStore
      BY <2>3, <2>4, <3>1, <3>2 DEF Anchored
    <3>4. QED
      BY <1>1, <2>6, <3>1, <3>3
  <2>7. QED
    BY <2>5, <2>6
<1>2. BlockGraph \subseteq T
  <2> HIDE DEF T
  <2>1. QED
    BY <1>1, TreeInduction
<1>3. QED
  BY <1>2

\* A branch has a block of every height from its root up.
LEMMA BranchHasAllHeights ==
  ASSUME TreeInv, HeightsFollow
  PROVE  \A b \in BlockGraph : \A r \in Lineage(b) : r \notin connected =>
           \A h \in Height[r]..Height[b] : \E d \in Lineage(b) : Height[d] = h
<1> DEFINE Full(b) == \A r \in Lineage(b) : r \notin connected =>
                        \A h \in Height[r]..Height[b] : \E d \in Lineage(b) : Height[d] = h
           T == {b \in BlockGraph : Full(b)}
<1>1. ASSUME NEW b \in BlockGraph, b \in connected => PreviousHash[b] \in T
      PROVE  b \in T
  <2> SUFFICES ASSUME NEW r \in Lineage(b), r \notin connected, NEW h \in Height[r]..Height[b]
               PROVE  \E d \in Lineage(b) : Height[d] = h
    OBVIOUS
  <2> DEFINE p == PreviousHash[b]
  <2>1. Lineage(b) = IF b \in connected THEN {b} \cup Lineage(p) ELSE {b}
    BY LineageStep
  <2>2. b \in Blocks /\ (b \in connected => p \in Blocks) /\ Height[b] \in Nat
    BY BlocksAssumption DEF TreeInv
  <2>3. CASE h = Height[b]
    BY <2>1, <2>3
  <2>4. CASE h # Height[b]
    <3>1. r # b
      BY <2>2, <2>4
    <3>2. b \in connected /\ r \in Lineage(p) /\ Lineage(b) = {b} \cup Lineage(p)
      BY <2>1, <3>1
    <3>3. Height[p] \in Nat /\ Height[b] = Height[p] + 1
      BY <2>2, <3>2, HeightAboveParent
    <3>4. r \in Blocks /\ Height[r] \in Nat
      <4>1. r \in BlockGraph
        BY LineagesArePaths DEF IsPath
      <4>2. QED
        BY <4>1, BlocksAssumption DEF TreeInv
    <3>5. h \in Height[r]..Height[p]
      BY <2>2, <2>4, <3>3, <3>4
    <3>6. QED
      BY <1>1, <3>2, <3>5
  <2>5. QED
    BY <2>3, <2>4
<1>2. BlockGraph \subseteq T
  <2> HIDE DEF T
  <2>1. QED
    BY <1>1, TreeInduction
<1>3. QED
  BY <1>2

LEMMA AnswersAreLinked ==
  ASSUME HeightsFollow, RivalsKeepTheirRank, TreeInv, BufferInv, ChainInv, BestInv, AnswersInv,
         proc = "up", StoreIsAChain, pc = "idle",
         currentHighestBlock # NoBlock, SerializedBelow(currentHighestBlock)
  PROVE  /\ GetBlockByHeight(1) = Genesis
         /\ \A h \in 2..Height[currentHighestBlock] :
              /\ GetBlockByHeight(h) \in Blocks
              /\ PreviousHash[GetBlockByHeight(h)] = GetBlockByHeight(h - 1)
<1> DEFINE best == currentHighestBlock
           L == Lineage(best)
           Ans(h) == GetBlockByHeight(h)
<1>1. Running /\ Anchored(best)
  BY DEF Running, BestInv, BestHolds
<1>2. best \in BlockGraph /\ best \in Blocks /\ Height[best] \in Nat /\ best # NoBlock
  BY <1>1, BlocksAssumption DEF Anchored, Lineage, TreeInv
<1>3. Genesis \in InStore
  BY GenesisIsStored
<1>4. PICK r \in L : Hangs(r)
  BY <1>1, <1>2, <1>3, RootHangs
<1>5. /\ best \in L /\ L \subseteq Blocks
      /\ \A c \in L : c = best \/ Height[c] < Height[best]
      /\ \A c \in L : c \in connected => PreviousHash[c] \in L
      /\ \A c, d \in L : Height[c] = Height[d] => c = d
      /\ \A h \in L : h \notin connected => \A c \in L : Height[h] <= Height[c]
  BY <1>2, LineagesArePaths DEF IsPath, TreeInv
<1>6. \A c \in L : Height[c] \in Nat /\ Height[c] >= 1
  BY <1>5, BlocksAssumption
<1>7. \A c \in L : c = r \/ (PreviousHash[c] \in L /\ Height[c] > 1)
  <2> SUFFICES ASSUME NEW c \in L, c # r PROVE PreviousHash[c] \in L /\ Height[c] > 1
    OBVIOUS
  <2>1. Height[r] <= Height[c]
    BY <1>4, <1>5 DEF Hangs
  <2>2. c \in connected
    <3> SUFFICES ASSUME c \notin connected PROVE FALSE
      OBVIOUS
    <3>1. Height[c] <= Height[r]
      BY <1>4, <1>5
    <3>2. QED
      BY <1>4, <1>5, <1>6, <2>1, <3>1
  <2>3. Height[c] # Height[r]
    BY <1>4, <1>5
  <2>4. QED
    BY <1>4, <1>5, <1>6, <2>1, <2>2, <2>3
<1>8. \A h \in Height[r]..Height[best] : \E d \in L : Height[d] = h
  BY <1>2, <1>4, BranchHasAllHeights DEF Hangs
<1> HIDE DEF L
\* What the two lookups give.
<1>9. ASSUME NEW d \in L PROVE Ans(Height[d]) = d
  <2>1. CASE d = best
    BY <1>2, <2>1 DEF GetBlockByHeight
  <2>2. CASE d # best
    <3> DEFINE onBranch == {c \in L : Height[c] = Height[d]}
    <3>1. onBranch = {d}
      BY <1>5
    <3>2. ~ (Height[d] >= Height[best])
      BY <1>2, <1>5, <1>6, <2>2
    <3>3. Ans(Height[d]) = CHOOSE c \in onBranch : TRUE
      BY <3>1, <3>2 DEF GetBlockByHeight, L
    <3> HIDE DEF onBranch
    <3>4. QED
      BY <3>1, <3>3
  <2>3. QED
    BY <2>1, <2>2
<1>10. ASSUME NEW s \in InStore, Height[s] < Height[r] PROVE Ans(Height[s]) = s
  <2>1. Height[s] \in Nat /\ Height[r] \in Nat /\ Height[r] <= Height[best]
    BY <1>2, <1>4, <1>5, <1>6, BlocksAssumption DEF InStore
  <2>2. ~ (Height[s] >= Height[best])
    BY <1>2, <1>10, <2>1
  <2>3. {c \in L : Height[c] = Height[s]} = {}
    BY <1>4, <1>5, <1>6, <1>10, <2>1 DEF Hangs
  <2>4. Ans(Height[s]) = StoredAtHeight(Height[s])
    BY <2>2, <2>3 DEF GetBlockByHeight, L
  <2>5. QED
    BY <1>1, <2>4, StoredAnswers
<1> HIDE DEF Ans
\* Where a height is found.
<1>11. ASSUME NEW h \in 1..Height[best]
       PROVE  \/ \E d \in L : Height[d] = h
              \/ \E s \in InStore : Height[s] = h /\ h < Height[r]
  <2>1. CASE h >= Height[r]
    BY <1>2, <1>4, <1>6, <1>8, <2>1
  <2>2. CASE h < Height[r]
    <3>1. Height[r] \in Nat /\ r \in Blocks /\ r # Genesis
      BY <1>4, <1>5, <1>6, <2>2, BlocksAssumption
    <3>2. PreviousHash[r] \in InStore
      BY <1>4, <3>1 DEF Hangs
    <3>3. Height[PreviousHash[r]] \in Nat /\ Height[r] = Height[PreviousHash[r]] + 1
      BY <3>1, <3>2, HeightAboveParent DEF InStore
    <3>4. h \in 1..Height[PreviousHash[r]]
      BY <2>2, <3>1, <3>3
    <3>5. QED
      BY <2>2, <3>2, <3>4, StoreDown DEF StoreGoesDown
  <2>3. QED
    BY <1>2, <1>4, <1>6, <2>1, <2>2
<1>12. Height[best] >= 1
  BY <1>5, <1>6
<1>13. Ans(1) = Genesis
  <2>1. CASE \E d \in L : Height[d] = 1
    <3>1. PICK d \in L : Height[d] = 1
      BY <2>1
    <3>2. d = r
      BY <1>7, <3>1
    <3>3. PreviousHash[r] \notin InStore
      <4> SUFFICES ASSUME PreviousHash[r] \in InStore PROVE FALSE
        OBVIOUS
      <4>1. PreviousHash[r] \in Blocks /\ r \in Blocks
        BY <1>4, <1>5 DEF InStore
      <4>2. Height[r] = Height[PreviousHash[r]] + 1 /\ Height[PreviousHash[r]] \in Nat \ {0}
        BY <4>1, HeightAboveParent, BlocksAssumption
      <4>3. QED
        BY <3>1, <3>2, <4>2
    <3>4. d = Genesis
      BY <1>4, <3>2, <3>3 DEF Hangs
    <3>5. QED
      BY <1>9, <3>1, <3>4
  <2>2. CASE \E s \in InStore : Height[s] = 1 /\ 1 < Height[r]
    <3>1. PICK s \in InStore : Height[s] = 1 /\ 1 < Height[r]
      BY <2>2
    <3>2. s = Genesis
      BY <1>3, <3>1, BlocksAssumption DEF StoreIsAChain
    <3>3. QED
      BY <1>10, <3>1, <3>2
  <2>3. QED
    BY <1>2, <1>11, <1>12, <2>1, <2>2
<1>14. ASSUME NEW h \in 2..Height[best]
       PROVE  Ans(h) \in Blocks /\ PreviousHash[Ans(h)] = Ans(h - 1)
  <2>1. h \in Nat /\ h \in 1..Height[best]
    OBVIOUS
  <2>2. ASSUME NEW b \in Blocks, Height[b] = h, PreviousHash[b] \in Blocks
        PROVE  Height[PreviousHash[b]] = h - 1
    BY <2>1, <2>2, HeightAboveParent
  <2>3. CASE \E d \in L : Height[d] = h
    <3>1. PICK d \in L : Height[d] = h
      BY <2>3
    <3>2. Ans(h) = d /\ d \in Blocks
      BY <1>5, <1>9, <3>1
    <3>3. CASE PreviousHash[d] \in L
      <4>1. Height[PreviousHash[d]] = h - 1
        BY <1>5, <2>2, <3>1, <3>2, <3>3
      <4>2. Ans(Height[PreviousHash[d]]) = PreviousHash[d]
        BY <1>9, <3>3
      <4>3. QED
        BY <3>2, <4>1, <4>2
    <3>4. CASE d = r /\ PreviousHash[d] \in InStore
      <4>1. Height[PreviousHash[d]] = h - 1
        BY <2>2, <3>1, <3>2, <3>4 DEF InStore
      <4>2. Ans(Height[PreviousHash[d]]) = PreviousHash[d]
        BY <1>10, <2>1, <3>1, <3>4, <4>1
      <4>3. QED
        BY <3>2, <4>1, <4>2
    <3>5. d # Genesis
      BY <2>1, <3>1, BlocksAssumption
    <3>6. QED
      BY <1>4, <1>7, <3>3, <3>4, <3>5 DEF Hangs
  <2>4. CASE \E s \in InStore : Height[s] = h /\ h < Height[r]
    <3>1. PICK s \in InStore : Height[s] = h /\ h < Height[r]
      BY <2>4
    <3>2. Ans(h) = s /\ s \in Blocks
      BY <1>10, <3>1 DEF InStore
    <3>3. PreviousHash[s] \in InStore /\ PreviousHash[s] \in Blocks
      BY <2>1, <3>1 DEF StoreIsAChain, InStore
    <3>4. Height[PreviousHash[s]] = h - 1
      BY <2>2, <3>1, <3>2, <3>3
    <3>5. Height[PreviousHash[s]] < Height[r]
      BY <1>4, <1>6, <2>1, <3>1, <3>4
    <3>6. QED
      BY <1>10, <3>2, <3>3, <3>4, <3>5
  <2>5. QED
    BY <1>11, <2>1, <2>3, <2>4
<1>15. QED
  BY <1>13, <1>14 DEF Ans

LEMMA AnswersInvariant ==
  ASSUME PruneHeights = {}, ~ DiskCanFail
  PROVE  ChainSpec => [](TreeInv /\ ServedStore /\ AnswersInv)
<1>1. ChainInit => TreeInv /\ ServedStore /\ AnswersInv
  BY TreeInvInit, ServedStoreInit, AnswersInvInit
<1>2. TreeInv /\ ServedStore /\ AnswersInv /\ [ChainNext]_allVars
        => (TreeInv /\ ServedStore /\ AnswersInv)'
  BY TreeInvStep, ServedStoreStep, AnswersInvStep
<1>3. QED
  BY <1>1, <1>2, PTL DEF ChainSpec

\* A peer that asks block by block for the heights up to the best block's is answered
\* with a linked chain from the genesis block, whether a block is on the branch of the
\* best block, in the store's memory or serialized (GetBlockByHeight of the tree and of
\* the store): for all trees in which every block is one higher than its parent.
THEOREM AnswersFollow ==
  ASSUME PruneHeights = {}, ~ DiskCanFail, HeightsFollow
  PROVE  ChainSpec => []AnswersFollowBest
<1>1. TreeInv /\ ServedStore /\ BestInv /\ AnswersInv => AnswersFollowBest
  <2> SUFFICES ASSUME TreeInv, ServedStore, BestInv, AnswersInv,
                      RivalsKeepTheirRank, StoreIsAChain, Running, pc = "idle",
                      currentHighestBlock # NoBlock, SerializedBelow(currentHighestBlock)
               PROVE  /\ GetBlockByHeight(1) = Genesis
                      /\ \A h \in 2..Height[currentHighestBlock] :
                           /\ GetBlockByHeight(h) \in Blocks
                           /\ PreviousHash[GetBlockByHeight(h)] = GetBlockByHeight(h - 1)
    BY DEF AnswersFollowBest
  <2>1. proc = "up" /\ BufferInv /\ ChainInv
    BY DEF Running, ServedStore
  <2>2. QED
    BY <2>1, AnswersAreLinked
<1>2. QED
  BY <1>1, BestInvariant, AnswersInvariant, PTL

=============================================================================
