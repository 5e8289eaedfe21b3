-------------------------- MODULE OverlineDBProofs --------------------------
(***************************************************************************)
(* Theorems about OverlineDB, for every set of blocks, every chunk size    *)
(* and every buffer size the assumptions of the modules allow.             *)
(***************************************************************************)
EXTENDS OverlineDB, FiniteSetTheorems, WellFoundedInduction, TLAPS

-----------------------------------------------------------------------------
(* Maps *)

LEMMA MapPut ==
  ASSUME NEW K, NEW V, NEW f, NEW g, IsMap(f, K, V), IsMap(g, K, V)
  PROVE  IsMap(Put(f, g), K, V)
BY DEF IsMap, Put

LEMMA MapDropped ==
  ASSUME NEW K, NEW V, NEW f, IsMap(f, K, V), NEW keys
  PROVE  IsMap(Drop(f, keys), K, V)
BY DEF IsMap, Drop, Restrict

LEMMA EmptyMap == ASSUME NEW K, NEW V PROVE IsMap(<<>>, K, V)
BY DEF IsMap

\* What a Put leaves: the entries put, and the old ones at other keys.
LEMMA PutLookup ==
  ASSUME NEW f, NEW g, NEW k
  PROVE  /\ k \in DOMAIN Put(f, g) <=> k \in DOMAIN f \/ k \in DOMAIN g
         /\ k \in DOMAIN g => Put(f, g)[k] = g[k]
         /\ k \in DOMAIN f \ DOMAIN g => Put(f, g)[k] = f[k]
BY DEF Put

-----------------------------------------------------------------------------
(* Chunks *)

\* A non-empty set of natural numbers has a least element.
LEMMA LeastNatural ==
  ASSUME NEW T, T \subseteq Nat, T # {}
  PROVE  \E n \in T : \A m \in T : n <= m
<1>1. PICK n \in T : \A m \in T : ~ (<<m, n>> \in OpToRel(<, Nat))
  BY NatLessThanWellFounded, WFMin
<1>2. \A m \in T : ~ (m < n)
  BY <1>1 DEF OpToRel
<1>3. QED
  BY <1>2

\* The heights of a chunk whose blocks are parent and child are consecutive.
LEMMA LinkedHeights ==
  ASSUME NEW c \in ChunkShape,
         \A i \in 1..(AncientChunkSize - 1) : OrderedBlockPairIsValid(c[i], c[i + 1])
  PROVE  \A i \in 1..AncientChunkSize : Height[c[i]] = Height[c[1]] + i - 1
<1> DEFINE T == {i \in 1..AncientChunkSize : Height[c[i]] # Height[c[1]] + i - 1}
<1>1. AncientChunkSize \in Nat /\ AncientChunkSize >= 2
  BY SizesAssumption
<1>2. \A i \in 1..AncientChunkSize : c[i] \in Blocks /\ Height[c[i]] \in Nat
  BY BlocksAssumption DEF ChunkShape
<1>3. \A i \in 1..(AncientChunkSize - 1) : Height[c[i + 1]] - 1 = Height[c[i]]
  BY DEF OrderedBlockPairIsValid
<1>4. ASSUME T # {} PROVE FALSE
  <2> T \subseteq Nat
    BY <1>1
  <2>1. PICK n \in T : \A m \in T : n <= m
    <3> HIDE DEF T
    <3> QED
      BY <1>4, LeastNatural
  <2>2. n # 1
    BY <1>1, <1>2
  <2>3. n - 1 \in 1..(AncientChunkSize - 1) /\ n - 1 \notin T
    BY <1>1, <2>1, <2>2
  <2>4. Height[c[n - 1]] = Height[c[1]] + (n - 1) - 1
    BY <1>1, <2>3
  <2>5. Height[c[n]] - 1 = Height[c[n - 1]]
    BY <1>3, <2>3, <1>1
  <2>6. QED
    BY <1>1, <1>2, <2>2, <2>4, <2>5
<1>5. QED
  BY <1>4

\* So are those of a chunk that passes orderedPairCheck.
LEMMA ChunkHeights ==
  ASSUME NEW c \in ChunkShape, ChunkIsValid(c)
  PROVE  \A i \in 1..AncientChunkSize : Height[c[i]] = Height[c[1]] + i - 1
BY LinkedHeights DEF ChunkIsValid

\* A chunk is made of blocks of the set it is cut from.
LEMMA ChunkType ==
  ASSUME NEW B, B \subseteq Blocks, NEW c \in Chunks(B)
  PROVE  /\ c \in ChunkShape
         /\ Range(c) \subseteq B
         /\ c[1] \in Range(c) /\ c[AncientChunkSize] \in Range(c)
BY SizesAssumption DEF Chunks, ChunkShape, Range

\* The first chunk ever written starts at the genesis block: nothing that sorts
\* below it can be followed by it.
LEMMA FirstChunkStartsAtGenesis ==
  ASSUME NEW B, B \subseteq Blocks, Genesis \in B,
         NEW c \in Chunks(B), ChunkIsValid(c)
  PROVE  c[1] = Genesis
<1>1. AncientChunkSize \in Nat /\ AncientChunkSize >= 2
  BY SizesAssumption
<1>2. \A i \in 1..AncientChunkSize : c[i] \in Blocks
  BY DEF Chunks
<1>3. \A i \in 1..AncientChunkSize : Height[c[i]] \in Nat /\ Height[c[i]] >= 1
  BY <1>2, BlocksAssumption
<1>4. \A i \in 1..(AncientChunkSize - 1) : Height[c[i + 1]] - 1 = Height[c[i]]
  BY DEF ChunkIsValid, OrderedBlockPairIsValid
<1>5. Height[Genesis] = 1
  BY BlocksAssumption
<1>6. CASE Genesis \in Range(c)
  <2>1. PICK i \in 1..AncientChunkSize : c[i] = Genesis
    BY <1>6 DEF Range, Chunks
  <2>2. ASSUME i # 1 PROVE FALSE
    <3>1. i - 1 \in 1..(AncientChunkSize - 1) /\ i - 1 \in 1..AncientChunkSize
      BY <1>1, <2>2
    <3>2. Height[c[(i - 1) + 1]] - 1 = Height[c[i - 1]]
      BY <1>4, <3>1
    <3>3. (i - 1) + 1 = i
      BY <1>1
    <3>4. QED
      BY <1>3, <1>5, <2>1, <3>1, <3>2, <3>3
  <2>3. QED
    BY <2>1, <2>2
<1>7. CASE Genesis \notin Range(c)
  <2>1. ~ BlockOrderingRule(Genesis, c[AncientChunkSize])
    BY <1>7 DEF Chunks
  <2>2. ~ (1 < Height[c[AncientChunkSize]])
    BY <1>5, <2>1 DEF BlockOrderingRule
  <2>3. AncientChunkSize - 1 \in 1..(AncientChunkSize - 1)
        /\ (AncientChunkSize - 1) + 1 = AncientChunkSize
    BY <1>1
  <2>4. Height[c[AncientChunkSize]] - 1 = Height[c[AncientChunkSize - 1]]
    BY <1>4, <2>3
  <2>5. Height[c[AncientChunkSize - 1]] >= 1 /\ Height[c[AncientChunkSize]] \in Nat
    BY <1>1, <1>3
  <2>6. QED
    BY <2>2, <2>4, <2>5
<1>8. QED
  BY <1>6, <1>7

-----------------------------------------------------------------------------
(* Type correctness *)

LEMMA addBlockUnsafeType ==
  ASSUME TypeOK, NEW b \in Blocks, addBlockUnsafe(b)
  PROVE  /\ incomingBlocks' \subseteq Blocks
         /\ IsMap(incomingBlocksByHeight', Nat, Blocks)
         /\ IsMap(incomingBlocksByTx', Txs, Blocks)
         /\ highestBlock' \in BlockOrNil
<1>1. IsMap([h \in {Height[b]} |-> b], Nat, Blocks)
  BY BlocksAssumption DEF IsMap
<1>2. IsMap([t \in TxsOf[b] |-> b], Txs, Blocks)
  BY BlocksAssumption DEF IsMap
<1>3. QED
  BY <1>1, <1>2, MapPut
  DEF TypeOK, MemoryTypeOK, addBlockUnsafe, NextHighest, BlockOrNil

LEMMA serializeBlocksType ==
  ASSUME TypeOK, NEW c \in ChunkShape, serializeBlocks(c)
  PROVE  ChunkBucketsTypeOK'
<1>1. CASE UNCHANGED chunkBuckets
  BY <1>1 DEF TypeOK, ChunkBucketsTypeOK, chunkBuckets
<1>2. CASE ~ UNCHANGED chunkBuckets
  <2>1. Range(c) \subseteq Blocks /\ c[1] \in Blocks /\ c[AncientChunkSize] \in Blocks
    BY SizesAssumption DEF ChunkShape, Range
  <2>2. IsMap([k \in {c[1]} |-> c], Blocks, ChunkShape)
    BY <2>1 DEF IsMap
  <2>3. IsMap([b \in Range(c) |-> c[1]], Blocks, Blocks)
    BY <2>1 DEF IsMap
  <2>4. IsMap([h \in Heights(Range(c)) |-> CHOOSE b \in Range(c) : Height[b] = h],
              Nat, Blocks)
    BY <2>1, BlocksAssumption DEF IsMap, Heights
  <2>5. \A f \in TxIndexes(Range(c), BlockOrderingRule) : IsMap(f, Txs, Blocks)
    BY <2>1, BlocksAssumption DEF TxIndexes, IsMap, TxsIn
  <2>6. QED
    BY <1>2, <2>1, <2>2, <2>3, <2>4, <2>5, MapPut
    DEF TypeOK, ChunkBucketsTypeOK, serializeBlocks, BlockOrNil
<1>3. QED
  BY <1>1, <1>2

LEMMA runSerializationType ==
  ASSUME TypeOK, runSerialization, UNCHANGED <<highestBlock, pools>>
  PROVE  MemoryTypeOK' /\ ChunkBucketsTypeOK'
<1> DEFINE all == incomingBlocks \cup toSerialize
           byHeight == Drop(incomingBlocksByHeight, Heights(incomingBlocks))
           byTx == Drop(incomingBlocksByTx, TxsIn(incomingBlocks))
<1>1. all \subseteq Blocks /\ IsMap(byHeight, Nat, Blocks) /\ IsMap(byTx, Txs, Blocks)
  BY MapDropped DEF TypeOK, MemoryTypeOK
<1>2. CASE /\ toSerialize' = all /\ incomingBlocks' = {}
           /\ incomingBlocksByHeight' = byHeight /\ incomingBlocksByTx' = byTx
           /\ UNCHANGED <<tipOfSerializedChain, chunkBuckets>>
  BY <1>1, <1>2 DEF TypeOK, MemoryTypeOK, ChunkBucketsTypeOK, chunkBuckets, pools
<1>3. ASSUME NEW c \in Chunks(all), serializeBlocks(c),
             tipOfSerializedChain' = c[AncientChunkSize],
             incomingBlocks' = all \ Range(c), toSerialize' = {},
             NEW f \in HeightIndexes(all \ Range(c), BlockOrderingRule),
             incomingBlocksByHeight' = Put(byHeight, f),
             NEW g \in TxIndexes(all \ Range(c), BlockOrderingRule),
             incomingBlocksByTx' = Put(byTx, g)
      PROVE  MemoryTypeOK' /\ ChunkBucketsTypeOK'
  <2>1. c \in ChunkShape /\ c[AncientChunkSize] \in Blocks
    BY <1>1, <1>3, ChunkType, SizesAssumption DEF ChunkShape
  <2>2. ChunkBucketsTypeOK'
    BY <1>3, <2>1, serializeBlocksType
  <2>3. IsMap(f, Nat, Blocks) /\ IsMap(g, Txs, Blocks)
    BY <1>1, BlocksAssumption DEF HeightIndexes, TxIndexes, IsMap, Heights, TxsIn
  <2>4. IsMap(incomingBlocksByHeight', Nat, Blocks) /\ IsMap(incomingBlocksByTx', Txs, Blocks)
    BY <1>1, <1>3, <2>3, MapPut
  <2>5. QED
    BY <1>1, <1>3, <2>1, <2>2, <2>4 DEF TypeOK, MemoryTypeOK, BlockOrNil, pools
<1>4. QED
  BY <1>2, <1>3 DEF runSerialization

LEMMA DieType ==
  ASSUME TypeOK, NEW how \in {"clean", "crash", "fatal", "panic"}, Die(how), UNCHANGED disk
  PROVE  TypeOK'
BY EmptyMap
DEF TypeOK, MemoryTypeOK, ChunkBucketsTypeOK, Die, EmptyMemory, disk, chunkBuckets, BlockOrNil

LEMMA PruneDatabaseType ==
  ASSUME TypeOK, NEW h \in PruneHeights, PruneDatabase(h)
  PROVE  TypeOK'
<1>1. CASE Die("panic") /\ UNCHANGED disk
  BY <1>1, DieType
<1>2. CASE ~ (Die("panic") /\ UNCHANGED disk)
  <2> DEFINE visitedHeights == {k \in DOMAIN height2hash : k >= h}
             visited == {height2hash[k] : k \in visitedHeights}
             chunkAt(k) == hash2chunk[height2hash[k]]
             firstKey == Height[chunkAt(Min(visitedHeights))]
  <2>1. visited \subseteq Blocks
    BY DEF TypeOK, ChunkBucketsTypeOK, IsMap
  <2>2. incomingBlocks' \subseteq Blocks
    BY <1>2, <2>1 DEF PruneDatabase
  <2>3. IsMap(blockChunks', Blocks, ChunkShape) /\ IsMap(hash2chunk', Blocks, Blocks)
        /\ IsMap(height2hash', Nat, Blocks) /\ IsMap(tx2hash', Txs, Blocks)
    <3>1. CASE UNCHANGED chunkBuckets
      BY <3>1 DEF chunkBuckets, TypeOK, ChunkBucketsTypeOK
    <3>2. CASE ~ UNCHANGED chunkBuckets
      BY <1>2, <3>2, MapDropped DEF PruneDatabase, TypeOK, ChunkBucketsTypeOK
    <3>3. QED
      BY <3>1, <3>2
  <2>4. lastWritten' = BlockAt(firstKey - 1) \/ lastWritten' = lastWritten
    BY <1>2 DEF PruneDatabase, chunkBuckets
  <2>5. \A k \in DOMAIN height2hash : height2hash[k] \in Blocks
    BY DEF TypeOK, ChunkBucketsTypeOK, IsMap
  <2>6. lastWritten' \in BlockOrNil
    <3> HIDE DEF firstKey
    <3> QED BY <2>4, <2>5 DEF BlockAt, BlockOrNil, TypeOK, ChunkBucketsTypeOK
  <2>7. /\ proc' = "pruned"
        /\ UNCHANGED <<indexes, toSerialize, tipOfSerializedChain,
                       highestBlock, pools, chainstate, exit>>
    BY <1>2 DEF PruneDatabase
  <2>8. QED
    BY <2>2, <2>3, <2>6, <2>7
    DEF TypeOK, MemoryTypeOK, ChunkBucketsTypeOK, indexes, pools
<1>3. QED
  BY <1>1, <1>2

LEMMA LoadType ==
  ASSUME TypeOK, Load
  PROVE  TypeOK'
<1>1. CASE LoadChainstate
  <2> DEFINE loaded == chainstate.blocks \ incomingBlocks
  <2>1. loaded \subseteq Blocks /\ chainstate.blocks \subseteq Blocks
    BY DEF TypeOK
  <2>2. /\ \A f \in HeightIndexes(loaded, LoadsBefore) : IsMap(f, Nat, Blocks)
        /\ \A f \in TxIndexes(loaded, LoadsBefore) : IsMap(f, Txs, Blocks)
    BY <2>1, BlocksAssumption DEF HeightIndexes, TxIndexes, IsMap, Heights, TxsIn
  <2>3. IsMap(incomingBlocksByHeight', Nat, Blocks) /\ IsMap(incomingBlocksByTx', Txs, Blocks)
    BY <1>1, <2>2, MapDropped DEF LoadChainstate, IndexesAfterLoad
  <2>4. incomingBlocks' \subseteq Blocks
    BY <1>1, <2>1 DEF LoadChainstate, TypeOK, MemoryTypeOK
  <2>5. QED
    BY <1>1, <2>3, <2>4
    DEF LoadChainstate, TypeOK, MemoryTypeOK, ChunkBucketsTypeOK, disk, chunkBuckets
<1>2. CASE LoadPanics
  BY <1>2, DieType DEF LoadPanics
<1>3. CASE LoadUninitialized
  <2>1. CASE Die("panic") /\ UNCHANGED disk
    BY <2>1, DieType
  <2>2. CASE ~ (Die("panic") /\ UNCHANGED disk)
    <3>1. Genesis \in Blocks
      BY BlocksAssumption
    <3>2. QED
      BY <1>3, <2>2, <3>1, addBlockUnsafeType
      DEF LoadUninitialized, TypeOK, MemoryTypeOK, ChunkBucketsTypeOK, disk, chunkBuckets, pools
  <2>3. QED
    BY <2>1, <2>2
<1>4. QED
  BY <1>1, <1>2, <1>3 DEF Load

LEMMA TypeCorrectStep ==
  ASSUME TypeOK, [Next]_vars
  PROVE  TypeOK'
<1>1. ASSUME NEW b \in Blocks, AddBlock(b) PROVE TypeOK'
  BY <1>1, addBlockUnsafeType
  DEF AddBlock, TypeOK, MemoryTypeOK, ChunkBucketsTypeOK, disk, chunkBuckets, pools
<1>2. ASSUME NEW tx \in PoolTxs, AddTransaction(tx) PROVE TypeOK'
  BY <1>2 DEF AddTransaction, TypeOK, MemoryTypeOK, ChunkBucketsTypeOK,
              disk, chunkBuckets, indexes
<1>3. ASSUME NEW mtx \in PoolMTxs, AddMarkedTransaction(mtx) PROVE TypeOK'
  BY <1>3 DEF AddMarkedTransaction, TypeOK, MemoryTypeOK, ChunkBucketsTypeOK,
              disk, chunkBuckets, indexes
<1>4. ASSUME Run PROVE TypeOK'
  <2>1. CASE runSerialization /\ UNCHANGED <<highestBlock, pools, chainstate, proc, exit>>
    <3>1. MemoryTypeOK' /\ ChunkBucketsTypeOK'
      BY <2>1, runSerializationType
    <3>2. QED
      BY <2>1, <3>1 DEF TypeOK
  <2>2. CASE SerializationIsFatal
    BY <2>2, DieType DEF SerializationIsFatal
  <2>3. QED
    BY <1>4, <2>1, <2>2 DEF Run
<1>5. ASSUME FlushSerialize PROVE TypeOK'
  <2>1. CASE /\ runSerialization /\ proc' = "flushing"
             /\ UNCHANGED <<highestBlock, pools, chainstate, exit>>
    <3>1. MemoryTypeOK' /\ ChunkBucketsTypeOK'
      BY <2>1, runSerializationType
    <3>2. QED
      BY <2>1, <3>1 DEF TypeOK
  <2>2. CASE SerializationIsFatal
    BY <2>2, DieType DEF SerializationIsFatal
  <2>3. CASE proc' = "flushing" /\ UNCHANGED <<memory, disk, exit>>
    BY <2>3 DEF TypeOK, MemoryTypeOK, ChunkBucketsTypeOK, memory, disk, chunkBuckets,
                indexes, pools
  <2>4. QED
    BY <1>5, <2>1, <2>2, <2>3 DEF FlushSerialize
<1>6. ASSUME FlushChainstate PROVE TypeOK'
  <2>1. CASE Die("fatal") /\ UNCHANGED disk
    BY <2>1, DieType
  <2>2. CASE ~ (Die("fatal") /\ UNCHANGED disk)
    <3>1. /\ chainstate' = ChainstateToFlush
          /\ proc' = "flushed" /\ UNCHANGED <<memory, chunkBuckets, exit>>
      BY <1>6, <2>2 DEF FlushChainstate
    <3>2. chainstate' \in [present : BOOLEAN, blocks : SUBSET Blocks,
                           txs : SUBSET (PoolTxs \cup PoolMTxs), mtxs : SUBSET PoolMTxs]
      BY <3>1 DEF ChainstateToFlush, TypeOK, MemoryTypeOK
    <3>3. QED
      BY <3>1, <3>2 DEF TypeOK, MemoryTypeOK, ChunkBucketsTypeOK,
                        memory, chunkBuckets, indexes, pools
  <2>3. QED
    BY <2>1, <2>2
<1>7. ASSUME CloseDatabase PROVE TypeOK'
  BY <1>7, DieType DEF CloseDatabase
<1>8. ASSUME NEW drop \in BOOLEAN, StartOpen(drop) PROVE TypeOK'
  <2>1. chainstate' \in [present : BOOLEAN, blocks : SUBSET Blocks,
                         txs : SUBSET (PoolTxs \cup PoolMTxs), mtxs : SUBSET PoolMTxs]
    BY <1>8 DEF StartOpen, TypeOK, NoChainstate
  <2>2. MemoryTypeOK'
    BY <1>8, EmptyMap DEF StartOpen, EmptyMemory, MemoryTypeOK, BlockOrNil
  <2>3. QED
    BY <1>8, <2>1, <2>2 DEF StartOpen, TypeOK, ChunkBucketsTypeOK, chunkBuckets
<1>9. ASSUME NEW h \in PruneHeights, PruneDatabase(h) PROVE TypeOK'
  BY <1>9, PruneDatabaseType
<1>10. ASSUME Load PROVE TypeOK'
  BY <1>10, LoadType
<1>11. ASSUME Crash PROVE TypeOK'
  BY <1>11, DieType DEF Crash
<1>12. ASSUME UNCHANGED vars PROVE TypeOK'
  BY <1>12 DEF vars, memory, disk, chunkBuckets, indexes, pools,
               TypeOK, MemoryTypeOK, ChunkBucketsTypeOK
<1>13. QED
  BY <1>1, <1>2, <1>3, <1>4, <1>5, <1>6, <1>7, <1>8, <1>9, <1>10, <1>11, <1>12
  DEF Next, Ingest, Close, Open

\* Every map, bucket and set keeps its type, for all of the database's actions.
THEOREM TypeCorrect == Spec => []TypeOK
<1>1. Init => TypeOK
  BY EmptyMap DEF Init, TypeOK, MemoryTypeOK, ChunkBucketsTypeOK, BlockOrNil, NoChainstate
<1>2. QED
  BY <1>1, TypeCorrectStep, PTL DEF Spec

-----------------------------------------------------------------------------
(* The serialized chain: what serialization writes *)

\* A chunk leaves memory for the disk.
ChunkLeaves(c) ==
  /\ ChunkIsValid(c)
  /\ serializeBlocks(c)
  /\ tipOfSerializedChain' = c[AncientChunkSize]
  /\ incomingBlocks' = incomingBlocks \ Range(c)
  /\ toSerialize' = {}

\* With more than a chunk of blocks in memory and none in the buffer,
\* runSerialization always cuts a chunk: the buffer is never left filled.
LEMMA SerializationCutsAChunk ==
  ASSUME BufferInv, runSerialization, Cardinality(incomingBlocks) > AncientChunkSize
  PROVE  \E c \in Chunks(incomingBlocks) : ChunkLeaves(c)
<1>1. incomingBlocks \cup toSerialize = incomingBlocks
  BY DEF BufferInv, NothingLeftInBuffer
<1>2. Cardinality(incomingBlocks) \in Nat
  <2>1. IsFiniteSet(incomingBlocks)
    BY BlocksAssumption, FS_Subset DEF BufferInv, TypeOK, MemoryTypeOK
  <2>2. QED
    BY <2>1, FS_CardinalityType
<1>3. ~ (Cardinality(incomingBlocks) <= AncientChunkSize)
  BY <1>2, SizesAssumption
<1>4. QED
  BY <1>1, <1>3 DEF runSerialization, ChunkLeaves

LEMMA RunCutsAChunk ==
  ASSUME BufferInv, Run
  PROVE  \/ (\E c \in Chunks(incomingBlocks) : ChunkLeaves(c)) /\ UNCHANGED <<chainstate, proc>>
         \/ SerializationIsFatal
<1>1. Cardinality(incomingBlocks) \in Nat
  <2>1. IsFiniteSet(incomingBlocks)
    BY BlocksAssumption, FS_Subset DEF BufferInv, TypeOK, MemoryTypeOK
  <2>2. QED
    BY <2>1, FS_CardinalityType
<1>2. Cardinality(incomingBlocks) > AncientChunkSize
  BY <1>1, SizesAssumption DEF Run, MoreThan
<1>3. QED
  BY <1>2, SerializationCutsAChunk DEF Run

LEMMA FlushCutsAChunk ==
  ASSUME BufferInv, FlushSerialize
  PROVE  \/ /\ \E c \in Chunks(incomingBlocks) : ChunkLeaves(c)
            /\ proc' = "flushing" /\ UNCHANGED chainstate
         \/ SerializationIsFatal
         \/ proc' = "flushing" /\ UNCHANGED <<memory, disk>>
BY SerializationCutsAChunk DEF FlushSerialize, MoreThan

-----------------------------------------------------------------------------
(* The buffer *)

LEMMA BufferInvInit == Init => BufferInv
BY EmptyMap
DEF Init, BufferInv, TypeOK, MemoryTypeOK, ChunkBucketsTypeOK, BlockOrNil,
    NoChainstate, NothingLeftInBuffer

LEMMA BufferInvStep ==
  ASSUME BufferInv, [Next]_vars
  PROVE  BufferInv'
<1> DEFINE Rest == /\ NothingLeftInBuffer
                   /\ proc \in {"down", "opening", "pruned"} => tipOfSerializedChain = NoBlock
<1>1. TypeOK'
  BY TypeCorrectStep DEF BufferInv
<1>2. Rest'
  <2>1. ASSUME NEW b \in Blocks, AddBlock(b) PROVE Rest'
    BY <2>1 DEF AddBlock, BufferInv, NothingLeftInBuffer
  <2>2. ASSUME NEW tx \in PoolTxs, AddTransaction(tx) PROVE Rest'
    BY <2>2 DEF AddTransaction, BufferInv, NothingLeftInBuffer
  <2>3. ASSUME NEW mtx \in PoolMTxs, AddMarkedTransaction(mtx) PROVE Rest'
    BY <2>3 DEF AddMarkedTransaction, BufferInv, NothingLeftInBuffer
  <2>4. ASSUME NEW how, Die(how) PROVE Rest'
    BY <2>4 DEF Die, EmptyMemory, NothingLeftInBuffer
  <2>5. ASSUME Run PROVE Rest'
    <3>1. CASE SerializationIsFatal
      BY <2>4, <3>1 DEF SerializationIsFatal
    <3>2. CASE ~ SerializationIsFatal
      BY <2>5, <3>2, RunCutsAChunk
      DEF ChunkLeaves, Run, Running, NothingLeftInBuffer
    <3>3. QED
      BY <3>1, <3>2
  <2>6. ASSUME FlushSerialize PROVE Rest'
    <3>1. CASE SerializationIsFatal
      BY <2>4, <3>1 DEF SerializationIsFatal
    <3>2. CASE ~ SerializationIsFatal
      BY <2>6, <3>2, FlushCutsAChunk
      DEF ChunkLeaves, BufferInv, NothingLeftInBuffer, memory
    <3>3. QED
      BY <3>1, <3>2
  <2>7. ASSUME FlushChainstate PROVE Rest'
    BY <2>4, <2>7 DEF FlushChainstate, BufferInv, NothingLeftInBuffer, memory
  <2>8. ASSUME CloseDatabase PROVE Rest'
    BY <2>4, <2>8 DEF CloseDatabase
  <2>9. ASSUME NEW drop \in BOOLEAN, StartOpen(drop) PROVE Rest'
    BY <2>9 DEF StartOpen, EmptyMemory, NothingLeftInBuffer
  <2>10. ASSUME NEW h \in PruneHeights, PruneDatabase(h) PROVE Rest'
    <3>1. CASE Die("panic")
      BY <2>4, <3>1
    <3>2. CASE ~ Die("panic")
      BY <2>10, <3>2 DEF PruneDatabase, BufferInv, NothingLeftInBuffer
    <3>3. QED
      BY <3>1, <3>2
  <2>11. ASSUME Load PROVE Rest'
    BY <2>4, <2>11
    DEF Load, LoadChainstate, LoadPanics, LoadUninitialized, BufferInv, NothingLeftInBuffer
  <2>12. ASSUME Crash PROVE Rest'
    BY <2>4, <2>12 DEF Crash
  <2>13. ASSUME UNCHANGED vars PROVE Rest'
    BY <2>13 DEF vars, memory, BufferInv, NothingLeftInBuffer
  <2>14. QED
    <3> HIDE DEF Rest
    <3> QED
      BY <2>1, <2>2, <2>3, <2>5, <2>6, <2>7, <2>8, <2>9, <2>10, <2>11, <2>12, <2>13
      DEF Next, Ingest, Close, Open
<1>3. QED
  BY <1>1, <1>2 DEF BufferInv

\* Between operations the serialization buffer is empty: no block waits where
\* neither FlushToDisk nor Open would find it.  (runSerialization's size check
\* against the size checks of Run and FlushToDisk.)
THEOREM BufferEmpty == Spec => []NothingLeftInBuffer
<1>1. BufferInv => NothingLeftInBuffer
  BY DEF BufferInv
<1>2. QED
  BY <1>1, BufferInvInit, BufferInvStep, PTL DEF Spec

-----------------------------------------------------------------------------
(* The chain on disk *)

\* What the transaction of serializeBlocks leaves to be read: the blocks of
\* the chunk under their heights, and every other block as it was.
LEMMA ChunkWritten ==
  ASSUME NEW c \in ChunkShape, ChunkIsValid(c), serializeBlocks(c),
         ~ (DiskCanFail /\ UNCHANGED chunkBuckets)
  PROVE  /\ lastWritten' = c[AncientChunkSize]
         /\ \A k \in DOMAIN blockChunks' :
              \/ k = c[1] /\ blockChunks'[k] = c
              \/ k # c[1] /\ k \in DOMAIN blockChunks /\ blockChunks'[k] = blockChunks[k]
         /\ DOMAIN height2hash' = DOMAIN height2hash \cup Heights(Range(c))
         /\ \A i \in 1..AncientChunkSize :
              /\ Height[c[i]] \in DOMAIN height2hash'
              /\ height2hash'[Height[c[i]]] = c[i]
              /\ Stored(c[i])'
              /\ hash2chunk'[c[i]] = c[1]
         /\ \A h \in DOMAIN height2hash \ Heights(Range(c)) :
              h \in DOMAIN height2hash' /\ height2hash'[h] = height2hash[h]
         /\ \A b \in Blocks \ Range(c) : Stored(b) /\ hash2chunk[b] # c[1] =>
              Stored(b)' /\ hash2chunk'[b] = hash2chunk[b]
<1> DEFINE keyed == [k \in {c[1]} |-> c]
           homes == [b \in Range(c) |-> c[1]]
           atHeight == [h \in Heights(Range(c)) |-> CHOOSE b \in Range(c) : Height[b] = h]
<1>1. /\ blockChunks' = Put(blockChunks, keyed)
      /\ hash2chunk' = Put(hash2chunk, homes)
      /\ height2hash' = Put(height2hash, atHeight)
      /\ lastWritten' = c[AncientChunkSize]
  BY DEF serializeBlocks
<1>2. \A i \in 1..AncientChunkSize : c[i] \in Range(c)
  BY DEF ChunkShape, Range
<1>3. \A b \in Range(c) : \E i \in 1..AncientChunkSize : b = c[i]
  BY DEF ChunkShape, Range
<1>4. \A i \in 1..AncientChunkSize : Height[c[i]] = Height[c[1]] + i - 1
  BY ChunkHeights
<1>5. AncientChunkSize \in Nat /\ AncientChunkSize >= 2 /\ Height[c[1]] \in Nat
  BY SizesAssumption, BlocksAssumption DEF ChunkShape
<1>6. \A i \in 1..AncientChunkSize : atHeight[Height[c[i]]] = c[i]
  <2> TAKE i \in 1..AncientChunkSize
  <2>1. Height[c[i]] \in Heights(Range(c))
    BY <1>2 DEF Heights
  <2>2. \A b \in Range(c) : Height[b] = Height[c[i]] => b = c[i]
    BY <1>3, <1>4, <1>5
  <2>3. QED
    BY <1>2, <2>1, <2>2
<1>7. \A i \in 1..AncientChunkSize :
        Height[c[i]] \in DOMAIN height2hash' /\ height2hash'[Height[c[i]]] = c[i]
  <2> TAKE i \in 1..AncientChunkSize
  <2>1. Height[c[i]] \in DOMAIN atHeight
    BY <1>2 DEF Heights
  <2> HIDE DEF atHeight
  <2>2. QED
    BY <1>1, <1>6, <2>1, PutLookup
<1>8. \A b \in Range(c) : hash2chunk'[b] = c[1] /\ b \in DOMAIN hash2chunk'
  <2> TAKE b \in Range(c)
  <2>1. b \in DOMAIN homes /\ homes[b] = c[1]
    OBVIOUS
  <2> HIDE DEF homes
  <2>2. QED
    BY <1>1, <2>1, PutLookup
<1>9. blockChunks'[c[1]] = c /\ c[1] \in DOMAIN blockChunks'
  <2>1. c[1] \in DOMAIN keyed /\ keyed[c[1]] = c
    OBVIOUS
  <2> HIDE DEF keyed
  <2>2. QED
    BY <1>1, <2>1, PutLookup
<1>10. \A b \in Range(c) : Stored(b)'
  BY <1>8, <1>9 DEF Stored
<1>11. \A h \in DOMAIN height2hash \ Heights(Range(c)) :
         h \in DOMAIN height2hash' /\ height2hash'[h] = height2hash[h]
  BY <1>1, PutLookup
<1>12. ASSUME NEW b \in Blocks \ Range(c), Stored(b), hash2chunk[b] # c[1]
       PROVE  Stored(b)' /\ hash2chunk'[b] = hash2chunk[b]
  <2>1. b \in DOMAIN hash2chunk \ DOMAIN homes
    BY <1>12 DEF Stored
  <2>2. b \in DOMAIN hash2chunk' /\ hash2chunk'[b] = hash2chunk[b]
    <3> HIDE DEF homes
    <3> QED BY <1>1, <2>1, PutLookup
  <2>3. hash2chunk[b] \in DOMAIN blockChunks \ DOMAIN keyed
    BY <1>12 DEF Stored
  <2>4. /\ hash2chunk[b] \in DOMAIN blockChunks'
        /\ blockChunks'[hash2chunk[b]] = blockChunks[hash2chunk[b]]
    <3> HIDE DEF keyed
    <3> QED BY <1>1, <2>3, PutLookup
  <2>5. QED
    BY <1>12, <2>2, <2>4 DEF Stored
<1>13. \A k \in DOMAIN blockChunks' :
         \/ k = c[1] /\ blockChunks'[k] = c
         \/ k # c[1] /\ k \in DOMAIN blockChunks /\ blockChunks'[k] = blockChunks[k]
  BY <1>1 DEF Put
<1>14. DOMAIN height2hash' = DOMAIN height2hash \cup Heights(Range(c))
  BY <1>1 DEF Put
<1>15. QED
  BY <1>1, <1>2, <1>7, <1>8, <1>10, <1>11, <1>12, <1>13, <1>14

\* The part of ChainInv that is about the disk.
WholeOnDisk ==
  /\ SerializedChainIsWhole
  /\ lastWritten # NoBlock => \A h \in 1..Height[lastWritten] :
       Height[hash2chunk[height2hash[h]]] <= h

\* A chunk that serialization accepts continues the whole chain below it, or
\* starts it again at the genesis block.
LEMMA ChunkExtendsChain ==
  ASSUME ~ DiskCanFail, BufferInv, ChainInv, proc \notin {"down", "opening"},
         NEW c \in Chunks(incomingBlocks), ChunkLeaves(c)
  PROVE  WholeOnDisk' /\ lastWritten' = c[AncientChunkSize]
<1> DEFINE base == Height[c[1]]
           n == AncientChunkSize
<1>1. c \in ChunkShape /\ ChunkIsValid(c) /\ serializeBlocks(c)
  BY ChunkType DEF ChunkLeaves, BufferInv, TypeOK, MemoryTypeOK
<1>2. n \in Nat /\ n >= 2 /\ base \in Nat /\ base >= 1
  BY <1>1, SizesAssumption, BlocksAssumption DEF ChunkShape
<1>3. \A i \in 1..n : Height[c[i]] = base + i - 1 /\ c[i] \in Blocks
  BY <1>1, ChunkHeights DEF ChunkShape
<1>disk. /\ lastWritten' = c[AncientChunkSize]
      /\ \A i \in 1..AncientChunkSize :
              /\ Height[c[i]] \in DOMAIN height2hash'
              /\ height2hash'[Height[c[i]]] = c[i]
              /\ Stored(c[i])'
              /\ hash2chunk'[c[i]] = c[1]
  BY <1>1, ChunkWritten
<1>4. Height[lastWritten'] = base + n - 1 /\ lastWritten' = c[n] /\ lastWritten' # NoBlock
  BY <1>disk, <1>1, <1>2, <1>3, BlocksAssumption
<1>5. ASSUME NEW i \in 1..n
      PROVE  /\ base + i - 1 \in DOMAIN height2hash'
             /\ height2hash'[base + i - 1] = c[i]
             /\ Stored(c[i])'
             /\ hash2chunk'[c[i]] = c[1]
  BY <1>3, <1>disk
<1>6. \A i \in 1..(n - 1) : PreviousHash[c[i + 1]] = c[i]
  BY <1>1 DEF ChunkIsValid, OrderedBlockPairIsValid
<1>7. \A h \in base..(base + n - 1) :
        /\ h \in DOMAIN height2hash'
        /\ height2hash'[h] = c[h - base + 1]
        /\ Height[height2hash'[h]] = h
        /\ Stored(height2hash[h])'
        /\ Height[hash2chunk'[height2hash'[h]]] <= h
  <2> TAKE h \in base..(base + n - 1)
  <2> DEFINE i == h - base + 1
  <2>1. i \in 1..n /\ base + i - 1 = h /\ base <= h
    BY <1>2
  <2> HIDE DEF i
  <2>2. /\ base + i - 1 \in DOMAIN height2hash'
        /\ height2hash'[base + i - 1] = c[i]
        /\ Stored(c[i])'
        /\ hash2chunk'[c[i]] = c[1]
    BY <1>5, <2>1
  <2>3. Height[c[i]] = h
    BY <1>3, <2>1
  <2>4. c[i] = c[h - base + 1]
    BY DEF i
  <2>5. height2hash'[h] = c[i]
    BY <2>1, <2>2
  <2>6. Stored(height2hash[h])'
    BY <2>2, <2>5 DEF Stored
  <2>7. QED
    BY <2>1, <2>2, <2>3, <2>4, <2>5, <2>6
<1>8. \A h \in (base + 1)..(base + n - 1) :
        PreviousHash[height2hash'[h]] = height2hash'[h - 1]
  <2> TAKE h \in (base + 1)..(base + n - 1)
  <2>1. h - base \in 1..(n - 1) /\ h \in base..(base + n - 1) /\ h - 1 \in base..(base + n - 1)
    BY <1>2
  <2>2. (h - 1) - base + 1 = h - base
    BY <1>2, <2>1
  <2>3. height2hash'[h] = c[(h - base) + 1] /\ height2hash'[h - 1] = c[h - base]
    BY <1>7, <2>1, <2>2
  <2>4. QED
    BY <1>6, <2>1, <2>3
<1>9. ASSUME \A h \in 1..(base + n - 1) :
                 /\ h \in DOMAIN height2hash'
                 /\ Height[height2hash'[h]] = h
                 /\ Stored(height2hash[h])'
                 /\ Height[hash2chunk'[height2hash'[h]]] <= h,
              height2hash'[1] = Genesis,
              \A h \in 2..(base + n - 1) : PreviousHash[height2hash'[h]] = height2hash'[h - 1]
       PROVE  WholeOnDisk'
  <2>1. height2hash'[base + n - 1] = lastWritten'
    <3>1. base + n - 1 \in base..(base + n - 1) /\ (base + n - 1) - base + 1 = n
      BY <1>2
    <3>2. QED
      BY <1>4, <1>7, <3>1
  <2> DEFINE top == Height[lastWritten']
  <2>2. top = base + n - 1
    BY <1>4
  <2> HIDE DEF base, top
  <2>3. /\ \A h \in 1..top :
             /\ h \in DOMAIN height2hash'
             /\ Height[height2hash'[h]] = h
             /\ Stored(height2hash[h])'
        /\ \A h \in 1..top : Height[hash2chunk'[height2hash'[h]]] <= h
        /\ height2hash'[top] = lastWritten'
        /\ \A h \in 2..top : PreviousHash[height2hash'[h]] = height2hash'[h - 1]
    BY <1>9, <2>1, <2>2
  <2> USE DEF top
  <2>4. SerializedChainIsWhole'
    BY <1>9, <2>3 DEF SerializedChainIsWhole
  <2>5. QED
    BY <2>3, <2>4 DEF WholeOnDisk
<1>10. CASE tipOfSerializedChain = NoBlock
  <2>1. c[1] = Genesis
    BY <1>1, <1>10, FirstChunkStartsAtGenesis DEF ChainInv, BufferInv, TypeOK, MemoryTypeOK
  <2>2. base = 1
    BY <2>1, BlocksAssumption
  <2>3. height2hash'[1] = Genesis
    BY <1>2, <1>7, <2>1, <2>2
  <2>4. \A h \in 1..(base + n - 1) : h \in base..(base + n - 1)
    BY <1>2, <2>2
  <2>5. \A h \in 2..(base + n - 1) : h \in (base + 1)..(base + n - 1)
    BY <1>2, <2>2
  <2>6. QED
    BY <1>4, <1>7, <1>8, <1>9, <2>3, <2>4, <2>5
<1>11. CASE tipOfSerializedChain # NoBlock
  <2> DEFINE top == Height[lastWritten]
  <2>1. proc \in {"up", "flushing", "flushed"}
    BY DEF ChainInv, BufferInv, TypeOK
  <2>2. tipOfSerializedChain = lastWritten /\ lastWritten # NoBlock
    BY <1>11, <2>1 DEF ChainInv, TipIsLastWritten
  <2>3. base = top + 1 /\ PreviousHash[c[1]] = lastWritten /\ top \in Nat /\ top >= 1
    BY <1>1, <1>2, <1>11, <2>2, BlocksAssumption
    DEF ChunkIsValid, OrderedBlockPairIsValid, BufferInv, TypeOK, ChunkBucketsTypeOK, BlockOrNil
  <2>4. /\ \A h \in 1..top : /\ h \in DOMAIN height2hash
                             /\ Height[height2hash[h]] = h
                             /\ Stored(height2hash[h])
                             /\ Height[hash2chunk[height2hash[h]]] <= h
        /\ height2hash[top] = lastWritten
        /\ height2hash[1] = Genesis
        /\ \A h \in 2..top : PreviousHash[height2hash[h]] = height2hash[h - 1]
    BY <2>2 DEF ChainInv, SerializedChainIsWhole
  <2>5. \A h \in 1..top :
          /\ h \in DOMAIN height2hash'
          /\ height2hash'[h] = height2hash[h]
          /\ Stored(height2hash[h])'
          /\ hash2chunk'[height2hash'[h]] = hash2chunk[height2hash[h]]
    <3> TAKE h \in 1..top
    <3>1. \A b \in Range(c) : Height[b] > top
      BY <1>1, <1>2, <1>3, <2>3 DEF ChunkShape, Range
    <3>2. h \notin Heights(Range(c))
      BY <2>3, <3>1 DEF Heights
    <3>3. height2hash[h] \in Blocks \ Range(c)
      BY <2>3, <2>4, <3>1 DEF BufferInv, TypeOK, ChunkBucketsTypeOK, IsMap
    <3>4. hash2chunk[height2hash[h]] # c[1]
      BY <1>2, <2>3, <2>4
    <3>5. h \in DOMAIN height2hash' /\ height2hash'[h] = height2hash[h]
      BY <1>1, <2>4, <3>2, ChunkWritten
    <3>6. \A b \in Blocks \ Range(c) : Stored(b) /\ hash2chunk[b] # c[1] =>
            Stored(b)' /\ hash2chunk'[b] = hash2chunk[b]
      BY <1>1, ChunkWritten
    <3>7. Stored(height2hash[h])' /\ hash2chunk'[height2hash'[h]] = hash2chunk[height2hash[h]]
      BY <2>4, <3>3, <3>4, <3>5, <3>6 DEF Stored
    <3>8. QED
      BY <3>5, <3>7
  <2>6. \A h \in 1..(base + n - 1) : h \in 1..top \/ h \in base..(base + n - 1)
    BY <1>2, <2>3
  <2>7. \A h \in 1..(base + n - 1) :
          /\ h \in DOMAIN height2hash'
          /\ Height[height2hash'[h]] = h
          /\ Stored(height2hash[h])'
          /\ Height[hash2chunk'[height2hash'[h]]] <= h
    <3> TAKE h \in 1..(base + n - 1)
    <3>1. CASE h \in 1..top
      <4> HIDE DEF top
      <4>1. QED
        BY <2>4, <2>5, <3>1
    <3>2. CASE h \in base..(base + n - 1)
      <4> HIDE DEF base
      <4>1. QED
        BY <1>7, <3>2
    <3>3. QED
      BY <2>6, <3>1, <3>2
  <2>8. height2hash'[1] = Genesis
    BY <2>3, <2>4, <2>5
  <2>10. \A h \in 2..(base + n - 1) : PreviousHash[height2hash'[h]] = height2hash'[h - 1]
    <3> TAKE h \in 2..(base + n - 1)
    <3>1. CASE h \in 2..top
      <4>1. h \in 1..top /\ h - 1 \in 1..top
        BY <2>3, <3>1
      <4>2. QED
        BY <2>4, <2>5, <3>1, <4>1
    <3>2. CASE h = base
      <4>1. height2hash'[base] = c[1]
        BY <1>2, <1>7
      <4>2. height2hash'[base - 1] = lastWritten
        BY <2>3, <2>4, <2>5
      <4>3. QED
        BY <2>3, <3>2, <4>1, <4>2
    <3>3. CASE h \in (base + 1)..(base + n - 1)
      BY <1>8, <3>3
    <3>4. QED
      BY <1>2, <2>3, <3>1, <3>2, <3>3
  <2>11. QED
    BY <1>4, <1>9, <2>7, <2>8, <2>10
<1>12. QED
  BY <1>4, <1>10, <1>11

LEMMA ChainInvInit == Init => ChainInv
BY DEF Init, ChainInv, TipIsLastWritten, SerializedChainIsWhole

\* A step that leaves the chunk buckets alone leaves the chain on disk whole.
LEMMA WholeOnDiskUnchanged ==
  ASSUME ChainInv, UNCHANGED chunkBuckets
  PROVE  WholeOnDisk'
BY DEF ChainInv, WholeOnDisk, SerializedChainIsWhole, Stored, chunkBuckets

LEMMA ChainInvDies ==
  ASSUME ChainInv, NEW how, Die(how), UNCHANGED disk
  PROVE  ChainInv'
BY WholeOnDiskUnchanged
DEF ChainInv, Die, EmptyMemory, disk, TipIsLastWritten, WholeOnDisk

LEMMA ChainInvChunk ==
  ASSUME ~ DiskCanFail, BufferInv, ChainInv, proc \notin {"down", "opening"},
         NEW c \in Chunks(incomingBlocks), ChunkLeaves(c),
         proc' \notin {"down", "opening", "pruned"}
  PROVE  ChainInv'
<1>1. WholeOnDisk' /\ lastWritten' = c[AncientChunkSize]
  BY ChunkExtendsChain
<1>2. tipOfSerializedChain' = c[AncientChunkSize] /\ c[AncientChunkSize] \in Blocks
  BY ChunkType, SizesAssumption DEF ChunkLeaves, ChunkShape, BufferInv, TypeOK, MemoryTypeOK
<1>3. tipOfSerializedChain' # NoBlock
  BY <1>2, BlocksAssumption
<1>4. QED
  BY <1>1, <1>2, <1>3 DEF ChainInv, TipIsLastWritten, WholeOnDisk

LEMMA ChainInvLoad ==
  ASSUME BufferInv, ChainInv, Load
  PROVE  ChainInv'
<1>1. proc = "opening" /\ incomingBlocks = {} /\ tipOfSerializedChain = NoBlock
  BY DEF Load, ChainInv, BufferInv
<1>2. CASE LoadChainstate
  <2>1. WholeOnDisk'
    BY <1>2, WholeOnDiskUnchanged DEF LoadChainstate, disk
  <2>2. tipOfSerializedChain' = lastWritten' /\ tipOfSerializedChain' # NoBlock /\ proc' = "up"
    BY <1>2 DEF LoadChainstate, disk, chunkBuckets
  <2>3. QED
    BY <2>1, <2>2 DEF ChainInv, TipIsLastWritten, WholeOnDisk
<1>3. CASE LoadPanics
  BY <1>3, ChainInvDies DEF LoadPanics
<1>4. CASE LoadUninitialized
  <2>1. CASE Die("panic") /\ UNCHANGED disk
    BY <2>1, ChainInvDies
  <2>2. CASE ~ (Die("panic") /\ UNCHANGED disk)
    <3>1. /\ Genesis \in incomingBlocks' /\ tipOfSerializedChain' = NoBlock
          /\ proc' = "up" /\ UNCHANGED disk
      BY <1>1, <1>4, <2>2 DEF LoadUninitialized, addBlockUnsafe
    <3>2. WholeOnDisk'
      BY <3>1, WholeOnDiskUnchanged DEF disk
    <3>3. QED
      BY <3>1, <3>2 DEF ChainInv, TipIsLastWritten, WholeOnDisk
  <2>3. QED
    BY <2>1, <2>2
<1>5. QED
  BY <1>2, <1>3, <1>4 DEF Load

LEMMA ChainInvStep ==
  ASSUME PruneHeights = {}, ~ DiskCanFail, BufferInv, ChainInv, [Next]_vars
  PROVE  ChainInv'
<1>1. ASSUME UNCHANGED <<tipOfSerializedChain, disk, proc>>,
             incomingBlocks \subseteq incomingBlocks',
             proc \in {"down", "opening"} => UNCHANGED incomingBlocks
      PROVE  ChainInv'
  <2>1. WholeOnDisk'
    BY <1>1, WholeOnDiskUnchanged DEF disk
  <2>2. QED
    BY <1>1, <2>1 DEF ChainInv, TipIsLastWritten, WholeOnDisk, disk, chunkBuckets
<1>2. ASSUME NEW b \in Blocks, AddBlock(b) PROVE ChainInv'
  BY <1>1, <1>2 DEF AddBlock, addBlockUnsafe, Running
<1>3. ASSUME NEW tx \in PoolTxs, AddTransaction(tx) PROVE ChainInv'
  BY <1>1, <1>3 DEF AddTransaction
<1>4. ASSUME NEW mtx \in PoolMTxs, AddMarkedTransaction(mtx) PROVE ChainInv'
  BY <1>1, <1>4 DEF AddMarkedTransaction
<1>5. ASSUME Run PROVE ChainInv'
  <2>1. CASE SerializationIsFatal
    BY <2>1, ChainInvDies DEF SerializationIsFatal
  <2>2. CASE ~ SerializationIsFatal
    <3>1. PICK c \in Chunks(incomingBlocks) : ChunkLeaves(c)
      BY <1>5, <2>2, RunCutsAChunk
    <3>2. proc \in {"up", "flushed"} /\ proc' = proc
      BY <1>5, <2>2 DEF Run, Running
    <3>3. QED
      BY <3>1, <3>2, ChainInvChunk
  <2>3. QED
    BY <2>1, <2>2
<1>6. ASSUME FlushSerialize PROVE ChainInv'
  <2>1. CASE SerializationIsFatal
    BY <2>1, ChainInvDies DEF SerializationIsFatal
  <2>2. CASE \E c \in Chunks(incomingBlocks) : ChunkLeaves(c) /\ proc' = "flushing"
    BY <1>6, <2>2, ChainInvChunk DEF FlushSerialize
  <2>3. CASE proc' = "flushing" /\ UNCHANGED <<memory, disk>>
    <3>1. WholeOnDisk'
      BY <2>3, WholeOnDiskUnchanged DEF disk
    <3>2. proc = "up"
      BY <1>6 DEF FlushSerialize
    <3>3. QED
      BY <2>3, <3>1, <3>2 DEF ChainInv, TipIsLastWritten, WholeOnDisk, memory, disk, chunkBuckets
  <2>4. QED
    BY <1>6, <2>1, <2>2, <2>3, FlushCutsAChunk
<1>7. ASSUME FlushChainstate PROVE ChainInv'
  <2>1. /\ proc = "flushing" /\ proc' = "flushed"
        /\ UNCHANGED <<tipOfSerializedChain, incomingBlocks, chunkBuckets>>
    BY <1>7 DEF FlushChainstate, memory
  <2>2. WholeOnDisk'
    BY <2>1, WholeOnDiskUnchanged
  <2>3. QED
    BY <2>1, <2>2 DEF ChainInv, TipIsLastWritten, WholeOnDisk, chunkBuckets
<1>8. ASSUME CloseDatabase PROVE ChainInv'
  BY <1>8, ChainInvDies DEF CloseDatabase
<1>9. ASSUME NEW drop \in BOOLEAN, StartOpen(drop) PROVE ChainInv'
  BY <1>9, WholeOnDiskUnchanged
  DEF StartOpen, EmptyMemory, ChainInv, TipIsLastWritten, WholeOnDisk
<1>10. ASSUME Load PROVE ChainInv'
  BY <1>10, ChainInvLoad
<1>11. ASSUME Crash PROVE ChainInv'
  BY <1>11, ChainInvDies DEF Crash
<1>12. ASSUME UNCHANGED vars PROVE ChainInv'
  BY <1>1, <1>12 DEF vars, memory
<1>13. QED
  BY <1>2, <1>3, <1>4, <1>5, <1>6, <1>7, <1>8, <1>9, <1>10, <1>11, <1>12
  DEF Next, Ingest, Close, Open

LEMMA Invariants ==
  ASSUME PruneHeights = {}, ~ DiskCanFail
  PROVE  Spec => [](BufferInv /\ ChainInv)
<1>1. BufferInv /\ ChainInv /\ [Next]_vars => BufferInv' /\ ChainInv'
  BY BufferInvStep, ChainInvStep
<1>2. QED
  BY <1>1, BufferInvInit, ChainInvInit, PTL DEF Spec

\* Whatever forks, gaps and redeliveries the peers sent and wherever the process
\* died, from the last written block down to the genesis block every height can
\* be read from the disk and its blocks are parent and child.
\* (serializeBlocks, orderedPairCheck, Open.)
THEOREM ChainWhole ==
  ASSUME PruneHeights = {}, ~ DiskCanFail
  PROVE  Spec => []SerializedChainIsWhole
<1>1. ChainInv => SerializedChainIsWhole
  BY DEF ChainInv
<1>2. QED
  BY <1>1, Invariants, PTL

\* The tip that serialization continues is the one the disk names.
\* (runSerialization sets it outside the transaction, Open restores it.)
THEOREM TipWritten ==
  ASSUME PruneHeights = {}, ~ DiskCanFail
  PROVE  Spec => []TipIsLastWritten
<1>1. ChainInv => TipIsLastWritten
  BY DEF ChainInv
<1>2. QED
  BY <1>1, Invariants, PTL

-----------------------------------------------------------------------------
(* Steps *)

LEMMA ClimbStep ==
  ASSUME BufferInv, [Next]_vars, tipOfSerializedChain # NoBlock,
         tipOfSerializedChain' \notin {NoBlock, tipOfSerializedChain}
  PROVE  Height[tipOfSerializedChain'] = Height[tipOfSerializedChain] + AncientChunkSize
<1>1. proc \notin {"down", "opening", "pruned"}
  BY DEF BufferInv
<1>2. ASSUME NEW c \in Chunks(incomingBlocks), ChunkLeaves(c)
      PROVE  Height[tipOfSerializedChain'] = Height[tipOfSerializedChain] + AncientChunkSize
  <2>1. c \in ChunkShape /\ ChunkIsValid(c)
    BY <1>2, ChunkType DEF ChunkLeaves, BufferInv, TypeOK, MemoryTypeOK
  <2>2. Height[c[AncientChunkSize]] = Height[c[1]] + AncientChunkSize - 1
    BY <2>1, ChunkHeights, SizesAssumption
  <2>3. Height[c[1]] - 1 = Height[tipOfSerializedChain]
    BY <2>1 DEF ChunkIsValid, OrderedBlockPairIsValid
  <2>4. Height[c[1]] \in Nat /\ Height[tipOfSerializedChain] \in Nat /\ AncientChunkSize \in Nat
    BY <2>1, SizesAssumption, BlocksAssumption
    DEF ChunkShape, BufferInv, TypeOK, MemoryTypeOK, BlockOrNil
  <2>5. QED
    BY <1>2, <2>2, <2>3, <2>4 DEF ChunkLeaves
<1>3. ~ \E how : Die(how)
  BY DEF Die, EmptyMemory
<1>4. Run \/ FlushSerialize
  BY <1>1, <1>3
  DEF Next, Ingest, Close, Open, AddBlock, AddTransaction, AddMarkedTransaction,
      FlushChainstate, CloseDatabase, StartOpen, PruneDatabase, Load, Crash, vars, memory
<1>5. QED
  BY <1>2, <1>3, <1>4, RunCutsAChunk, FlushCutsAChunk DEF SerializationIsFatal, memory

\* The serialized tip moves up by exactly one chunk, whatever the disk and the
\* flags do.  (runSerialization.)
THEOREM TipClimbs == Spec => TipClimbsByChunks
<1>1. BufferInv /\ [Next]_vars =>
        [tipOfSerializedChain # NoBlock /\ tipOfSerializedChain' \notin {NoBlock, tipOfSerializedChain}
           => Height[tipOfSerializedChain'] = Height[tipOfSerializedChain] + AncientChunkSize]_vars
  BY ClimbStep
<1>2. QED
  BY <1>1, BufferInvInit, BufferInvStep, PTL DEF Spec, TipClimbsByChunks

LEMMA AcceptedStep ==
  ASSUME PruneHeights = {}, ~ DiskCanFail, BufferInv, ChainInv, [Next]_vars, proc' # "down"
  PROVE  \A b \in incomingBlocks : Retrievable(b)'
<1>1. CASE incomingBlocks \subseteq incomingBlocks'
  BY <1>1 DEF Retrievable
<1>2. ASSUME NEW c \in Chunks(incomingBlocks), ChunkLeaves(c)
      PROVE  \A b \in incomingBlocks : Retrievable(b)'
  <2>1. c \in ChunkShape /\ ChunkIsValid(c) /\ serializeBlocks(c)
    BY <1>2, ChunkType DEF ChunkLeaves, BufferInv, TypeOK, MemoryTypeOK
  <2>2. \A i \in 1..AncientChunkSize : Stored(c[i])'
    BY <2>1, ChunkWritten
  <2>3. \A b \in Range(c) : Stored(b)'
    BY <2>1, <2>2 DEF ChunkShape, Range
  <2>4. incomingBlocks' = incomingBlocks \ Range(c)
    BY <1>2 DEF ChunkLeaves
  <2>5. QED
    BY <2>3, <2>4 DEF Retrievable
<1>3. ~ \E how : Die(how)
  BY DEF Die
<1>4. CASE proc \in {"down", "opening"}
  BY <1>4 DEF ChainInv
<1>5. CASE proc \notin {"down", "opening"} /\ ~ Run /\ ~ FlushSerialize
  <2>1. incomingBlocks \subseteq incomingBlocks'
    BY <1>3, <1>5
    DEF Next, Ingest, Close, Open, AddBlock, addBlockUnsafe, AddTransaction,
        AddMarkedTransaction, FlushChainstate, CloseDatabase, StartOpen, PruneDatabase,
        Load, Crash, vars, memory, ChainInv
  <2>2. QED
    BY <1>1, <2>1
<1>6. CASE Run \/ FlushSerialize
  BY <1>1, <1>2, <1>3, <1>6, RunCutsAChunk, FlushCutsAChunk DEF SerializationIsFatal, memory
<1>7. QED
  BY <1>4, <1>5, <1>6

\* No block that AddBlock accepted is lost while the process lives: it is in
\* memory or in a chunk that can be read.  (AddBlock, runSerialization.)
THEOREM AcceptedStay ==
  ASSUME PruneHeights = {}, ~ DiskCanFail
  PROVE  Spec => AcceptedBlocksStay
<1>1. (BufferInv /\ ChainInv) /\ [Next]_vars =>
        [proc' # "down" => \A b \in incomingBlocks : Retrievable(b)']_vars
  BY AcceptedStep
<1>2. Spec => [](BufferInv /\ ChainInv)
  BY Invariants
<1>3. QED
  BY <1>1, <1>2, PTL DEF Spec, AcceptedBlocksStay

-----------------------------------------------------------------------------
(* The indexes in memory *)

LEMMA SerializationIndexes ==
  ASSUME BufferInv, IndexesLeadToBlocks, runSerialization
  PROVE  IndexesLeadToBlocks'
<1> DEFINE all == incomingBlocks \cup toSerialize
           byHeight == Drop(incomingBlocksByHeight, Heights(incomingBlocks))
           byTx == Drop(incomingBlocksByTx, TxsIn(incomingBlocks))
<1>1. DOMAIN byHeight = {} /\ DOMAIN byTx = {}
  BY DEF IndexesLeadToBlocks, Drop, Restrict, Heights, TxsIn
<1>2. CASE incomingBlocksByHeight' = byHeight /\ incomingBlocksByTx' = byTx
  BY <1>1, <1>2 DEF IndexesLeadToBlocks
<1>3. ASSUME NEW rest, rest \subseteq Blocks, incomingBlocks' = rest,
             NEW f \in HeightIndexes(rest, BlockOrderingRule),
             incomingBlocksByHeight' = Put(byHeight, f),
             NEW g \in TxIndexes(rest, BlockOrderingRule),
             incomingBlocksByTx' = Put(byTx, g)
      PROVE  IndexesLeadToBlocks'
  <2>1. /\ DOMAIN Put(byHeight, f) = Heights(rest)
        /\ \A h \in Heights(rest) : Put(byHeight, f)[h] = f[h]
    BY <1>1 DEF Put, HeightIndexes
  <2>2. \A h \in Heights(rest) : f[h] \in rest /\ Height[f[h]] = h
    BY DEF HeightIndexes
  <2>3. /\ DOMAIN Put(byTx, g) = TxsIn(rest)
        /\ \A t \in TxsIn(rest) : Put(byTx, g)[t] = g[t]
    BY <1>1 DEF Put, TxIndexes
  <2>4. \A t \in TxsIn(rest) : g[t] \in rest /\ t \in TxsOf[g[t]]
    BY DEF TxIndexes
  <2> HIDE DEF byHeight, byTx
  <2>5. QED
    BY <1>3, <2>1, <2>2, <2>3, <2>4 DEF IndexesLeadToBlocks
<1>4. all \subseteq Blocks
  BY DEF BufferInv, TypeOK, MemoryTypeOK
<1>5. CASE \E c \in Chunks(all) :
             LET rest == all \ Range(c) IN
             /\ incomingBlocks' = rest
             /\ \E f \in HeightIndexes(rest, BlockOrderingRule) :
                  incomingBlocksByHeight' = Put(byHeight, f)
             /\ \E f \in TxIndexes(rest, BlockOrderingRule) :
                  incomingBlocksByTx' = Put(byTx, f)
  <2> HIDE DEF all, byHeight, byTx
  <2>1. PICK c \in Chunks(all) :
             /\ incomingBlocks' = all \ Range(c)
             /\ \E f \in HeightIndexes(all \ Range(c), BlockOrderingRule) :
                  incomingBlocksByHeight' = Put(byHeight, f)
             /\ \E f \in TxIndexes(all \ Range(c), BlockOrderingRule) :
                  incomingBlocksByTx' = Put(byTx, f)
    BY <1>5
  <2>2. all \ Range(c) \subseteq Blocks
    BY <1>4
  <2>3. QED
    BY <1>3, <2>1, <2>2
<1>6. QED
  BY <1>2, <1>5 DEF runSerialization

LEMMA addBlockUnsafeIndexes ==
  ASSUME TypeOK, IndexesLeadToBlocks, NEW b \in Blocks, addBlockUnsafe(b)
  PROVE  IndexesLeadToBlocks'
<1> DEFINE hs == [h \in {Height[b]} |-> b]
           ts == [t \in TxsOf[b] |-> b]
<1>1. /\ incomingBlocks' = incomingBlocks \cup {b}
      /\ incomingBlocksByHeight' = Put(incomingBlocksByHeight, hs)
      /\ incomingBlocksByTx' = Put(incomingBlocksByTx, ts)
  BY DEF addBlockUnsafe
<1>2. \A h \in DOMAIN hs : hs[h] = b /\ h = Height[b]
  OBVIOUS
<1>3. \A t \in DOMAIN ts : ts[t] = b /\ t \in TxsOf[b]
  OBVIOUS
<1> HIDE DEF hs, ts
<1>4. QED
  BY <1>1, <1>2, <1>3, PutLookup DEF IndexesLeadToBlocks

\* Open purges from the indexes what it purges from memory.
LEMMA LoadIndexes ==
  ASSUME LoadChainstate
  PROVE  IndexesLeadToBlocks'
<1> DEFINE stale == StaleIn(incomingBlocks \cup chainstate.blocks)
           loaded == chainstate.blocks \ incomingBlocks
<1>1. incomingBlocks' = (incomingBlocks \cup chainstate.blocks) \ stale
  BY DEF LoadChainstate
<1>2. IndexesAfterLoad(loaded, stale)
  BY DEF LoadChainstate
<1> HIDE DEF stale
<1>3. \A h \in DOMAIN incomingBlocksByHeight' :
        /\ incomingBlocksByHeight'[h] \in incomingBlocks'
        /\ Height[incomingBlocksByHeight'[h]] = h
  <2>1. PICK f \in HeightIndexes(loaded, LoadsBefore) :
          incomingBlocksByHeight' = Drop(f, Heights(stale))
    BY <1>2 DEF IndexesAfterLoad
  <2>2. \A h \in DOMAIN f : f[h] \in loaded /\ Height[f[h]] = h
    BY DEF HeightIndexes
  <2>3. \A h \in DOMAIN Drop(f, Heights(stale)) :
          h \in DOMAIN f \ Heights(stale) /\ Drop(f, Heights(stale))[h] = f[h]
    BY DEF Drop, Restrict
  <2>4. \A b \in stale : Height[b] \in Heights(stale)
    BY DEF Heights
  <2>5. QED
    BY <1>1, <2>1, <2>2, <2>3, <2>4
<1>4. \A t \in DOMAIN incomingBlocksByTx' :
        /\ incomingBlocksByTx'[t] \in incomingBlocks'
        /\ t \in TxsOf[incomingBlocksByTx'[t]]
  <2>1. PICK f \in TxIndexes(loaded, LoadsBefore) :
          incomingBlocksByTx' = Drop(f, TxsIn(stale))
    BY <1>2 DEF IndexesAfterLoad
  <2>2. \A t \in DOMAIN f : f[t] \in loaded /\ t \in TxsOf[f[t]]
    BY DEF TxIndexes
  <2>3. \A t \in DOMAIN Drop(f, TxsIn(stale)) :
          t \in DOMAIN f \ TxsIn(stale) /\ Drop(f, TxsIn(stale))[t] = f[t]
    BY DEF Drop, Restrict
  <2>4. \A b \in stale : TxsOf[b] \subseteq TxsIn(stale)
    BY DEF TxsIn
  <2>5. QED
    BY <1>1, <2>1, <2>2, <2>3, <2>4
<1>5. QED
  BY <1>3, <1>4 DEF IndexesLeadToBlocks

LEMMA IndexesInvStep ==
  ASSUME BufferInv, IndexesInv, [Next]_vars
  PROVE  IndexesInv'
<1>1. ASSUME NEW how, Die(how) PROVE IndexesInv'
  BY <1>1 DEF Die, EmptyMemory, IndexesInv, IndexesLeadToBlocks
<1>2. ASSUME UNCHANGED <<incomingBlocks, indexes>>,
             proc' \in {"down", "opening", "pruned"} => proc \in {"down", "opening", "pruned"}
      PROVE  IndexesInv'
  BY <1>2 DEF IndexesInv, IndexesLeadToBlocks, indexes
<1>3. ASSUME NEW b \in Blocks, AddBlock(b) PROVE IndexesInv'
  BY <1>3, addBlockUnsafeIndexes DEF AddBlock, Running, IndexesInv, BufferInv
<1>4. ASSUME NEW tx \in PoolTxs, AddTransaction(tx) PROVE IndexesInv'
  BY <1>2, <1>4 DEF AddTransaction
<1>5. ASSUME NEW mtx \in PoolMTxs, AddMarkedTransaction(mtx) PROVE IndexesInv'
  BY <1>2, <1>5 DEF AddMarkedTransaction
<1>6. ASSUME Run PROVE IndexesInv'
  BY <1>1, <1>6, SerializationIndexes DEF Run, Running, SerializationIsFatal, IndexesInv
<1>7. ASSUME FlushSerialize PROVE IndexesInv'
  BY <1>1, <1>2, <1>7, SerializationIndexes
  DEF FlushSerialize, SerializationIsFatal, IndexesInv, memory
<1>8. ASSUME FlushChainstate PROVE IndexesInv'
  BY <1>1, <1>2, <1>8 DEF FlushChainstate, memory
<1>9. ASSUME CloseDatabase PROVE IndexesInv'
  BY <1>1, <1>9 DEF CloseDatabase
<1>10. ASSUME NEW drop \in BOOLEAN, StartOpen(drop) PROVE IndexesInv'
  BY <1>10 DEF StartOpen, EmptyMemory, IndexesInv, IndexesLeadToBlocks
<1>11. ASSUME NEW h \in PruneHeights, PruneDatabase(h) PROVE IndexesInv'
  <2>1. CASE Die("panic")
    BY <1>1, <2>1
  <2>2. CASE ~ Die("panic")
    BY <1>11, <2>2 DEF PruneDatabase, IndexesInv, IndexesLeadToBlocks, indexes
  <2>3. QED
    BY <2>1, <2>2
<1>12. ASSUME Load PROVE IndexesInv'
  <2>1. CASE LoadChainstate
    BY <2>1, LoadIndexes DEF LoadChainstate, IndexesInv
  <2>2. CASE LoadPanics
    BY <1>1, <2>2 DEF LoadPanics
  <2>3. CASE LoadUninitialized
    BY <1>1, <2>3, addBlockUnsafeIndexes, BlocksAssumption
    DEF LoadUninitialized, IndexesInv, BufferInv
  <2>4. QED
    BY <1>12, <2>1, <2>2, <2>3 DEF Load
<1>13. ASSUME Crash PROVE IndexesInv'
  BY <1>1, <1>13 DEF Crash
<1>14. ASSUME UNCHANGED vars PROVE IndexesInv'
  BY <1>2, <1>14 DEF vars, memory
<1>15. QED
  BY <1>3, <1>4, <1>5, <1>6, <1>7, <1>8, <1>9, <1>10, <1>11, <1>12, <1>13, <1>14
  DEF Next, Ingest, Close, Open

\* What the indexes in memory lead to is in memory, at that height and with that
\* transaction, through serialization, pruning, failed writes and restarts.
\* (addBlockUnsafe, runSerialization, Open, GetBlockByHeight, GetBlockByTx.)
THEOREM IndexesAreTrue == Spec => []IndexesLeadToBlocks
<1>1. Init => IndexesInv
  BY DEF Init, IndexesInv, IndexesLeadToBlocks
<1>2. BufferInv /\ IndexesInv /\ [Next]_vars => IndexesInv'
  BY IndexesInvStep
<1>3. IndexesInv => IndexesLeadToBlocks
  BY DEF IndexesInv
<1>4. QED
  BY <1>1, <1>2, <1>3, BufferInvInit, BufferInvStep, PTL DEF Spec

-----------------------------------------------------------------------------
(* The file *)

\* A chunk that passes orderedPairCheck begins where the tip ends, or at the
\* genesis block.
LEMMA ChunkContinues ==
  ASSUME BufferInv, BucketsInv, proc \in {"up", "flushing", "flushed"},
         NEW c \in Chunks(incomingBlocks), ChunkIsValid(c)
  PROVE  c[1] = Genesis \/ OrderedBlockPairIsValid(PreviousHash[c[1]], c[1])
<1>1. CASE tipOfSerializedChain = NoBlock
  BY <1>1, FirstChunkStartsAtGenesis DEF BucketsInv, BufferInv, TypeOK, MemoryTypeOK
<1>2. CASE tipOfSerializedChain # NoBlock
  BY <1>2 DEF ChunkIsValid, OrderedBlockPairIsValid
<1>3. QED
  BY <1>1, <1>2

LEMMA BucketsInvChunk ==
  ASSUME BufferInv, BucketsInv, proc \in {"up", "flushing", "flushed"},
         NEW c \in Chunks(incomingBlocks), ChunkLeaves(c)
  PROVE  BucketsInv'
<1>1. c \in ChunkShape /\ ChunkIsValid(c) /\ serializeBlocks(c)
  BY ChunkType DEF ChunkLeaves, BufferInv, TypeOK, MemoryTypeOK
<1>2. tipOfSerializedChain' # NoBlock
  BY <1>1, SizesAssumption, BlocksAssumption DEF ChunkLeaves, ChunkShape
<1>3. CASE UNCHANGED chunkBuckets
  BY <1>2, <1>3 DEF BucketsInv, Stored, chunkBuckets
<1>4. CASE ~ UNCHANGED chunkBuckets
  <2> DEFINE n == AncientChunkSize
             Linked(d) == \A i \in 1..(n - 1) : OrderedBlockPairIsValid(d[i], d[i + 1])
             Begins(k) == k = Genesis \/ OrderedBlockPairIsValid(PreviousHash[k], k)
  <2>1. /\ \A i \in 1..n : /\ height2hash'[Height[c[i]]] = c[i]
                           /\ Stored(c[i])'
        /\ \A h \in DOMAIN height2hash \ Heights(Range(c)) : height2hash'[h] = height2hash[h]
        /\ \A b \in Blocks \ Range(c) : Stored(b) /\ hash2chunk[b] # c[1] => Stored(b)'
        /\ DOMAIN height2hash' = DOMAIN height2hash \cup Heights(Range(c))
    BY <1>1, <1>4, ChunkWritten
  <2>2. \A k \in DOMAIN blockChunks' :
          \/ k = c[1] /\ blockChunks'[k] = c
          \/ k # c[1] /\ k \in DOMAIN blockChunks /\ blockChunks'[k] = blockChunks[k]
    BY <1>1, <1>4, ChunkWritten
  <2>3. \A k \in DOMAIN blockChunks :
          blockChunks[k][1] = k /\ Linked(blockChunks[k]) /\ Begins(k)
    BY DEF BucketsInv
  <2>4. Linked(c) /\ Begins(c[1])
    BY <1>1, ChunkContinues DEF ChunkIsValid
  <2>5. \A k \in DOMAIN blockChunks' :
          blockChunks'[k][1] = k /\ Linked(blockChunks'[k]) /\ Begins(k)
    <3> HIDE DEF Linked, Begins
    <3> QED
      BY <2>2, <2>3, <2>4
  <2>6. ASSUME NEW h \in DOMAIN height2hash'
        PROVE  Height[height2hash'[h]] = h /\ Stored(height2hash[h])'
    <3>1. CASE h \in Heights(Range(c))
      <4>1. PICK i \in 1..n : h = Height[c[i]]
        BY <1>1, <3>1 DEF Heights, ChunkShape, Range
      <4>2. height2hash'[h] = c[i] /\ Stored(c[i])'
        BY <2>1, <4>1
      <4>3. QED
        BY <4>1, <4>2 DEF Stored
    <3>2. CASE h \notin Heights(Range(c))
      <4> DEFINE d == blockChunks[c[1]]
      <4>0. PICK b : b = height2hash[h]
        OBVIOUS
      <4>1. h \in DOMAIN height2hash /\ height2hash'[h] = b
        BY <2>1, <3>2, <4>0
      <4>2. Height[b] = h /\ Stored(b) /\ b \in Blocks \ Range(c)
        <5>1. Height[b] = h /\ Stored(b)
          BY <4>0, <4>1 DEF BucketsInv
        <5>2. b \in Blocks
          BY <4>0, <4>1 DEF BufferInv, TypeOK, ChunkBucketsTypeOK, IsMap
        <5>3. QED
          BY <3>2, <5>1, <5>2 DEF Heights
      <4>3. ASSUME hash2chunk[b] = c[1] PROVE FALSE
        <5>1. c[1] \in DOMAIN blockChunks /\ b \in Range(d)
          BY <4>2, <4>3 DEF Stored
        <5>2. d \in ChunkShape
          BY <5>1 DEF BufferInv, TypeOK, ChunkBucketsTypeOK, IsMap
        <5>3. d[1] = c[1] /\ Linked(d)
          BY <2>3, <5>1
        <5>4. PICK i \in 1..n : b = d[i]
          BY <5>1, <5>2 DEF ChunkShape, Range
        <5>5. Height[d[i]] = Height[d[1]] + i - 1
          BY <5>2, <5>3, LinkedHeights
        <5>6. Height[c[i]] = Height[c[1]] + i - 1
          BY <1>1, ChunkHeights
        <5>7. h = Height[c[i]]
          BY <4>2, <5>3, <5>4, <5>5, <5>6
        <5>8. c[i] \in Range(c)
          BY <1>1 DEF ChunkShape, Range
        <5>9. QED
          BY <3>2, <5>7, <5>8 DEF Heights
      <4>4. Stored(b)'
        BY <2>1, <4>2, <4>3
      <4>5. QED
        BY <4>1, <4>2, <4>4 DEF Stored
    <3>3. QED
      BY <3>1, <3>2
  <2>7. QED
    BY <1>2, <2>5, <2>6 DEF BucketsInv
<1>5. QED
  BY <1>3, <1>4

\* Pruning takes out of the index whatever leads to a chunk it touches.
LEMMA BucketsInvPruned ==
  ASSUME BufferInv, BucketsInv, NEW to \in PruneHeights, PruneDatabase(to), ~ Die("panic"),
         ~ (DiskCanFail /\ UNCHANGED chunkBuckets)
  PROVE  BucketsInv'
<1> DEFINE visitedHeights == {h \in DOMAIN height2hash : h >= to}
           visited == {height2hash[h] : h \in visitedHeights}
           touched == {hash2chunk[height2hash[h]] : h \in visitedHeights}
<1>1. /\ \E kept : blockChunks' = Drop(blockChunks, touched \ {kept})
      /\ hash2chunk' = Drop(hash2chunk, visited)
      /\ height2hash' = Drop(height2hash, HeightsPruned(visitedHeights, touched))
      /\ proc' = "pruned"
  BY DEF PruneDatabase
<1>2. \A h \in DOMAIN height2hash :
        Height[height2hash[h]] = h /\ Stored(height2hash[h])
  BY DEF BucketsInv
<1>3. \A h \in DOMAIN height2hash' :
        /\ h \in DOMAIN height2hash \ HeightsPruned(visitedHeights, touched)
        /\ height2hash'[h] = height2hash[h]
  BY <1>1 DEF Drop, Restrict
<1>4. \A k \in DOMAIN blockChunks' : k \in DOMAIN blockChunks /\ blockChunks'[k] = blockChunks[k]
  BY <1>1 DEF Drop, Restrict
<1>5. \A k \in DOMAIN blockChunks \ touched :
        k \in DOMAIN blockChunks' /\ blockChunks'[k] = blockChunks[k]
  BY <1>1 DEF Drop, Restrict
<1>6. \A b \in DOMAIN hash2chunk \ visited :
        b \in DOMAIN hash2chunk' /\ hash2chunk'[b] = hash2chunk[b]
  BY <1>1 DEF Drop, Restrict
<1>7. ASSUME NEW h \in DOMAIN height2hash'
      PROVE  Height[height2hash'[h]] = h /\ Stored(height2hash[h])'
  <2> DEFINE b == height2hash[h]
             k == hash2chunk[b]
  <2>1. /\ h \in DOMAIN height2hash \ HeightsPruned(visitedHeights, touched)
        /\ height2hash'[h] = b
    BY <1>3
  <2>2. Height[b] = h /\ Stored(b)
    BY <1>2, <2>1
  <2>3. b \in DOMAIN hash2chunk /\ k \in DOMAIN blockChunks /\ b \in Range(blockChunks[k])
    BY <2>2 DEF Stored
  <2>4. k \notin touched
    <3>1. k \in touched => Height[b] \in HeightsPruned(visitedHeights, touched)
      BY <2>3 DEF HeightsPruned, Heights
    <3>2. QED
      BY <2>1, <2>2, <3>1
  <2>5. b \notin visited
    <3>1. ASSUME NEW g \in visitedHeights, b = height2hash[g] PROVE FALSE
      <4>1. g = h
        BY <1>2, <2>2, <3>1
      <4>2. QED
        BY <2>4, <4>1
    <3>2. QED
      BY <3>1
  <2>6. QED
    BY <1>5, <1>6, <2>1, <2>2, <2>3, <2>4, <2>5 DEF Stored
<1>8. QED
  BY <1>1, <1>4, <1>7 DEF BucketsInv

LEMMA BucketsInvStep ==
  ASSUME BufferInv, BucketsInv, [Next]_vars
  PROVE  BucketsInv'
<1>1. ASSUME UNCHANGED chunkBuckets,
             proc' \in {"up", "flushing", "flushed"} /\ tipOfSerializedChain' = NoBlock
               => Genesis \in incomingBlocks'
      PROVE  BucketsInv'
  BY <1>1 DEF BucketsInv, Stored, chunkBuckets
<1>2. ASSUME NEW how, Die(how), UNCHANGED disk PROVE BucketsInv'
  BY <1>1, <1>2 DEF Die, disk
<1>3. ASSUME UNCHANGED <<chunkBuckets, tipOfSerializedChain>>,
             incomingBlocks \subseteq incomingBlocks',
             proc \in {"up", "flushing", "flushed"}
      PROVE  BucketsInv'
  BY <1>1, <1>3 DEF BucketsInv
<1>4. ASSUME NEW b \in Blocks, AddBlock(b) PROVE BucketsInv'
  BY <1>3, <1>4 DEF AddBlock, addBlockUnsafe, Running, disk
<1>5. ASSUME NEW tx \in PoolTxs, AddTransaction(tx) PROVE BucketsInv'
  BY <1>3, <1>5 DEF AddTransaction, Running, disk
<1>6. ASSUME NEW mtx \in PoolMTxs, AddMarkedTransaction(mtx) PROVE BucketsInv'
  BY <1>3, <1>6 DEF AddMarkedTransaction, Running, disk
<1>7. ASSUME Run PROVE BucketsInv'
  <2>1. CASE SerializationIsFatal
    BY <1>2, <2>1 DEF SerializationIsFatal
  <2>2. CASE ~ SerializationIsFatal
    BY <1>7, <2>2, RunCutsAChunk, BucketsInvChunk DEF Run, Running
  <2>3. QED
    BY <2>1, <2>2
<1>8. ASSUME FlushSerialize PROVE BucketsInv'
  <2>1. proc = "up"
    BY <1>8 DEF FlushSerialize
  <2>2. CASE SerializationIsFatal
    BY <1>2, <2>2 DEF SerializationIsFatal
  <2>3. CASE \E c \in Chunks(incomingBlocks) : ChunkLeaves(c)
    BY <2>1, <2>3, BucketsInvChunk
  <2>4. CASE UNCHANGED <<memory, disk>>
    BY <1>3, <2>1, <2>4 DEF memory, disk
  <2>5. QED
    BY <1>8, <2>2, <2>3, <2>4, FlushCutsAChunk
<1>9. ASSUME FlushChainstate PROVE BucketsInv'
  BY <1>2, <1>3, <1>9 DEF FlushChainstate, memory
<1>10. ASSUME CloseDatabase PROVE BucketsInv'
  BY <1>2, <1>10 DEF CloseDatabase
<1>11. ASSUME NEW drop \in BOOLEAN, StartOpen(drop) PROVE BucketsInv'
  BY <1>1, <1>11 DEF StartOpen
<1>12. ASSUME NEW h \in PruneHeights, PruneDatabase(h) PROVE BucketsInv'
  <2>1. CASE Die("panic") /\ UNCHANGED disk
    BY <1>2, <2>1
  <2>2. CASE ~ Die("panic") /\ ~ UNCHANGED chunkBuckets
    BY <1>12, <2>2, BucketsInvPruned
  <2>3. CASE ~ Die("panic") /\ UNCHANGED chunkBuckets
    BY <1>1, <1>12, <2>3 DEF PruneDatabase
  <2>4. QED
    BY <1>12, <2>1, <2>2, <2>3 DEF PruneDatabase, Die
<1>13. ASSUME Load PROVE BucketsInv'
  <2>1. CASE LoadChainstate
    BY <1>1, <2>1 DEF LoadChainstate, disk
  <2>2. CASE LoadPanics
    BY <1>2, <2>2 DEF LoadPanics
  <2>3. CASE LoadUninitialized
    BY <1>1, <1>2, <2>3 DEF LoadUninitialized, addBlockUnsafe, disk
  <2>4. QED
    BY <1>13, <2>1, <2>2, <2>3 DEF Load
<1>14. ASSUME Crash PROVE BucketsInv'
  BY <1>2, <1>14 DEF Crash
<1>15. ASSUME UNCHANGED vars PROVE BucketsInv'
  BY <1>1, <1>15 DEF vars, memory, disk, BucketsInv
<1>16. QED
  BY <1>4, <1>5, <1>6, <1>7, <1>8, <1>9, <1>10, <1>11, <1>12, <1>13, <1>14, <1>15
  DEF Next, Ingest, Close, Open

LEMMA BucketsAreValid ==
  ASSUME BufferInv, BucketsInv
  PROVE  FullLocalValidation
<1> SUFFICES ASSUME NEW h \in DOMAIN height2hash
             PROVE  LET block == height2hash[h]
                        parent == PreviousHash[block]
                    IN  /\ Stored(block)
                        /\ parent \in Range(blockChunks[hash2chunk[block]]) \/ Stored(parent)
                             => OrderedBlockPairIsValid(parent, block)
  BY DEF FullLocalValidation
<1> DEFINE block == height2hash[h]
           parent == PreviousHash[block]
           k == hash2chunk[block]
           c == blockChunks[k]
<1>1. Stored(block)
  BY DEF BucketsInv
<1>2. k \in DOMAIN blockChunks /\ block \in Range(c)
  BY <1>1 DEF Stored
<1>3. c \in ChunkShape
  BY <1>2 DEF BufferInv, TypeOK, ChunkBucketsTypeOK, IsMap
<1>4. PICK i \in 1..AncientChunkSize : block = c[i]
  BY <1>2, <1>3 DEF ChunkShape, Range
<1>5. CASE i # 1
  <2>1. i - 1 \in 1..(AncientChunkSize - 1) /\ (i - 1) + 1 = i
    BY <1>5, SizesAssumption
  <2>2. OrderedBlockPairIsValid(c[i - 1], c[i])
    BY <1>2, <2>1 DEF BucketsInv
  <2>3. QED
    BY <1>1, <1>4, <2>2 DEF OrderedBlockPairIsValid
<1>6. CASE i = 1 /\ block # Genesis
  BY <1>1, <1>2, <1>4, <1>6 DEF BucketsInv
<1>7. CASE block = Genesis
  <2>1. parent = NoBlock /\ NoBlock \notin Blocks
    BY <1>7, BlocksAssumption
  <2>2. ASSUME NEW d \in DOMAIN blockChunks PROVE NoBlock \notin Range(blockChunks[d])
    <3>1. blockChunks[d] \in ChunkShape
      BY DEF BufferInv, TypeOK, ChunkBucketsTypeOK, IsMap
    <3>2. QED
      BY <2>1, <3>1 DEF ChunkShape, Range
  <2>3. QED
    BY <1>1, <1>2, <2>1, <2>2 DEF Stored
<1>8. QED
  BY <1>5, <1>6, <1>7

\* Full validation accepts every file that the store itself wrote, through
\* pruning to any height, failed writes and restarts.  (FullLocalValidation,
\* serializeBlocks, deleteBlocksAfter.)
THEOREM OwnFileIsAccepted == Spec => []ValidationAcceptsOwnFile
<1>1. Init => BucketsInv
  BY DEF Init, BucketsInv
<1>2. BufferInv /\ BucketsInv /\ [Next]_vars => BucketsInv'
  BY BucketsInvStep
<1>3. BufferInv /\ BucketsInv => ValidationAcceptsOwnFile
  BY BucketsAreValid DEF ValidationAcceptsOwnFile
<1>4. QED
  BY <1>1, <1>2, <1>3, BufferInvInit, BufferInvStep, PTL DEF Spec

=============================================================================
