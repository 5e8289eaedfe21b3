---------------------------- MODULE IBDSyncProofs ---------------------------
(***************************************************************************)
(* The initial block download: what the download thread and the message    *)
(* loop keep true of the work list, for every stride, batch and peer; that *)
(* no block is forgotten while peers of one height answer; and that what a *)
(* steady download gives the store never ends the process.                 *)
(***************************************************************************)
EXTENDS IBDSync, OverlineDBLogProofs

-----------------------------------------------------------------------------
(* Arithmetic *)

LEMMA ProductGrows ==
  ASSUME NEW a \in Int, NEW b \in Int, NEW m \in Nat, a <= b
  PROVE  a * m <= b * m
<1>1. b = a + (b - a) /\ b - a \in Nat
  OBVIOUS
<1>2. \A d \in Nat : a * m <= (a + d) * m
  <2> TAKE d \in Nat
  <2>1. (a + d) * m = a * m + d * m /\ d * m \in Nat /\ a * m \in Int
    OBVIOUS
  <2>2. QED
    BY <2>1
<1>3. QED
  BY <1>1, <1>2

LEMMA SmallerOfTwo ==
  ASSUME NEW a \in Int, NEW b \in Int
  PROVE  Min({a, b}) \in Int /\ Min({a, b}) <= a /\ Min({a, b}) <= b
<1>1. \E x \in {a, b} : \A y \in {a, b} : x <= y
  OBVIOUS
<1>2. QED
  BY <1>1 DEF Min

LEMMA Strides ==
  /\ blockStride \in Nat /\ batchStrides \in Nat /\ batchStrides >= 1
  /\ StrideCap \in Nat /\ StrideCap >= 1 /\ StrideCap % batchStrides = 0
BY SyncAssumption

\* A stride lies in its batch.
LEMMA StrideInBatch ==
  ASSUME iStride \in Nat, iStride >= 1, startingHeight \in Nat
  PROVE  /\ StrideLow \in Int /\ StrideHigh \in Int
         /\ StrideLow..(StrideHigh - 1) \subseteq BatchHeights
<1> DEFINE n == batchStrides
           i == iStride - 1
           b == i \div n
<1>1. i \in Nat /\ n \in Nat /\ n >= 1 /\ blockStride \in Nat
  BY Strides
<1>2. b \in Nat /\ b * n <= i /\ i + 1 <= (b + 1) * n
  BY <1>1
<1>3. /\ b * n \in Nat /\ (b + 1) * n \in Nat
  BY <1>1, <1>2
<1>4. /\ (b * n) * blockStride <= i * blockStride
      /\ (i + 1) * blockStride <= ((b + 1) * n) * blockStride
  BY <1>1, <1>2, <1>3, ProductGrows
<1> HIDE DEF b, i, n
<1>5. /\ StrideLow = i * blockStride + startingHeight + 1
      /\ StrideHigh = (i + 1) * blockStride + startingHeight + 1
      /\ BatchHeights = ((b * n) * blockStride + startingHeight + 1)
                          ..(((b + 1) * n) * blockStride + startingHeight)
  BY DEF StrideLow, StrideHigh, BatchHeights, Batch, b, i, n
<1>6. /\ i * blockStride \in Int /\ (i + 1) * blockStride \in Int
      /\ (b * n) * blockStride \in Int /\ ((b + 1) * n) * blockStride \in Int
  BY <1>1, <1>3
<1>7. QED
  BY <1>4, <1>5, <1>6

\* A stride that does not end its batch is followed by one of the same batch.
LEMMA NextInBatch ==
  ASSUME iStride \in 1..StrideCap, ~ BatchEnds
  PROVE  NextStride \in 1..StrideCap /\ (NextStride - 1) \div batchStrides = Batch
<1> DEFINE n == batchStrides
<1>1. n \in Nat /\ n >= 1 /\ iStride \in Nat /\ iStride >= 1 /\ iStride % n # 0
  BY Strides DEF BatchEnds
<1>2. iStride # StrideCap /\ NextStride = iStride + 1
  BY <1>1, Strides DEF NextStride, BatchEnds
<1>3. iStride \div n = (iStride - 1) \div n
  BY <1>1
<1>4. QED
  BY <1>1, <1>2, <1>3, Strides DEF Batch

LEMMA NextIsAStride ==
  ASSUME iStride \in 1..StrideCap
  PROVE  NextStride \in 1..StrideCap
BY Strides DEF NextStride

\* A retry goes back to the first stride of the batch.
LEMMA RetryInBatch ==
  ASSUME iStride \in 1..StrideCap, BatchEnds
  PROVE  /\ iStride - (batchStrides - 1) \in 1..StrideCap
         /\ (iStride - (batchStrides - 1) - 1) \div batchStrides = Batch
BY Strides DEF BatchEnds, Batch

-----------------------------------------------------------------------------
(* The work list *)

LEMMA StrideInvInit == SyncInit => StrideInv
BY Strides, SyncAssumption DEF SyncInit, StrideInv, OneBatchAtATime

LEMMA StrideInvStep ==
  ASSUME StrideInv, [SyncNext]_allVars
  PROVE  StrideInv'
<1>1. ASSUME UNCHANGED <<iStride, startingHeight, ibdPc, localHandlers>>,
             AllowedBlocks' \subseteq AllowedBlocks, peerHeight' \in [Peers -> Nat]
      PROVE  StrideInv'
  <2>1. BatchHeights' = BatchHeights /\ BatchEnds' = BatchEnds
    BY <1>1 DEF BatchHeights, Batch, BatchEnds
  <2>2. QED
    BY <1>1, <2>1 DEF StrideInv, OneBatchAtATime
<1>2. CASE LoopEnds
  BY <1>2 DEF LoopEnds, StrideInv, OneBatchAtATime, netVars
<1>3. CASE StartStride
  BY <1>3 DEF StartStride, StrideInv, OneBatchAtATime, netVars, BatchHeights, Batch
<1>4. ASSUME NEW p \in Peers, AskPeer(p) PROVE StrideInv'
  <2> DEFINE high == Min({StrideHigh, localHandlers[p]})
  <2>1. /\ UNCHANGED <<iStride, startingHeight, peerHeight, localHandlers, ibdPc>> /\ ibdPc = "ask"
        /\ \/ AllowedBlocks' = AllowedBlocks
           \/ AllowedBlocks' = AllowedBlocks \cup StrideLow..(high - 1)
    BY <1>4 DEF AskPeer, netVars
  <2>2. StrideLow..(high - 1) \subseteq BatchHeights
    <3>1. iStride \in Nat /\ iStride >= 1 /\ localHandlers[p] \in Nat /\ startingHeight \in Nat
      BY Strides DEF StrideInv
    <3>2. high \in Int /\ high <= StrideHigh
      <4>1. StrideHigh \in Int /\ localHandlers[p] \in Int
        BY <3>1, StrideInBatch
      <4>2. QED
        BY <4>1, SmallerOfTwo
    <3> HIDE DEF high
    <3>3. QED
      BY <3>1, <3>2, StrideInBatch
  <2> HIDE DEF high
  <2>3. BatchHeights' = BatchHeights
    BY <2>1 DEF BatchHeights, Batch
  <2>4. QED
    BY <2>1, <2>2, <2>3 DEF StrideInv, OneBatchAtATime
<1>5. CASE AfterPeers
  <2>1. /\ UNCHANGED <<AllowedBlocks, startingHeight, peerHeight, localHandlers>> /\ ibdPc = "ask"
    BY <1>5 DEF AfterPeers, netVars
  <2>2. CASE BatchEnds /\ ibdPc' = "wait" /\ iStride' = iStride
    BY <2>1, <2>2 DEF StrideInv, OneBatchAtATime, BatchHeights, Batch, BatchEnds
  <2>3. CASE ~ BatchEnds /\ ibdPc' = "top" /\ iStride' = NextStride
    <3>1. Batch' = Batch /\ iStride' \in 1..StrideCap
      BY <2>3, NextInBatch DEF StrideInv, Batch
    <3>2. QED
      BY <2>1, <2>3, <3>1 DEF StrideInv, OneBatchAtATime, BatchHeights
  <2>4. QED
    BY <1>5, <2>2, <2>3 DEF AfterPeers
<1>6. CASE BatchDone
  BY <1>6, NextIsAStride DEF BatchDone, StrideInv, OneBatchAtATime, netVars
<1>7. CASE BatchTimesOut
  <2>1. Batch' = Batch /\ iStride' \in 1..StrideCap
    BY <1>7, RetryInBatch DEF BatchTimesOut, StrideInv, Batch
  <2>2. QED
    BY <1>7, <2>1 DEF BatchTimesOut, StrideInv, OneBatchAtATime, BatchHeights, netVars
<1>8. CASE ResetWorkList
  BY <1>8 DEF ResetWorkList, StrideInv, OneBatchAtATime, netVars
<1>9. ASSUME NEW low, NEW high, HandleData(low, high) PROVE StrideInv'
  BY <1>1, <1>9 DEF HandleData, StrideInv, netVars, threadVars
<1>10. ASSUME NEW p \in Peers, NEW h \in PeerHeights, HandleBlock(p, h) PROVE StrideInv'
  <2>1. h \in Nat
    BY SyncAssumption
  <2>2. peerHeight' \in [Peers -> Nat]
    BY <1>10, <2>1 DEF HandleBlock, StrideInv
  <2>3. QED
    BY <1>1, <1>10, <2>2 DEF HandleBlock, threadVars
<1>11. CASE BeginPass \/ AddNextBlock \/ EndPass \/ Ingestion \/ UNCHANGED allVars
  BY <1>1, <1>11
  DEF BeginPass, AddNextBlock, EndPass, Ingestion, allVars, syncVars, StrideInv, netVars, threadVars
<1>12. QED
  BY <1>2, <1>3, <1>4, <1>5, <1>6, <1>7, <1>8, <1>9, <1>10, <1>11
  DEF SyncNext, Thread, TakeData, TakeBlock

\* Whatever the peers answer, in whatever order and however late, and however often
\* a batch is asked for again: only the blocks of one batch are ever awaited.
\* (The download thread and ibdWorkList.AllowedBlocks.)
THEOREM OneBatch == SyncSpec => []OneBatchAtATime
<1>1. StrideInv => OneBatchAtATime
  BY DEF StrideInv
<1>2. QED
  BY <1>1, StrideInvInit, StrideInvStep, PTL DEF SyncSpec

-----------------------------------------------------------------------------
(* The store that the download starts with *)

LEMMA PeerChainHeights ==
  \A h \in 1..Len(PeerChain) : PeerChain[h] \in Blocks /\ Height[PeerChain[h]] = h
<1> DEFINE T == {h \in 1..Len(PeerChain) : Height[PeerChain[h]] # h}
<1>1. /\ Len(PeerChain) \in Nat /\ PeerChain[1] = Genesis
      /\ \A h \in 1..Len(PeerChain) : PeerChain[h] \in Blocks
      /\ \A h \in 2..Len(PeerChain) : OrderedBlockPairIsValid(PeerChain[h - 1], PeerChain[h])
  BY SyncAssumption
<1>2. \A h \in 1..Len(PeerChain) : Height[PeerChain[h]] \in Nat
  BY <1>1, BlocksAssumption
<1>3. ASSUME T # {} PROVE FALSE
  <2>1. PICK n \in T : \A m \in T : n <= m
    <3>1. T \subseteq Nat
      BY <1>1
    <3> HIDE DEF T
    <3>2. QED
      BY <1>3, <3>1, LeastNatural
  <2>2. n \in 1..Len(PeerChain) /\ Height[PeerChain[n]] # n
    OBVIOUS
  <2>3. n # 1
    BY <1>1, <2>2, BlocksAssumption
  <2>4. n \in 2..Len(PeerChain) /\ n - 1 \in 1..Len(PeerChain) /\ n - 1 \notin T
    BY <1>1, <2>1, <2>2, <2>3
  <2>5. Height[PeerChain[n - 1]] = n - 1
    BY <2>4
  <2>6. Height[PeerChain[n]] - 1 = Height[PeerChain[n - 1]]
    BY <1>1, <2>4 DEF OrderedBlockPairIsValid
  <2>7. QED
    BY <1>1, <1>2, <2>2, <2>4, <2>5, <2>6
<1>4. QED
  BY <1>1, <1>3

LEMMA DivMod ==
  ASSUME NEW a \in Nat, NEW n \in Nat, n >= 1
  PROVE  /\ a \div n \in Nat /\ a % n \in Nat /\ a % n < n
         /\ a = (a \div n) * n + (a % n)
<1>1. a \div n \in Nat /\ a % n \in Nat /\ a % n < n
  OBVIOUS
<1>2. a = n * (a \div n) + (a % n)
  OBVIOUS
<1>3. n * (a \div n) = (a \div n) * n
  BY <1>1
<1>4. QED
  BY <1>1, <1>2, <1>3

LEMMA ModUnique ==
  ASSUME NEW q \in Nat, NEW n \in Nat, NEW r \in 0..(n - 1)
  PROVE  (q * n + r) % n = r
<1> DEFINE a == q * n + r
<1>1. a \in Nat /\ n >= 1
  OBVIOUS
<1>2. a \div n \in Nat /\ a % n \in Nat /\ a % n < n /\ a = (a \div n) * n + (a % n)
  BY <1>1, DivMod
<1> DEFINE d == a \div n
<1>3. d \in Nat /\ d * n \in Nat /\ q * n \in Nat
  BY <1>2
<1>4. CASE d >= q + 1
  <2>1. (q + 1) * n <= d * n /\ (q + 1) * n = q * n + n
    BY <1>3, <1>4, ProductGrows
  <2>2. QED
    BY <1>2, <1>3, <2>1
<1>5. CASE q >= d + 1
  <2>1. (d + 1) * n <= q * n /\ (d + 1) * n = d * n + n
    BY <1>3, <1>5, ProductGrows
  <2>2. QED
    BY <1>2, <1>3, <2>1
<1>6. CASE d = q
  BY <1>2, <1>3, <1>6
<1>7. QED
  BY <1>3, <1>4, <1>5, <1>6

\* The first height of the chunk of height h, if whole chunks of n are written.
FirstOf(h) == h - ((h - 1) % AncientChunkSize)

LEMMA FirstOfChunk ==
  ASSUME NEW top \in Nat, top % AncientChunkSize = 0, NEW h \in 1..top
  PROVE  /\ FirstOf(h) \in 1..h /\ FirstOf(h) % AncientChunkSize = 1
         /\ h <= FirstOf(h) + AncientChunkSize - 1
         /\ FirstOf(h) + AncientChunkSize - 1 <= top
<1> DEFINE n == AncientChunkSize
           q == (h - 1) \div n
           r == top \div n
<1>1. n \in Nat /\ n >= 2 /\ h - 1 \in Nat
  BY SizesAssumption
<1>2. /\ q \in Nat /\ (h - 1) % n \in Nat /\ (h - 1) % n < n
      /\ h - 1 = q * n + ((h - 1) % n)
  BY <1>1, DivMod
<1>3. r \in Nat /\ top = r * n + 0
  BY <1>1, DivMod
<1> HIDE DEF q, r
<1>4. FirstOf(h) = q * n + 1 /\ q * n \in Nat /\ r * n \in Nat
  BY <1>1, <1>2, <1>3 DEF FirstOf
<1>5. FirstOf(h) % n = 1
  BY <1>1, <1>2, <1>4, ModUnique
<1>6. q + 1 <= r
  <2>1. CASE r <= q
    <3>1. r * n <= q * n
      BY <1>1, <1>2, <1>3, <2>1, ProductGrows
    <3>2. QED
      BY <1>1, <1>2, <1>3, <1>4, <3>1
  <2>2. QED
    BY <1>2, <1>3, <2>1
<1>7. (q + 1) * n <= r * n /\ (q + 1) * n = q * n + n
  BY <1>1, <1>2, <1>3, <1>6, ProductGrows
<1>8. QED
  BY <1>1, <1>2, <1>3, <1>4, <1>5, <1>7

\* A first height is the first of its own chunk.
LEMMA FirstIsItsOwn ==
  ASSUME NEW i \in Nat, i >= 1, i % AncientChunkSize = 1
  PROVE  FirstOf(i) = i
<1> DEFINE n == AncientChunkSize
           q == i \div n
<1>1. n \in Nat /\ n >= 2
  BY SizesAssumption
<1>2. q \in Nat /\ i = q * n + 1
  BY <1>1, DivMod
<1> HIDE DEF q
<1>3. i - 1 = q * n + 0 /\ q * n \in Nat
  BY <1>1, <1>2
<1>4. (i - 1) % n = 0
  BY <1>1, <1>2, <1>3, ModUnique
<1>5. QED
  BY <1>4 DEF FirstOf

LEMMA StoreServed ==
  ASSUME NEW s \in Nat, NEW t \in Nat, <<s, t>> \in Starts, StoreUpTo(s, t),
         toSerialize = {}, txMemPool = {}, mtxMemPool = {}, proc = "up", exit = "clean"
  PROVE  ServedStore
<1> DEFINE n == AncientChunkSize
           chain == PeerChain
           waiting == {chain[h] : h \in (s + 1)..t}
           written == {chain[h] : h \in 1..s}
           firsts == {i \in 1..s : i % n = 1}
<1>1. /\ n \in Nat /\ n >= 2 /\ s % n = 0 /\ s < t /\ t <= Len(chain) /\ (s = 0 => t = 1)
      /\ Len(chain) \in Nat /\ chain[1] = Genesis
  BY SyncAssumption, SizesAssumption
<1>2. /\ \A h \in 1..Len(chain) : chain[h] \in Blocks /\ Height[chain[h]] = h
      /\ NoBlock \notin Blocks
  BY PeerChainHeights, BlocksAssumption
<1>3. /\ waiting \subseteq Blocks /\ written \subseteq Blocks
  BY <1>1, <1>2
<1>4. \A h \in 1..s : /\ FirstOf(h) \in firsts /\ FirstOf(h) <= h
                      /\ h <= FirstOf(h) + n - 1 /\ FirstOf(h) + n - 1 <= s
  <2> TAKE h \in 1..s
  <2>1. /\ FirstOf(h) \in 1..h /\ FirstOf(h) % n = 1
        /\ h <= FirstOf(h) + n - 1 /\ FirstOf(h) + n - 1 <= s
    BY <1>1, FirstOfChunk
  <2>2. QED
    BY <2>1
<1>5. \A i \in firsts : i + n - 1 <= s
  <2> TAKE i \in firsts
  <2>1. i \in 1..s /\ i \in Nat /\ i >= 1 /\ i % n = 1
    OBVIOUS
  <2>2. FirstOf(i) = i
    BY <2>1, FirstIsItsOwn
  <2>3. QED
    BY <1>4, <2>1, <2>2
<1>6. /\ incomingBlocks = waiting
      /\ incomingBlocksByHeight = [h \in (s + 1)..t |-> chain[h]]
      /\ incomingBlocksByTx \in TxIndexes(waiting, LoadsBefore)
      /\ tipOfSerializedChain = IF s = 0 THEN NoBlock ELSE chain[s]
      /\ lastWritten = tipOfSerializedChain
      /\ highestBlock = chain[t]
      /\ blockChunks = [c \in {chain[i] : i \in firsts} |->
                          SubSeq(chain, Height[c], Height[c] + n - 1)]
      /\ hash2chunk = [b \in written |-> chain[FirstOf(Height[b])]]
      /\ height2hash = [h \in 1..s |-> chain[h]]
      /\ tx2hash \in TxIndexes(written, BlockOrderingRule)
      /\ chainstate = [present |-> s > 0, txs |-> {}, mtxs |-> {},
                       blocks |-> IF s > 0 THEN waiting ELSE {}]
  BY DEF StoreUpTo, FirstOf
<1> HIDE DEF waiting, written, firsts
<1>7. /\ \A i \in firsts : i \in 1..s /\ chain[i] \in DOMAIN blockChunks
      /\ \A k \in DOMAIN blockChunks : \E i \in firsts : k = chain[i]
  BY <1>6 DEF firsts
<1>8. \A i \in firsts : /\ blockChunks[chain[i]] \in [1..n -> Blocks]
                        /\ \A j \in i..(i + n - 1) : chain[j] \in Range(blockChunks[chain[i]])
  <2> SUFFICES ASSUME NEW i \in firsts
               PROVE  /\ blockChunks[chain[i]] \in [1..n -> Blocks]
                      /\ \A j \in i..(i + n - 1) : chain[j] \in Range(blockChunks[chain[i]])
    OBVIOUS
  <2>1. i \in 1..s /\ Height[chain[i]] = i /\ i + n - 1 <= s
    <3>1. i \in 1..s
      BY <1>7
    <3>2. i \in 1..Len(chain)
      BY <1>1, <3>1
    <3>3. QED
      BY <1>2, <1>5, <3>1, <3>2
  <2>2. blockChunks[chain[i]] = SubSeq(chain, i, i + n - 1)
    BY <1>6, <2>1
  <2> DEFINE m == i + n - 1
             c == SubSeq(chain, i, m)
  <2>3. m \in Int /\ i \in Int /\ m - i + 1 = n /\ i <= m /\ m <= Len(chain)
    BY <1>1, <2>1
  <2> HIDE DEF m, c
  <2>4. \A j \in i..m : chain[j] \in Blocks
    <3>1. i..m \subseteq 1..Len(chain)
      BY <1>1, <2>1, <2>3
    <3>2. QED
      BY <1>2, <3>1
  <2>5. c \in Seq(Blocks) /\ Len(c) = n /\ \A j \in 1..n : c[j] = chain[i + j - 1]
    BY <1>1, <2>3, <2>4, SubSeqProperties DEF c
  <2>6. ASSUME NEW j \in i..m PROVE chain[j] \in Range(c)
    <3>1. j - i + 1 \in 1..n /\ i + (j - i + 1) - 1 = j
      BY <1>1, <2>1, <2>3
    <3>2. j - i + 1 \in DOMAIN c /\ c[j - i + 1] = chain[j]
      BY <1>1, <2>5, <3>1
    <3>3. QED
      BY <3>2 DEF Range
  <2>7. c \in [1..n -> Blocks]
    BY <2>5
  <2>8. QED
    BY <2>2, <2>6, <2>7 DEF m, c
<1>9. \A h \in 1..s : /\ chain[h] \in written /\ chain[h] \in Blocks /\ Height[chain[h]] = h
                      /\ hash2chunk[chain[h]] = chain[FirstOf(h)]
                      /\ Stored(chain[h])
  <2> TAKE h \in 1..s
  <2>1. chain[h] \in written /\ chain[h] \in Blocks /\ Height[chain[h]] = h
    BY <1>1, <1>2 DEF written
  <2>2. hash2chunk[chain[h]] = chain[FirstOf(h)] /\ chain[h] \in DOMAIN hash2chunk
    BY <1>6, <2>1
  <2>3. FirstOf(h) \in firsts /\ h \in FirstOf(h)..(FirstOf(h) + n - 1)
    <3>1. FirstOf(h) \in firsts /\ FirstOf(h) <= h /\ h <= FirstOf(h) + n - 1
      BY <1>4
    <3>2. FirstOf(h) \in 1..s
      BY <1>7, <3>1
    <3>3. QED
      BY <1>1, <3>1, <3>2
  <2>4. QED
    BY <1>7, <1>8, <2>1, <2>2, <2>3 DEF Stored
<1>10. BufferInv
  <2>1. IsMap(incomingBlocksByHeight, Nat, Blocks) /\ IsMap(height2hash, Nat, Blocks)
    BY <1>1, <1>2, <1>6 DEF IsMap
  <2>2. IsMap(incomingBlocksByTx, Txs, Blocks) /\ IsMap(tx2hash, Txs, Blocks)
    BY <1>3, <1>6, BlocksAssumption DEF TxIndexes, TxsIn, IsMap
  <2>3. IsMap(blockChunks, Blocks, ChunkShape)
    <3>1. DOMAIN blockChunks \subseteq Blocks
      BY <1>1, <1>2, <1>7
    <3>2. \A k \in DOMAIN blockChunks : blockChunks[k] \in ChunkShape
      BY <1>7, <1>8 DEF ChunkShape
    <3>3. blockChunks = [k \in DOMAIN blockChunks |-> blockChunks[k]]
      BY <1>6
    <3>4. QED
      BY <3>1, <3>2, <3>3 DEF IsMap
  <2>4. IsMap(hash2chunk, Blocks, Blocks)
    <3>1. DOMAIN hash2chunk = written
      BY <1>6
    <3>2. \A b \in written : \E h \in 1..s : b = chain[h]
      BY DEF written
    <3>3. \A b \in written : hash2chunk[b] \in Blocks
      <4> TAKE b \in written
      <4>1. PICK h \in 1..s : b = chain[h]
        BY <3>2
      <4>2. FirstOf(h) \in 1..Len(chain)
        <5>1. FirstOf(h) \in 1..s
          BY <1>4, <1>7
        <5>2. QED
          BY <1>1, <5>1
      <4>3. hash2chunk[b] = chain[FirstOf(h)]
        BY <1>9, <4>1
      <4>4. QED
        BY <1>2, <4>2, <4>3
    <3>4. hash2chunk = [b \in written |-> hash2chunk[b]]
      BY <1>6
    <3>5. QED
      BY <1>3, <3>1, <3>3, <3>4 DEF IsMap
  <2>5. lastWritten \in BlockOrNil /\ highestBlock \in BlockOrNil
    BY <1>1, <1>2, <1>6 DEF BlockOrNil
  <2>6. chainstate \in [present : BOOLEAN, blocks : SUBSET Blocks,
                        txs : SUBSET (PoolTxs \cup PoolMTxs), mtxs : SUBSET PoolMTxs]
    BY <1>1, <1>3, <1>6
  <2>7. MemoryTypeOK
    BY <1>3, <1>6, <2>1, <2>2, <2>5 DEF MemoryTypeOK
  <2>8. ChunkBucketsTypeOK
    BY <2>1, <2>2, <2>3, <2>4, <2>5 DEF ChunkBucketsTypeOK
  <2>9. QED
    BY <2>6, <2>7, <2>8 DEF BufferInv, TypeOK, NothingLeftInBuffer
<1>11. lastWritten # NoBlock => s >= 1 /\ lastWritten = chain[s] /\ Height[lastWritten] = s
  BY <1>1, <1>2, <1>6
<1>12. ChainInv
  <2>1. tipOfSerializedChain = NoBlock => Genesis \in incomingBlocks
    BY <1>1, <1>2, <1>6 DEF waiting
  <2>2. \A h \in 2..s : PreviousHash[chain[h]] = chain[h - 1]
    BY <1>1, SyncAssumption DEF OrderedBlockPairIsValid
  <2>3. lastWritten # NoBlock => \A h \in 2..s : h - 1 \in 1..s
    BY <1>11
  <2>4. SerializedChainIsWhole
    BY <1>1, <1>6, <1>9, <1>11, <2>2, <2>3 DEF SerializedChainIsWhole
  <2>5. \A h \in 1..s : Height[hash2chunk[height2hash[h]]] <= h
    <3> TAKE h \in 1..s
    <3>1. FirstOf(h) \in 1..Len(chain) /\ FirstOf(h) <= h
      <4>1. FirstOf(h) \in 1..s /\ FirstOf(h) <= h
        BY <1>4, <1>7
      <4>2. QED
        BY <1>1, <4>1
    <3>2. hash2chunk[height2hash[h]] = chain[FirstOf(h)]
      BY <1>6, <1>9
    <3>3. QED
      BY <1>2, <3>1, <3>2
  <2>6. QED
    BY <1>6, <1>11, <2>1, <2>4, <2>5 DEF ChainInv, TipIsLastWritten
<1>13. LogInv
  <2>1. CASE lastWritten = NoBlock
    BY <1>6, <2>1 DEF LogInv, serializedLog, Log!IsChain
  <2>2. CASE lastWritten # NoBlock
    <3>1. serializedLog = [h \in 1..s |-> chain[h]]
      BY <1>6, <1>11, <2>2 DEF serializedLog
    <3> DEFINE log == [h \in 1..s |-> chain[h]]
    <3>2. log \in Seq(Blocks) /\ Len(log) = s /\ log[1] = Genesis
      BY <1>1, <1>9, <1>11, <2>2
    <3>3. \A i \in 1..(s - 1) : OrderedBlockPairIsValid(log[i], log[i + 1])
      <4> TAKE i \in 1..(s - 1)
      <4>1. i + 1 \in 2..Len(chain) /\ (i + 1) - 1 = i /\ i \in 1..s /\ i + 1 \in 1..s
        BY <1>1
      <4>2. OrderedBlockPairIsValid(chain[(i + 1) - 1], chain[i + 1])
        BY <4>1, SyncAssumption
      <4>3. QED
        BY <4>1, <4>2
    <3>4. Log!IsChain(log)
      BY <3>2, <3>3 DEF Log!IsChain, Log!OrderedBlockPairIsValid, OrderedBlockPairIsValid
    <3>5. QED
      BY <1>6, <2>2, <3>1, <3>4 DEF LogInv
  <2>3. QED
    BY <2>1, <2>2
<1>14. FilesInv
  <2>1. ASSUME NEW k \in DOMAIN blockChunks
        PROVE  lastWritten # NoBlock /\ Height[k] <= Height[lastWritten]
    BY <1>1, <1>2, <1>6, <1>7
  <2>2. ASSUME NEW x \in DOMAIN tx2hash
        PROVE  Stored(tx2hash[x]) /\ x \in TxsOf[tx2hash[x]]
    <3>1. tx2hash[x] \in written /\ x \in TxsOf[tx2hash[x]]
      BY <1>6 DEF TxIndexes
    <3>2. QED
      BY <1>9, <3>1 DEF written
  <2>3. QED
    BY <2>1, <2>2 DEF FilesInv
<1>15. QED
  BY <1>10, <1>12, <1>13, <1>14 DEF ServedStore

LEMMA StoreAtStart ==
  ASSUME SyncInit
  PROVE  ServedStore
<1>1. PICK s \in Starts : StoreUpTo(s[1], s[2])
  BY DEF SyncInit
<1>2. s[1] \in Nat /\ s[2] \in Nat /\ s = <<s[1], s[2]>>
  BY SyncAssumption
<1>3. QED
  BY <1>1, <1>2, StoreServed DEF SyncInit

-----------------------------------------------------------------------------
(* The store during the download *)

LEMMA NextToAdd ==
  ASSUME toAdd \subseteq 1..Len(PeerChain), toAdd # {}
  PROVE  Min(toAdd) \in toAdd /\ PeerChain[Min(toAdd)] \in Blocks
<1>1. toAdd \subseteq Nat
  BY SyncAssumption
<1>2. \E n \in toAdd : \A m \in toAdd : n <= m
  BY <1>1, LeastNatural
<1>3. Min(toAdd) \in toAdd
  BY <1>2 DEF Min
<1>4. QED
  BY <1>3, PeerChainHeights

\* All that the store sees of the download.
LEMMA StoreSteps ==
  ASSUME toAdd \subseteq 1..Len(PeerChain), [SyncNext]_allVars
  PROVE  \/ UNCHANGED vars
         \/ \E b \in Blocks : AddBlock(b)
         \/ Run
<1>1. CASE AddNextBlock
  BY <1>1, NextToAdd DEF AddNextBlock
<1>2. CASE Thread
  BY <1>2 DEF Thread, LoopEnds, StartStride, AskPeer, AfterPeers, BatchDone,
              BatchTimesOut, ResetWorkList
<1>3. CASE BeginPass \/ TakeData \/ TakeBlock \/ EndPass
  BY <1>3 DEF BeginPass, TakeData, HandleData, TakeBlock, HandleBlock, EndPass
<1>4. CASE Ingestion \/ UNCHANGED allVars
  BY <1>4 DEF Ingestion, allVars
<1>5. QED
  BY <1>1, <1>2, <1>3, <1>4 DEF SyncNext

LEMMA DownStays ==
  ASSUME toAdd \subseteq 1..Len(PeerChain), [SyncNext]_allVars, proc = "down"
  PROVE  proc' = "down"
BY StoreSteps DEF vars, AddBlock, Run, Running

LEMMA ServedStoreStep ==
  ASSUME PruneHeights = {}, ~ DiskCanFail, ServedStore,
         toAdd \subseteq 1..Len(PeerChain), [SyncNext]_allVars
  PROVE  ServedStore'
<1>1. CASE proc' = "down"
  BY <1>1 DEF ServedStore
<1>2. CASE proc' # "down"
  <2>1. proc = "up"
    BY <1>2, DownStays DEF ServedStore
  <2>2. [CarefulNext]_vars /\ proc' \in {"up", "down"}
    <3>1. CASE UNCHANGED vars
      BY <2>1, <3>1 DEF vars
    <3>2. CASE \E b \in Blocks : AddBlock(b)
      BY <3>2, AddBlockIsCareful
    <3>3. CASE Run
      BY <3>3, RunIsCareful
    <3>4. QED
      BY <3>1, <3>2, <3>3, StoreSteps
  <2>3. QED
    BY <2>1, <2>2, ServedStep
<1>3. QED
  BY <1>1, <1>2

\* While the process runs, what was found is found.
LEMMA FoundStays ==
  ASSUME PruneHeights = {}, ~ DiskCanFail, ServedStore,
         toAdd \subseteq 1..Len(PeerChain), [SyncNext]_allVars, proc' = "up"
  PROVE  /\ proc = "up"
         /\ \A b : Retrievable(b) => Retrievable(b)'
<1>1. proc = "up"
  BY DownStays DEF ServedStore
<1>2. BufferInv /\ ChainInv /\ LogInv /\ FilesInv
  BY <1>1 DEF ServedStore
<1>3. ASSUME NEW b, Retrievable(b) PROVE Retrievable(b)'
  <2>1. b \in Blocks
    BY <1>2, <1>3, OnlyBlocksAreFound
  <2>2. CASE UNCHANGED vars
    BY <1>3, <2>2 DEF Retrievable, Stored, vars, memory, disk, chunkBuckets
  <2>3. CASE \E a \in Blocks : AddBlock(a)
    BY <1>3, <2>3 DEF AddBlock, addBlockUnsafe, Retrievable, Stored, disk, chunkBuckets
  <2>4. CASE Run
    BY <1>2, <1>3, <2>1, <2>4, SerializationKeepsAnswers
  <2>5. QED
    BY <2>2, <2>3, <2>4, StoreSteps
<1>4. QED
  BY <1>1, <1>3

-----------------------------------------------------------------------------
(* What was asked for *)

LEMMA StrideHeights ==
  ASSUME StrideInv
  PROVE  /\ StrideLow \in Nat /\ StrideLow >= 1 /\ StrideHigh = StrideLow + blockStride
         /\ blockStride \in Nat /\ blockStride >= 1
         /\ iStride = StrideCap => StrideHigh > Len(PeerChain)
<1>1. /\ iStride \in Nat /\ iStride >= 1 /\ startingHeight \in Nat
      /\ blockStride \in Nat /\ blockStride >= 1 /\ batchStrides \in Nat
      /\ StrideCap * blockStride > Len(PeerChain) + 2 * batchStrides * blockStride
      /\ Len(PeerChain) \in Nat
  BY Strides, SyncAssumption DEF StrideInv
<1> DEFINE m == (iStride - 1) * blockStride
<1>2. m \in Nat /\ iStride * blockStride = m + blockStride
  BY <1>1
<1>3. 2 * batchStrides * blockStride \in Nat
  BY <1>1
<1> HIDE DEF m
<1>4. StrideLow = m + startingHeight + 1 /\ StrideHigh = m + blockStride + startingHeight + 1
  BY <1>2 DEF StrideLow, StrideHigh, m
<1>5. iStride = StrideCap => StrideHigh > Len(PeerChain)
  BY <1>1, <1>2, <1>3, <1>4
<1>6. QED
  BY <1>1, <1>2, <1>4, <1>5

LEMMA NextStrideHigh ==
  ASSUME StrideInv, iStride # StrideCap, iStride' = NextStride, startingHeight' = startingHeight
  PROVE  StrideHigh' = StrideHigh + blockStride
<1>1. iStride \in Nat /\ startingHeight \in Nat /\ blockStride \in Nat /\ iStride' = iStride + 1
  BY Strides DEF StrideInv, NextStride
<1>2. (iStride + 1) * blockStride = iStride * blockStride + blockStride
      /\ iStride * blockStride \in Nat
  BY <1>1
<1>3. QED
  BY <1>1, <1>2 DEF StrideHigh

LEMMA AskedInit ==
  ASSUME NEW H, PeerHeights = {H}, SyncInit
  PROVE  AskedInv(H) /\ NothingIsForgotten
<1>1. startingHeight \in Nat /\ blockStride \in Nat
  BY SyncAssumption DEF SyncInit
<1>2. StrideHigh = topRange /\ topRange = startingHeight + blockStride + 1
  BY <1>1 DEF SyncInit, StrideHigh
<1>3. AskedInv(H)
  BY <1>1, <1>2 DEF SyncInit, AskedInv
<1>4. (startingHeight + 1)..(topRange - blockStride - 1) = {}
  BY <1>1, <1>2
<1>5. QED
  BY <1>3, <1>4 DEF NothingIsForgotten

\* A peer is asked for a stride: its blocks are awaited, and they are the next ones.
LEMMA AskPeerStep ==
  ASSUME NEW H, PeerHeights = {H}, StrideInv, AskedInv(H), NEW p \in Peers, AskPeer(p)
  PROVE  /\ AskedInv(H)'
         /\ network = "reliable" =>
              \A h \in (startingHeight + 1)..(topRange' - blockStride - 1) :
                 \/ h \in (startingHeight + 1)..(topRange - blockStride - 1)
                 \/ h \in AllowedBlocks'
<1>1. /\ ibdPc = "ask" /\ p \in toAsk /\ toAsk' = toAsk \ {p}
      /\ UNCHANGED <<network, startingHeight, peerHeight, localHandlers, iStride, ibdPc, toAdd>>
      /\ StrideHigh' = StrideHigh /\ StrideLow' = StrideLow
  BY DEF AskPeer, netVars, loopVars, StrideHigh, StrideLow
<1>2. /\ StrideLow \in Nat /\ StrideLow >= 1 /\ StrideHigh = StrideLow + blockStride
      /\ blockStride \in Nat /\ blockStride >= 1 /\ startingHeight \in Nat
  BY StrideHeights DEF StrideInv
<1>3. /\ H \in 1..Len(PeerChain) /\ Len(PeerChain) \in Nat /\ topRange \in Nat
      /\ localHandlers[p] \in {0, H}
  BY SyncAssumption DEF AskedInv
<1>4. CASE TooLow(p) /\ UNCHANGED <<AllowedBlocks, topRange>>
  <2>1. ASSUME network = "reliable", topRange <= H, topRange = StrideHigh,
               NEW q \in toAsk, localHandlers[q] = H
        PROVE  q \in toAsk'
    <3>1. localHandlers[q] # 0 /\ localHandlers[q] >= StrideLow /\ localHandlers[q] >= topRange
      BY <1>2, <1>3, <2>1
    <3>2. q # p
      BY <1>2, <1>3, <1>4, <3>1 DEF TooLow
    <3>3. QED
      BY <1>1, <3>2
  <2>2. AskedInv(H)'
    BY <1>1, <1>2, <1>3, <1>4, <2>1 DEF AskedInv
  <2>3. QED
    BY <1>4, <2>2
<1>5. CASE ~ TooLow(p)
  <2> DEFINE high == Min({StrideHigh, localHandlers[p]})
  <2>1. /\ AllowedBlocks' = AllowedBlocks \cup StrideLow..(high - 1)
        /\ topRange' = startingHeight + (iStride + 1) * blockStride + 1
    BY <1>5 DEF AskPeer
  <2>2. localHandlers[p] = H /\ topRange <= H
    BY <1>2, <1>3, <1>5 DEF TooLow
  <2>3. high \in Int /\ high <= H
    BY <1>2, <1>3, <2>2, SmallerOfTwo
  <2>4. topRange' = StrideHigh + blockStride
    <3>1. iStride \in Nat
      BY Strides DEF StrideInv
    <3>2. (iStride + 1) * blockStride = iStride * blockStride + blockStride
          /\ iStride * blockStride \in Nat
      BY <1>2, <3>1
    <3>3. QED
      BY <1>2, <2>1, <3>2 DEF StrideHigh
  <2>5. StrideHigh <= H => high = StrideHigh
    BY <1>2, <1>3, <2>2 DEF Min
  <2> HIDE DEF high
  <2>6. StrideLow..(high - 1) \subseteq 1..Len(PeerChain)
    BY <1>2, <1>3, <2>3
  <2>7. AskedInv(H)'
    BY <1>1, <1>2, <1>3, <2>1, <2>4, <2>6 DEF AskedInv
  <2>8. network = "reliable" => topRange = StrideHigh \/ topRange = StrideHigh + blockStride
    BY <1>1, <1>2, <1>3, <2>2 DEF AskedInv
  <2>9. CASE topRange = StrideHigh + blockStride
    BY <2>4, <2>7, <2>9
  <2>10. CASE topRange = StrideHigh
    <3>1. high = StrideHigh
      BY <2>2, <2>5, <2>10
    <3>2. ASSUME NEW h \in (startingHeight + 1)..(topRange' - blockStride - 1)
          PROVE  \/ h \in (startingHeight + 1)..(topRange - blockStride - 1)
                 \/ h \in AllowedBlocks'
      BY <1>2, <2>1, <2>4, <2>10, <3>1, <3>2
    <3>3. QED
      BY <2>7, <3>2
  <2>11. QED
    BY <2>7, <2>8, <2>9, <2>10
<1>6. QED
  BY <1>4, <1>5 DEF AskPeer

LEMMA AskedStep ==
  ASSUME NEW H, PeerHeights = {H}, StrideInv, AskedInv(H), [SyncNext]_allVars
  PROVE  AskedInv(H)'
<1>1. /\ H \in 1..Len(PeerChain) /\ Len(PeerChain) \in Nat
  BY SyncAssumption
<1>2. /\ StrideHigh \in Nat
      /\ blockStride \in Nat /\ blockStride >= 1
      /\ iStride = StrideCap => StrideHigh > Len(PeerChain)
  BY StrideHeights
<1>3. ASSUME UNCHANGED <<network, iStride, startingHeight, ibdPc, topRange, localHandlers, toAsk>>,
             AllowedBlocks' \cup toAdd' \subseteq AllowedBlocks \cup toAdd,
             peerHeight' \in [Peers -> {0, H}]
      PROVE  AskedInv(H)'
  BY <1>3 DEF AskedInv, StrideHigh
<1>4. CASE LoopEnds
  BY <1>4 DEF LoopEnds, AskedInv, netVars, loopVars
<1>5. CASE StartStride
  <2>1. PICK p \in Peers : peerHeight[p] > 0
    BY <1>5 DEF StartStride
  <2>2. peerHeight[p] = H
    BY <2>1 DEF AskedInv
  <2>3. StrideHigh' = StrideHigh
    BY <1>5 DEF StartStride, StrideHigh, netVars
  <2>4. QED
    BY <1>5, <2>2, <2>3 DEF StartStride, AskedInv, netVars, loopVars
<1>6. CASE \E p \in Peers : AskPeer(p)
  BY <1>6, AskPeerStep
<1>7. CASE AfterPeers
  <2>1. /\ UNCHANGED <<network, startingHeight, peerHeight, localHandlers, topRange,
                       AllowedBlocks, toAdd>>
        /\ ibdPc = "ask" /\ toAsk = {}
    BY <1>7 DEF AfterPeers, netVars, loopVars
  <2>2. CASE BatchEnds /\ ibdPc' = "wait" /\ iStride' = iStride
    <3>1. StrideHigh' = StrideHigh
      BY <2>1, <2>2 DEF StrideHigh
    <3>2. QED
      BY <2>1, <2>2, <3>1 DEF AskedInv
  <2>3. CASE ~ BatchEnds /\ ibdPc' = "top" /\ iStride' = NextStride
    <3>1. iStride # StrideCap
      BY <2>3, Strides DEF BatchEnds
    <3>2. StrideHigh' = StrideHigh + blockStride
      BY <2>1, <2>3, <3>1, NextStrideHigh
    <3>3. QED
      BY <2>1, <2>3, <3>2 DEF AskedInv
  <2>4. QED
    BY <1>7, <2>2, <2>3 DEF AfterPeers
<1>8. CASE BatchDone
  <2>1. /\ UNCHANGED <<network, startingHeight, peerHeight, localHandlers, topRange,
                       AllowedBlocks, toAdd>>
        /\ ibdPc = "wait" /\ ibdPc' = "top" /\ iStride' = NextStride
    BY <1>8 DEF BatchDone, netVars, loopVars
  <2>2. CASE iStride = StrideCap
    <3>1. network = "reliable" => topRange > H
      BY <1>1, <2>1, <2>2, StrideHeights DEF AskedInv
    <3>2. QED
      BY <2>1, <3>1 DEF AskedInv
  <2>3. CASE iStride # StrideCap
    <3>1. StrideHigh' = StrideHigh + blockStride
      BY <2>1, <2>3, NextStrideHigh
    <3>2. QED
      BY <2>1, <3>1 DEF AskedInv
  <2>4. QED
    BY <2>2, <2>3
<1>9. CASE BatchTimesOut
  BY <1>9 DEF BatchTimesOut, AskedInv, netVars, loopVars
<1>10. CASE ResetWorkList
  BY <1>10 DEF ResetWorkList, AskedInv, netVars, loopVars
<1>11. ASSUME NEW low, NEW high, HandleData(low, high) PROVE AskedInv(H)'
  <2>1. /\ AllowedBlocks' \subseteq AllowedBlocks
        /\ toAdd' # {} => ibdMode /\ toAdd' \subseteq AllowedBlocks
    BY <1>11 DEF HandleData
  <2>2. UNCHANGED <<netVars, threadVars>>
    BY <1>11 DEF HandleData
  <2>3. QED
    BY <1>3, <2>1, <2>2 DEF AskedInv, netVars, threadVars
<1>12. ASSUME NEW p \in Peers, NEW h \in PeerHeights, HandleBlock(p, h) PROVE AskedInv(H)'
  <2>1. peerHeight' = [peerHeight EXCEPT ![p] = H]
    BY <1>12 DEF HandleBlock
  <2>2. peerHeight' \in [Peers -> {0, H}]
    BY <2>1 DEF AskedInv
  <2>3. QED
    BY <1>3, <1>12, <2>2 DEF HandleBlock, threadVars, loopVars
<1>13. CASE BeginPass \/ AddNextBlock \/ EndPass \/ Ingestion \/ UNCHANGED allVars
  BY <1>3, <1>13
  DEF BeginPass, AddNextBlock, EndPass, Ingestion, allVars, syncVars, AskedInv,
      netVars, threadVars, loopVars
<1>14. QED
  BY <1>4, <1>5, <1>6, <1>7, <1>8, <1>9, <1>10, <1>11, <1>12, <1>13
  DEF SyncNext, Thread, TakeData, TakeBlock

\* Blocks that come for a height go where they are kept.
LEMMA ArrivalsStay ==
  ASSUME PruneHeights = {}, ~ DiskCanFail, ServedStore,
         toAdd \subseteq 1..Len(PeerChain), [SyncNext]_allVars, proc' = "up", ibdMode',
         NEW h
  PROVE  /\ ibdMode
         /\ Arrived(h) => Arrived(h)'
         /\ TakeData /\ h \in AllowedBlocks => h \in AllowedBlocks' \/ Arrived(h)'
<1>1. ibdMode
  <2>1. CASE Thread
    BY <2>1 DEF Thread, LoopEnds, StartStride, AskPeer, AfterPeers, BatchDone,
                BatchTimesOut, ResetWorkList
  <2>2. CASE TakeData
    BY <2>2 DEF TakeData, HandleData
  <2>3. CASE BeginPass \/ TakeBlock \/ AddNextBlock \/ EndPass \/ Ingestion \/ UNCHANGED allVars
    BY <2>3 DEF BeginPass, TakeBlock, HandleBlock, AddNextBlock, EndPass, Ingestion,
                allVars, syncVars
  <2>4. QED
    BY <2>1, <2>2, <2>3 DEF SyncNext
<1>2. Retrievable(PeerChain[h]) => Retrievable(PeerChain[h])'
  BY FoundStays
<1>3. chainBlocks \subseteq chainBlocks'
  <2>1. CASE Thread
    BY <2>1 DEF Thread, LoopEnds, StartStride, AskPeer, AfterPeers, BatchDone,
                BatchTimesOut, ResetWorkList
  <2>2. CASE TakeData \/ TakeBlock
    BY <2>2 DEF TakeData, HandleData, TakeBlock, HandleBlock
  <2>3. CASE BeginPass \/ AddNextBlock \/ EndPass \/ Ingestion \/ UNCHANGED allVars
    BY <2>3 DEF BeginPass, AddNextBlock, EndPass, Ingestion, allVars, syncVars
  <2>4. QED
    BY <2>1, <2>2, <2>3 DEF SyncNext
<1>4. h \in toAdd => h \in toAdd' \/ Retrievable(PeerChain[h])'
  <2>1. CASE AddNextBlock
    <3>1. toAdd' = toAdd \ {Min(toAdd)}
      BY <2>1 DEF AddNextBlock
    <3>2. PeerChain[Min(toAdd)] \in incomingBlocks'
      BY <2>1 DEF AddNextBlock, AddBlock, addBlockUnsafe, vars, memory
    <3>3. \A b : b \in incomingBlocks' => Retrievable(b)'
      BY DEF Retrievable
    <3>4. CASE h = Min(toAdd)
      BY <3>2, <3>3, <3>4
    <3>5. QED
      BY <3>1, <3>4
  <2>2. CASE Thread
    BY <2>2 DEF Thread, LoopEnds, StartStride, AskPeer, AfterPeers, BatchDone,
                BatchTimesOut, ResetWorkList, loopVars
  <2>3. CASE TakeData \/ TakeBlock
    BY <2>3 DEF TakeData, HandleData, TakeBlock, HandleBlock, loopVars
  <2>4. CASE BeginPass \/ EndPass \/ Ingestion \/ UNCHANGED allVars
    BY <2>4 DEF BeginPass, EndPass, Ingestion, allVars, syncVars, loopVars
  <2>5. QED
    BY <2>1, <2>2, <2>3, <2>4 DEF SyncNext
<1>5. TakeData /\ h \in AllowedBlocks => h \in AllowedBlocks' \cup toAdd' \cup chainBlocks'
  BY <1>1 DEF TakeData, HandleData
<1>6. QED
  BY <1>1, <1>2, <1>3, <1>4, <1>5 DEF Arrived

LEMMA NothingIsForgottenStep ==
  ASSUME PruneHeights = {}, ~ DiskCanFail, NEW H, PeerHeights = {H}, ServedStore,
         StrideInv, AskedInv(H), NothingIsForgotten, [SyncNext]_allVars
  PROVE  NothingIsForgotten'
<1> SUFFICES ASSUME network' = "reliable", proc' = "up", ibdMode',
                    NEW h \in ((startingHeight + 1)..(topRange - blockStride - 1))'
             PROVE  (h \in AllowedBlocks \/ Arrived(h))'
  BY DEF NothingIsForgotten
<1>1. toAdd \subseteq 1..Len(PeerChain)
  BY DEF AskedInv
<1>2. /\ proc = "up" /\ ibdMode
      /\ Arrived(h) => Arrived(h)'
      /\ TakeData /\ h \in AllowedBlocks => h \in AllowedBlocks' \/ Arrived(h)'
  BY <1>1, FoundStays, ArrivalsStay
<1>3. network = "reliable"
  BY DEF SyncNext, Thread, LoopEnds, StartStride, AskPeer, AfterPeers, BatchDone,
         BatchTimesOut, ResetWorkList, BeginPass, TakeData, HandleData, TakeBlock,
         HandleBlock, AddNextBlock, EndPass, Ingestion, allVars, syncVars, netVars
<1>4. ASSUME h \in (startingHeight + 1)..(topRange - blockStride - 1)
      PROVE  h \in AllowedBlocks \/ Arrived(h)
  BY <1>2, <1>3, <1>4 DEF NothingIsForgotten
<1>5. CASE \E p \in Peers : AskPeer(p)
  <2>1. AllowedBlocks \subseteq AllowedBlocks' /\ startingHeight' = startingHeight
    BY <1>5 DEF AskPeer, netVars
  <2>2. QED
    BY <1>2, <1>3, <1>4, <1>5, <2>1, AskPeerStep
<1>6. CASE TakeData
  <2>1. UNCHANGED <<startingHeight, topRange>>
    BY <1>6 DEF TakeData, HandleData, netVars, threadVars
  <2>2. QED
    BY <1>2, <1>4, <1>6, <2>1
<1>7. CASE ResetWorkList
  BY <1>3, <1>7 DEF ResetWorkList, AskedInv
<1>8. CASE LoopEnds \/ StartStride \/ AfterPeers \/ BatchDone \/ BatchTimesOut
  <2>1. UNCHANGED <<startingHeight, topRange, AllowedBlocks>>
    BY <1>8 DEF LoopEnds, StartStride, AfterPeers, BatchDone, BatchTimesOut, netVars
  <2>2. QED
    BY <1>2, <1>4, <2>1
<1>9. CASE BeginPass \/ TakeBlock \/ AddNextBlock \/ EndPass \/ Ingestion \/ UNCHANGED allVars
  <2>1. UNCHANGED <<startingHeight, topRange, AllowedBlocks>>
    BY <1>9 DEF BeginPass, TakeBlock, HandleBlock, AddNextBlock, EndPass, Ingestion,
                allVars, syncVars, netVars, threadVars
  <2>2. QED
    BY <1>2, <1>4, <2>1
<1>10. QED
  BY <1>5, <1>6, <1>7, <1>8, <1>9 DEF SyncNext, Thread

\* Whatever the number of peers and the order of their answers, and whatever has been
\* serialized meanwhile: while peers of one height answer, every block up to the last
\* stride that was asked for is awaited or has arrived.  (The download thread's
\* strides, HandleData and ingestion.)
THEOREM NothingForgotten ==
  ASSUME PruneHeights = {}, ~ DiskCanFail, NEW H, PeerHeights = {H}
  PROVE  SyncSpec => []NothingIsForgotten
<1> DEFINE DownloadInv == StrideInv /\ ServedStore /\ AskedInv(H) /\ NothingIsForgotten
<1>1. SyncInit => DownloadInv
  BY StrideInvInit, StoreAtStart, AskedInit
<1>2. DownloadInv /\ [SyncNext]_allVars => DownloadInv'
  <2>1. AskedInv(H) => toAdd \subseteq 1..Len(PeerChain)
    BY DEF AskedInv
  <2>2. QED
    BY <2>1, StrideInvStep, ServedStoreStep, AskedStep, NothingIsForgottenStep
<1>3. DownloadInv => NothingIsForgotten
  OBVIOUS
<1> HIDE DEF DownloadInv
<1>4. QED
  BY <1>1, <1>2, <1>3, PTL DEF SyncSpec

-----------------------------------------------------------------------------
(* What a steady download gives the store *)

LEMMA Steady ==
  ASSUME SteadyDownload, startingHeight \in Nat
  PROVE  /\ batchStrides * blockStride = AncientChunkSize
         /\ IncomingBlocksSize = AncientChunkSize
         /\ AncientChunkSize \in Nat /\ AncientChunkSize >= 2
         /\ startingHeight % AncientChunkSize \in {0, 1}
<1>2. AncientChunkSize \in Nat /\ AncientChunkSize >= 2
  BY SizesAssumption
<1>3. startingHeight % AncientChunkSize \in Nat
  BY <1>2, DivMod
<1>4. QED
  BY <1>2, <1>3 DEF SteadyDownload

\* The blocks in memory are those of the heights in memory.
LEMMA Memory ==
  ASSUME NEW H, FeedInv(H)
  PROVE  /\ MemoryHeights \subseteq 1..Len(PeerChain) /\ MemoryHeights \subseteq Nat
         /\ \A h \in MemoryHeights : PeerChain[h] \in incomingBlocks
         /\ \A b \in incomingBlocks : b \in Blocks /\ Height[b] \in MemoryHeights
                                        /\ b = PeerChain[Height[b]]
<1>1. Len(PeerChain) \in Nat
  BY SyncAssumption
<1>2. ASSUME NEW b \in incomingBlocks
      PROVE  b \in Blocks /\ Height[b] \in MemoryHeights /\ b = PeerChain[Height[b]]
  <2>1. PICK h \in 1..Len(PeerChain) : b = PeerChain[h]
    BY DEF FeedInv
  <2>2. b \in Blocks /\ Height[b] = h
    BY <2>1, PeerChainHeights
  <2>3. QED
    BY <2>1, <2>2 DEF MemoryHeights
<1>3. QED
  BY <1>1, <1>2 DEF MemoryHeights

LEMMA MemorySize ==
  ASSUME NEW H, FeedInv(H), NEW S, IsFiniteSet(S), MemoryHeights \subseteq S
  PROVE  Cardinality(incomingBlocks) \in Nat /\ Cardinality(incomingBlocks) <= Cardinality(S)
<1> DEFINE f == [h \in MemoryHeights |-> PeerChain[h]]
<1>1. IsFiniteSet(MemoryHeights) /\ Cardinality(MemoryHeights) <= Cardinality(S)
      /\ Cardinality(MemoryHeights) \in Nat /\ Cardinality(S) \in Nat
  BY FS_Subset, FS_CardinalityType
<1>2. f \in Surjection(MemoryHeights, incomingBlocks)
  BY Memory DEF Surjection
<1> HIDE DEF f
<1>3. IsFiniteSet(incomingBlocks) /\ Cardinality(incomingBlocks) <= Cardinality(MemoryHeights)
  BY <1>1, <1>2, FS_Surjection
<1>4. Cardinality(incomingBlocks) \in Nat
  BY <1>3, FS_CardinalityType
<1>5. QED
  BY <1>1, <1>3, <1>4

\* More than a chunk of blocks in memory have no hole in their first chunk: a hole
\* would lie in the last batch, and there are not that many blocks around it.
LEMMA NoHole ==
  ASSUME NEW H, FeedInv(H), NEW c, WindowFrom(c), SteadyDownload, startingHeight \in Nat,
         Cardinality(incomingBlocks) > AncientChunkSize
  PROVE  (SerializedHeight + 1)..(SerializedHeight + AncientChunkSize) \subseteq MemoryHeights
<1> DEFINE n == AncientChunkSize
           T == SerializedHeight
           s == startingHeight % n
           q == T \div n
           r == startingHeight \div n
<1>1. n \in Nat /\ n >= 2 /\ T \in Nat /\ T % n = 0 /\ s \in {0, 1}
  BY Steady DEF FeedInv
<1>2. q \in Nat /\ T = q * n /\ r \in Nat /\ startingHeight = r * n + s
  <2>1. q \in Nat /\ T = q * n + (T % n) /\ r \in Nat /\ startingHeight = r * n + s
    BY <1>1, DivMod
  <2>2. q * n \in Nat
    BY <1>1, <2>1
  <2>3. QED
    BY <1>1, <2>1, <2>2
<1>3. PICK k \in Nat : c = startingHeight + k * n
  BY DEF WindowFrom
<1> HIDE DEF q, r, s, T
<1>4. c = (r + k) * n + s /\ (r + k) * n \in Nat /\ q * n \in Nat
  <2>1. (r + k) * n = r * n + k * n /\ r * n \in Nat /\ k * n \in Nat
    BY <1>1, <1>2
  <2>2. QED
    BY <1>1, <1>2, <1>3, <2>1
<1>5. SUFFICES ASSUME NEW h \in (T + 1)..(T + n), h \notin MemoryHeights
               PROVE  FALSE
  BY DEF T
<1>6. h > c
  BY <1>1, <1>4, <1>5 DEF WindowFrom, T
<1>7. r + k <= q
  <2>1. CASE q + 1 <= r + k
    <3>1. (q + 1) * n <= (r + k) * n /\ (q + 1) * n = q * n + n
      BY <1>1, <1>2, <2>1, ProductGrows
    <3>2. QED
      BY <1>1, <1>2, <1>4, <1>5, <1>6, <3>1
  <2>2. QED
    BY <1>2, <2>1
<1>8. c <= T + 1
  <2>1. (r + k) * n <= q * n
    BY <1>1, <1>2, <1>7, ProductGrows
  <2>2. QED
    BY <1>1, <1>2, <1>4, <2>1
<1> DEFINE around == (T + 1)..(T + n + 1)
<1>9. MemoryHeights \subseteq around \ {h}
  <2>1. ASSUME NEW g \in MemoryHeights PROVE g \in around /\ g # h
    <3>1. g \in Nat
      BY Memory
    <3>2. g > T
      BY DEF FeedInv, T
    <3>3. g <= c + n
      BY DEF WindowFrom
    <3>4. c \in Nat
      BY <1>1, <1>4
    <3>5. QED
      BY <1>1, <1>5, <1>8, <3>1, <3>2, <3>3, <3>4
  <2>2. QED
    BY <2>1
<1>10. IsFiniteSet(around) /\ Cardinality(around) = n + 1
  BY <1>1, FS_Interval
<1>11. h \in around
  BY <1>1
<1> HIDE DEF around
<1>12. IsFiniteSet(around \ {h}) /\ Cardinality(around \ {h}) = n
  BY <1>1, <1>10, <1>11, FS_RemoveElement
<1>13. Cardinality(incomingBlocks) <= n /\ Cardinality(incomingBlocks) \in Nat
  BY <1>9, <1>12, MemorySize
<1>14. QED
  BY <1>1, <1>13

\* Then the chunk that is cut is the next of the chain.
LEMMA NextChunk ==
  ASSUME NEW H, FeedInv(H), NEW c \in Chunks(incomingBlocks),
         (SerializedHeight + 1)..(SerializedHeight + AncientChunkSize) \subseteq MemoryHeights
  PROVE  \A i \in 1..AncientChunkSize : c[i] = PeerChain[SerializedHeight + i]
<1> DEFINE n == AncientChunkSize
           T == SerializedHeight
           wrong == {i \in 1..n : Height[c[i]] # T + i}
<1>1. n \in Nat /\ n >= 2 /\ T \in Nat
  BY SizesAssumption DEF FeedInv
<1>2. \A i \in 1..n : /\ c[i] \in incomingBlocks /\ Height[c[i]] \in Nat
                      /\ Height[c[i]] > T /\ c[i] = PeerChain[Height[c[i]]]
  <2> TAKE i \in 1..n
  <2>1. c[i] \in incomingBlocks
    BY DEF Chunks
  <2>2. QED
    BY <2>1, Memory DEF FeedInv
<1>3. \A i, j \in 1..n : i < j => Height[c[i]] < Height[c[j]]
  <2> TAKE i, j \in 1..n
  <2> HAVE i < j
  <2>1. ~ (Height[c[j]] < Height[c[i]])
    BY DEF Chunks, BlockOrderingRule
  <2>2. c[i] # c[j]
    BY <1>1 DEF Chunks, IsInjective
  <2>3. QED
    BY <1>2, <2>1, <2>2
<1>4. ASSUME wrong # {} PROVE FALSE
  <2>1. PICK i \in wrong : \A j \in wrong : i <= j
    <3>1. wrong \subseteq Nat
      BY <1>1
    <3> HIDE DEF wrong
    <3>2. QED
      BY <1>4, <3>1, LeastNatural
  <2>2. i \in 1..n /\ Height[c[i]] # T + i
    OBVIOUS
  <2>3. \A j \in 1..n : j < i => Height[c[j]] = T + j
    BY <1>1, <2>1, <2>2
  <2>4. Height[c[i]] >= T + i
    <3>1. CASE i = 1
      BY <1>1, <1>2, <2>2, <3>1
    <3>2. CASE i # 1
      <4>1. i - 1 \in 1..n /\ i - 1 < i
        BY <1>1, <2>2, <3>2
      <4>2. Height[c[i - 1]] = T + (i - 1) /\ Height[c[i - 1]] < Height[c[i]]
        BY <1>3, <2>2, <2>3, <4>1
      <4>3. QED
        BY <1>1, <1>2, <2>2, <4>1, <4>2
    <3>3. QED
      BY <3>1, <3>2
  <2> DEFINE b == PeerChain[T + i]
  <2>5. b \in incomingBlocks /\ b \in Blocks /\ Height[b] = T + i
    <3>1. T + i \in MemoryHeights
      BY <1>1, <2>2
    <3>2. T + i \in 1..Len(PeerChain) /\ b \in incomingBlocks
      BY <3>1, Memory
    <3>3. QED
      BY <3>2, PeerChainHeights
  <2> HIDE DEF wrong, b
  <2>6. CASE b \in Range(c)
    <3>1. PICK j \in 1..n : c[j] = b
      BY <2>6 DEF Range, Chunks
    <3>2. CASE j < i
      BY <1>1, <2>2, <2>3, <2>5, <3>1, <3>2
    <3>3. CASE j = i
      BY <2>2, <2>5, <3>1, <3>3
    <3>4. CASE i < j
      BY <1>1, <1>2, <1>3, <2>2, <2>4, <2>5, <3>1, <3>4
    <3>5. QED
      BY <1>1, <2>2, <3>1, <3>2, <3>3, <3>4
  <2>7. CASE b \notin Range(c)
    <3>1. ~ (Height[b] < Height[c[n]])
      BY <2>5, <2>7 DEF Chunks, BlockOrderingRule
    <3>2. n \in 1..n /\ (i = n \/ i < n)
      BY <1>1, <2>2
    <3>3. Height[c[i]] <= Height[c[n]]
      BY <1>2, <1>3, <2>2, <3>2
    <3>4. QED
      BY <1>1, <1>2, <2>2, <2>4, <2>5, <3>1, <3>2, <3>3
  <2>8. QED
    BY <2>6, <2>7
<1>5. QED
  BY <1>2, <1>4

LEMMA NextChunkIsValid ==
  ASSUME NEW H, FeedInv(H), NEW c \in Chunks(incomingBlocks),
         (SerializedHeight + 1)..(SerializedHeight + AncientChunkSize) \subseteq MemoryHeights
  PROVE  ChunkIsValid(c)
<1> DEFINE n == AncientChunkSize
           T == SerializedHeight
<1>1. n \in Nat /\ n >= 2 /\ T \in Nat /\ Len(PeerChain) \in Nat
  BY SizesAssumption, SyncAssumption DEF FeedInv
<1>2. \A i \in 1..n : c[i] = PeerChain[T + i] /\ T + i \in 1..Len(PeerChain)
  <2> TAKE i \in 1..n
  <2>1. T + i \in MemoryHeights
    BY <1>1
  <2>2. QED
    BY <2>1, NextChunk, Memory
<1>3. \A h \in 2..Len(PeerChain) : OrderedBlockPairIsValid(PeerChain[h - 1], PeerChain[h])
  BY SyncAssumption
<1>4. ASSUME NEW i \in 1..(n - 1) PROVE OrderedBlockPairIsValid(c[i], c[i + 1])
  <2>1. i \in 1..n /\ i + 1 \in 1..n /\ T + (i + 1) \in 2..Len(PeerChain)
        /\ (T + (i + 1)) - 1 = T + i
    BY <1>1, <1>2
  <2>2. QED
    BY <1>2, <1>3, <2>1
<1>5. ASSUME tipOfSerializedChain # NoBlock
      PROVE  OrderedBlockPairIsValid(tipOfSerializedChain, c[1])
  <2>1. tipOfSerializedChain = PeerChain[T] /\ T \in 1..Len(PeerChain)
    BY <1>5 DEF FeedInv
  <2>2. 1 \in 1..n /\ T + 1 \in 2..Len(PeerChain) /\ (T + 1) - 1 = T
    BY <1>1, <1>2, <2>1
  <2>3. QED
    BY <1>2, <1>3, <2>1, <2>2
<1>6. QED
  BY <1>4, <1>5 DEF ChunkIsValid

-----------------------------------------------------------------------------
(* A steady download, step by step *)

SteadyInv(H) ==
  network = "reliable" /\ SteadyDownload =>
    proc = "up" /\ exit # "fatal" /\ FeedInv(H) /\ \E c \in Nat : WindowFrom(c)

LEMMA SteadyStays ==
  ASSUME [SyncNext]_allVars
  PROVE  UNCHANGED <<network, startingHeight>>
BY DEF SyncNext, Thread, LoopEnds, StartStride, AskPeer, AfterPeers, BatchDone,
       BatchTimesOut, ResetWorkList, BeginPass, TakeData, HandleData, TakeBlock,
       HandleBlock, AddNextBlock, EndPass, Ingestion, allVars, syncVars, netVars

LEMMA MemoryUnchanged ==
  ASSUME UNCHANGED vars
  PROVE  /\ UNCHANGED <<MemoryHeights, SerializedHeight, incomingBlocks, tipOfSerializedChain,
                        proc, exit>>
         /\ \A b : Stored(b)' = Stored(b)
BY DEF vars, memory, disk, chunkBuckets, MemoryHeights, SerializedHeight, Stored

\* A step that leaves the store and the blocks under way alone.
LEMMA FeedFrame ==
  ASSUME NEW H, FeedInv(H), UNCHANGED <<vars, toAdd, AllowedBlocks>>,
         toAdd = {} \/ inPass',
         Feeding' => Feeding /\ chainBlocks' = chainBlocks,
         toAsk' \subseteq Peers,
         ibdPc' = "ask" /\ toAsk' # {} => topRange' > H \/ topRange' = StrideHigh'
  PROVE  FeedInv(H)'
<1>1. /\ UNCHANGED <<MemoryHeights, SerializedHeight, incomingBlocks, tipOfSerializedChain>>
      /\ \A b : Stored(b)' = Stored(b)
  BY MemoryUnchanged
<1>2. QED
  BY <1>1 DEF FeedInv

LEMMA WindowFrame ==
  ASSUME NEW c, WindowFrom(c),
         UNCHANGED <<vars, toAdd, AllowedBlocks, topRange, startingHeight>>,
         Feeding' => Feeding
  PROVE  WindowFrom(c)'
<1>1. UNCHANGED <<MemoryHeights, SerializedHeight>>
  BY MemoryUnchanged
<1>2. LastAsked' = LastAsked
  BY DEF LastAsked
<1>3. QED
  BY <1>1, <1>2 DEF WindowFrom

\* Everything but the requests, the answers and the store.
LEMMA OtherSteps ==
  ASSUME NEW H, AskedInv(H), FeedInv(H), NEW c, WindowFrom(c), network = "reliable",
         \/ LoopEnds \/ StartStride \/ AfterPeers \/ BatchDone \/ BatchTimesOut \/ ResetWorkList
         \/ BeginPass \/ TakeBlock \/ EndPass \/ UNCHANGED allVars
  PROVE  FeedInv(H)' /\ WindowFrom(c)'
<1>1. toAsk \subseteq Peers
  BY DEF FeedInv
<1>2. CASE LoopEnds
  <2>1. /\ UNCHANGED <<vars, toAdd, AllowedBlocks, topRange, startingHeight, inPass, toAsk>>
        /\ ~ Feeding' /\ ibdPc' = "done"
    BY <1>2 DEF LoopEnds, netVars, loopVars, Feeding
  <2>2. QED
    BY <1>1, <2>1, FeedFrame, WindowFrame DEF FeedInv
<1>3. CASE StartStride
  <2>1. /\ UNCHANGED <<vars, toAdd, AllowedBlocks, topRange, startingHeight, inPass, iStride>>
        /\ Feeding' = Feeding /\ chainBlocks' = chainBlocks
        /\ toAsk' = Peers /\ ibdPc = "top"
    BY <1>3 DEF StartStride, netVars, loopVars, Feeding
  <2>2. topRange > H \/ topRange = StrideHigh
    BY <2>1 DEF AskedInv
  <2>3. StrideHigh' = StrideHigh
    BY <2>1 DEF StrideHigh
  <2>4. QED
    BY <1>1, <2>1, <2>2, <2>3, FeedFrame, WindowFrame DEF FeedInv
<1>4. CASE AfterPeers
  <2>1. /\ UNCHANGED <<vars, toAdd, AllowedBlocks, topRange, startingHeight, inPass, toAsk>>
        /\ Feeding' = Feeding /\ chainBlocks' = chainBlocks
        /\ toAsk = {}
    BY <1>4 DEF AfterPeers, netVars, loopVars, Feeding
  <2>2. QED
    BY <1>1, <2>1, FeedFrame, WindowFrame DEF FeedInv
<1>5. CASE BatchDone
  <2>1. /\ UNCHANGED <<vars, toAdd, AllowedBlocks, topRange, startingHeight, inPass, toAsk>>
        /\ Feeding' = Feeding /\ chainBlocks' = chainBlocks
        /\ ibdPc' = "top"
    BY <1>5 DEF BatchDone, netVars, loopVars, Feeding
  <2>2. QED
    BY <1>1, <2>1, FeedFrame, WindowFrame DEF FeedInv
<1>6. CASE BatchTimesOut \/ ResetWorkList
  BY <1>6 DEF BatchTimesOut, ResetWorkList, AskedInv
<1>7. CASE BeginPass
  <2>1. /\ UNCHANGED <<vars, toAdd, AllowedBlocks, topRange, startingHeight, toAsk, ibdPc, iStride>>
        /\ (Feeding' => Feeding) /\ chainBlocks' = chainBlocks
        /\ inPass'
    BY <1>7 DEF BeginPass, netVars, threadVars, Feeding
  <2>2. StrideHigh' = StrideHigh
    BY <2>1 DEF StrideHigh
  <2>3. QED
    BY <1>1, <2>1, <2>2, FeedFrame, WindowFrame DEF FeedInv
<1>8. CASE TakeBlock
  <2>1. /\ UNCHANGED <<vars, toAdd, AllowedBlocks, topRange, startingHeight, toAsk, ibdPc, iStride>>
        /\ Feeding' => Feeding /\ chainBlocks' = chainBlocks
        /\ toAdd = {}
    BY <1>8 DEF TakeBlock, HandleBlock, threadVars, loopVars, Feeding
  <2>2. StrideHigh' = StrideHigh
    BY <2>1 DEF StrideHigh
  <2>3. QED
    BY <1>1, <2>1, <2>2, FeedFrame, WindowFrame DEF FeedInv
<1>9. CASE EndPass
  <2>1. /\ UNCHANGED <<vars, toAdd, AllowedBlocks, topRange, startingHeight, toAsk, ibdPc, iStride>>
        /\ Feeding' = Feeding /\ chainBlocks' = chainBlocks
        /\ toAdd = {}
    BY <1>9 DEF EndPass, netVars, threadVars, Feeding
  <2>2. StrideHigh' = StrideHigh
    BY <2>1 DEF StrideHigh
  <2>3. QED
    BY <1>1, <2>1, <2>2, FeedFrame, WindowFrame DEF FeedInv
<1>10. CASE UNCHANGED allVars
  <2>1. /\ UNCHANGED <<vars, toAdd, AllowedBlocks, topRange, startingHeight, toAsk, ibdPc, iStride>>
        /\ Feeding' = Feeding /\ chainBlocks' = chainBlocks /\ inPass' = inPass
    BY <1>10 DEF allVars, syncVars, netVars, threadVars, loopVars, Feeding
  <2>2. StrideHigh' = StrideHigh
    BY <2>1 DEF StrideHigh
  <2>3. QED
    BY <1>1, <2>1, <2>2, FeedFrame, WindowFrame DEF FeedInv
<1>11. QED
  BY <1>2, <1>3, <1>4, <1>5, <1>6, <1>7, <1>8, <1>9, <1>10

\* An answer: what is kept of it was awaited.
LEMMA AnswerStep ==
  ASSUME NEW H, AskedInv(H), FeedInv(H), NEW c \in Nat, WindowFrom(c),
         startingHeight \in Nat, TakeData
  PROVE  FeedInv(H)' /\ WindowFrom(c)'
<1>1. /\ UNCHANGED <<vars, topRange, startingHeight, toAsk, ibdPc, iStride>>
      /\ inPass' /\ toAdd = {}
      /\ AllowedBlocks' \subseteq AllowedBlocks
      /\ Feeding' => Feeding /\ chainBlocks' = chainBlocks /\ AllowedBlocks' \cap toAdd' = {}
      /\ toAdd' # {} => Feeding /\ toAdd' \subseteq AllowedBlocks
  BY DEF TakeData, HandleData, netVars, threadVars, Feeding
<1>2. /\ UNCHANGED <<MemoryHeights, SerializedHeight, incomingBlocks, tipOfSerializedChain>>
      /\ \A b : Stored(b)' = Stored(b)
  BY <1>1, MemoryUnchanged
<1>3. StrideHigh' = StrideHigh /\ LastAsked' = LastAsked
  BY <1>1 DEF StrideHigh, LastAsked
<1>4. FeedInv(H)'
  BY <1>1, <1>2, <1>3 DEF FeedInv
<1>5. LastAsked \in Int /\ AncientChunkSize \in Nat
  BY Strides, SizesAssumption DEF LastAsked, AskedInv
<1>6. toAdd' # {} => /\ toAdd' \subseteq (c + 1)..LastAsked
                     /\ LastAsked <= c + AncientChunkSize
  BY <1>1 DEF WindowFrom
<1>7. toAdd' \subseteq (c + 1)..(c + AncientChunkSize)
  BY <1>5, <1>6
<1>8. \A h \in toAdd' : h <= LastAsked
  BY <1>5, <1>6
<1>9. ASSUME Feeding'
      PROVE  /\ c <= LastAsked /\ LastAsked <= c + AncientChunkSize
             /\ AllowedBlocks' \subseteq (c + 1)..LastAsked
             /\ \A h \in MemoryHeights \cup toAdd' \cup {SerializedHeight} : h <= LastAsked
  BY <1>1, <1>8, <1>9 DEF WindowFrom
<1>10. WindowFrom(c)'
  BY <1>1, <1>2, <1>3, <1>7, <1>9 DEF WindowFrom
<1>11. QED
  BY <1>4, <1>10

\* The next block that has come goes into memory.
LEMMA AddStep ==
  ASSUME NEW H, AskedInv(H), FeedInv(H), NEW c \in Nat, WindowFrom(c), AddNextBlock
  PROVE  FeedInv(H)' /\ WindowFrom(c)' /\ UNCHANGED <<proc, exit>>
<1> DEFINE m == Min(toAdd)
<1>1. /\ m \in toAdd /\ m \in 1..Len(PeerChain)
      /\ PeerChain[m] \in Blocks /\ m \notin MemoryHeights
  BY NextToAdd DEF AddNextBlock, AskedInv, FeedInv
<1>2. PeerChain[m] \notin incomingBlocks
  BY <1>1 DEF MemoryHeights
<1>3. /\ incomingBlocks' = incomingBlocks \cup {PeerChain[m]}
      /\ UNCHANGED <<tipOfSerializedChain, disk, proc, exit>>
      /\ toAdd' = toAdd \ {m}
  BY <1>2 DEF AddNextBlock, AddBlock, addBlockUnsafe
<1>4. UNCHANGED <<AllowedBlocks, topRange, startingHeight, toAsk, ibdPc, iStride, ibdMode,
                  isFollowingChain, chainBlocks, inPass>>
  BY DEF AddNextBlock, netVars, threadVars
<1> HIDE DEF m
<1>5. MemoryHeights' = MemoryHeights \cup {m}
  <2>1. \A h \in 1..Len(PeerChain) : PeerChain[h] = PeerChain[m] => h = m
    BY <1>1, PeerChainHeights
  <2>2. QED
    BY <1>1, <1>3, <2>1 DEF MemoryHeights
<1>6. UNCHANGED <<SerializedHeight, LastAsked, StrideHigh, Feeding>>
      /\ \A b : Stored(b)' = Stored(b)
  BY <1>3, <1>4 DEF SerializedHeight, LastAsked, StrideHigh, Feeding, Stored, disk, chunkBuckets
<1>7. toAdd' \cup MemoryHeights' = toAdd \cup MemoryHeights
  BY <1>1, <1>3, <1>5
<1>8. FeedInv(H)'
  <2>1. incomingBlocks' \subseteq {PeerChain[h] : h \in 1..Len(PeerChain)}
    BY <1>1, <1>3 DEF FeedInv
  <2>2. toAdd' \cap MemoryHeights' = {}
    BY <1>3, <1>5 DEF FeedInv
  <2>3. ~ inPass' => toAdd' = {}
    BY <1>1, <1>4 DEF FeedInv
  <2>4. QED
    BY <1>3, <1>4, <1>6, <1>7, <2>1, <2>2, <2>3 DEF FeedInv
<1>9. WindowFrom(c)'
  <2>1. AncientChunkSize \in Nat
    BY SizesAssumption
  <2>2. (SerializedHeight + 1)..c \subseteq MemoryHeights'
    BY <1>5 DEF WindowFrom
  <2>3. toAdd' \subseteq (c + 1)..(c + AncientChunkSize)
    BY <1>3 DEF WindowFrom
  <2>4. m <= c + AncientChunkSize
    BY <1>1, <2>1 DEF WindowFrom
  <2>5. \A h \in MemoryHeights' : h <= c + AncientChunkSize
    BY <1>5, <2>4 DEF WindowFrom
  <2>6. MemoryHeights' \cup toAdd' \cup {SerializedHeight}
          = MemoryHeights \cup toAdd \cup {SerializedHeight}
    BY <1>7
  <2>7. QED
    BY <1>4, <1>6, <2>2, <2>3, <2>5, <2>6 DEF WindowFrom
<1>10. QED
  BY <1>3, <1>8, <1>9

\* Ingestion cuts the next chunk of the chain, or nothing.
LEMMA IngestStep ==
  ASSUME ~ DiskCanFail, ServedStore, proc = "up", SteadyDownload, startingHeight \in Nat,
         NEW H, FeedInv(H), NEW w \in Nat, WindowFrom(w), Ingestion
  PROVE  FeedInv(H)' /\ WindowFrom(w)' /\ UNCHANGED <<proc, exit>>
<1> DEFINE n == AncientChunkSize
           T == SerializedHeight
           cut == (T + 1)..(T + n)
<1>1. /\ n \in Nat /\ n >= 2 /\ T \in Nat /\ T % n = 0
      /\ MemoryHeights \subseteq Nat /\ Len(PeerChain) \in Nat
  <2>1. MemoryHeights \subseteq Nat
    BY Memory
  <2>2. T \in Nat /\ T % n = 0
    BY DEF FeedInv
  <2>3. QED
    BY <2>1, <2>2, SizesAssumption, SyncAssumption
<1>2. BufferInv /\ toSerialize = {} /\ Run /\ UNCHANGED syncVars
  BY DEF ServedStore, BufferInv, NothingLeftInBuffer, Ingestion
<1>3. Cardinality(incomingBlocks) > n
  BY <1>2, Steady DEF Run, MoreThan
<1>4. cut \subseteq MemoryHeights
  BY <1>3, NoHole
<1>5. \A c \in Chunks(incomingBlocks) : ChunkIsValid(c)
  BY <1>4, NextChunkIsValid
<1>6. ~ SerializationIsFatal
  <2>1. incomingBlocks \cup toSerialize = incomingBlocks
    BY <1>2
  <2>2. QED
    BY <1>5, <2>1 DEF SerializationIsFatal
<1>7. UNCHANGED <<proc, exit>>
  BY <1>2, <1>6 DEF Run
<1>8. PICK c \in Chunks(incomingBlocks) : ChunkLeaves(c)
  BY <1>2, <1>6, RunCutsAChunk
<1>9. \A i \in 1..n : c[i] = PeerChain[T + i] /\ T + i \in 1..Len(PeerChain)
  <2> TAKE i \in 1..n
  <2>1. T + i \in MemoryHeights
    BY <1>1, <1>4
  <2>2. QED
    BY <1>4, <2>1, NextChunk, Memory
<1>10. c \in ChunkShape /\ ChunkIsValid(c) /\ serializeBlocks(c)
       /\ tipOfSerializedChain' = c[n] /\ incomingBlocks' = incomingBlocks \ Range(c)
  BY <1>2, <1>8, ChunkType DEF ChunkLeaves, BufferInv, TypeOK, MemoryTypeOK
<1>11. Range(c) = {PeerChain[h] : h \in cut}
  <2>1. Range(c) = {c[i] : i \in 1..n}
    BY <1>10 DEF Range, ChunkShape
  <2>2. \A h \in cut : h - T \in 1..n /\ h = T + (h - T)
    BY <1>1
  <2>3. \A i \in 1..n : T + i \in cut
    BY <1>1
  <2>4. QED
    BY <1>9, <2>1, <2>2, <2>3
<1>12. n \in 1..n /\ T + n \in cut
  BY <1>1
<1>13. tipOfSerializedChain' = PeerChain[T + n] /\ T + n \in 1..Len(PeerChain)
       /\ PeerChain[T + n] \in Blocks /\ Height[PeerChain[T + n]] = T + n
  BY <1>9, <1>10, <1>12, PeerChainHeights
<1>14. SerializedHeight' = T + n
  BY <1>13, BlocksAssumption DEF SerializedHeight
<1>15. (T + n) % n = 0
  <2>1. T \div n \in Nat /\ T = (T \div n) * n
    BY <1>1, DivMod
  <2> DEFINE q == T \div n
  <2>2. T + n = (q + 1) * n + 0
    BY <1>1, <2>1
  <2>3. q + 1 \in Nat /\ 0 \in 0..(n - 1)
    BY <1>1, <2>1
  <2>4. QED
    BY <1>1, <2>2, <2>3, ModUnique
<1>16. MemoryHeights' = MemoryHeights \ cut
  <2>1. \A h \in 1..Len(PeerChain) : PeerChain[h] \in Range(c) <=> h \in cut
    <3> TAKE h \in 1..Len(PeerChain)
    <3>1. \A g \in cut : g \in 1..Len(PeerChain)
      BY <1>4, Memory
    <3>2. \A g \in cut : PeerChain[g] = PeerChain[h] => g = h
      BY <3>1, PeerChainHeights
    <3>3. QED
      BY <1>11, <3>2
  <2>2. QED
    BY <1>10, <2>1 DEF MemoryHeights
<1>17. \A b \in Blocks : Stored(b)' => Height[b] <= T + n
  <2> TAKE b \in Blocks
  <2> HAVE Stored(b)'
  <2>1. Stored(b) \/ b \in Range(c)
    BY <1>10, OnlyTheChunkIsStored
  <2>2. CASE Stored(b)
    <3>1. Height[b] <= T /\ Height[b] \in Nat
      BY <2>2, BlocksAssumption DEF FeedInv
    <3>2. QED
      BY <1>1, <3>1
  <2>3. CASE b \in Range(c)
    <3>1. PICK g \in cut : b = PeerChain[g]
      BY <1>11, <2>3
    <3>2. Height[b] = g
      BY <1>4, <3>1, Memory, PeerChainHeights
    <3>3. QED
      BY <1>1, <3>1, <3>2
  <2>4. QED
    BY <2>1, <2>2, <2>3
<1>18. UNCHANGED <<AllowedBlocks, topRange, startingHeight, toAsk, toAdd, ibdPc, iStride, ibdMode,
                   isFollowingChain, chainBlocks, inPass>>
       /\ UNCHANGED <<LastAsked, StrideHigh, Feeding>>
  BY <1>2 DEF syncVars, netVars, threadVars, loopVars, LastAsked, StrideHigh, Feeding
<1> HIDE DEF cut, T
<1>19. \A h \in MemoryHeights' \cup toAdd : h > T + n
  <2> TAKE h \in MemoryHeights' \cup toAdd
  <2>1. h \in Int /\ h > T
    <3>1. toAdd \subseteq Int
      BY <1>1 DEF WindowFrom
    <3>2. QED
      BY <1>1, <1>16, <3>1 DEF FeedInv, T
  <2>2. h \notin cut
    <3>1. toAdd \cap MemoryHeights = {}
      BY DEF FeedInv
    <3>2. QED
      BY <1>4, <1>16, <3>1
  <2>3. QED
    BY <1>1, <2>1, <2>2 DEF cut
<1>20. FeedInv(H)'
  <2>1. incomingBlocks' \subseteq {PeerChain[h] : h \in 1..Len(PeerChain)}
    BY <1>10 DEF FeedInv
  <2>2. SerializedHeight' \in Nat /\ SerializedHeight' % n = 0
    BY <1>1, <1>14, <1>15
  <2>3. SerializedHeight' \in 1..Len(PeerChain)
        /\ tipOfSerializedChain' = PeerChain[SerializedHeight']
    BY <1>13, <1>14
  <2>4. \A h \in MemoryHeights' \cup toAdd' : h > SerializedHeight'
    BY <1>14, <1>18, <1>19
  <2>5. \A b \in Blocks : Stored(b)' => Height[b] <= SerializedHeight'
    BY <1>14, <1>17
  <2>6. toAdd' \cap MemoryHeights' = {} /\ (~ inPass' => toAdd' = {})
    BY <1>16, <1>18 DEF FeedInv
  <2>7. ASSUME Feeding'
        PROVE  /\ chainBlocks' = {}
               /\ AllowedBlocks' \cap (toAdd' \cup MemoryHeights') = {}
               /\ \A h \in AllowedBlocks' : h > SerializedHeight'
    <3>1. /\ chainBlocks = {} /\ AllowedBlocks \cap (toAdd \cup MemoryHeights) = {}
          /\ \A h \in AllowedBlocks : h > T
      BY <1>18, <2>7 DEF FeedInv, T
    <3>2. AllowedBlocks \subseteq Int
      <4>1. AllowedBlocks \subseteq (w + 1)..LastAsked
        BY <1>18, <2>7 DEF WindowFrom
      <4>2. QED
        BY <4>1
    <3>3. \A h \in AllowedBlocks : h > T + n
      BY <1>1, <1>4, <3>1, <3>2 DEF cut
    <3>4. QED
      BY <1>14, <1>16, <1>18, <3>1, <3>3
  <2>8. /\ toAsk' \subseteq Peers
        /\ ibdPc' = "ask" /\ toAsk' # {} => topRange' > H \/ topRange' = StrideHigh'
    BY <1>18 DEF FeedInv
  <2>9. QED
    BY <2>1, <2>2, <2>3, <2>4, <2>5, <2>6, <2>7, <2>8 DEF FeedInv
<1>21. WindowFrom(w)'
  <2>1. (SerializedHeight' + 1)..w \subseteq MemoryHeights'
    <3>1. ASSUME NEW h \in (T + n + 1)..w PROVE h \in MemoryHeights \ cut
      <4>1. h \in (T + 1)..w /\ h \notin cut
        BY <1>1, <3>1 DEF cut
      <4>2. QED
        BY <4>1 DEF WindowFrom, T
    <3>2. QED
      BY <1>14, <1>16, <3>1
  <2>2. MemoryHeights' \subseteq MemoryHeights
    BY <1>16
  <2>3. ASSUME Feeding'
        PROVE  \A h \in MemoryHeights' \cup toAdd' \cup {SerializedHeight'} : h <= LastAsked'
    <3>1. T + n \in MemoryHeights
      BY <1>4, <1>12
    <3>2. QED
      BY <1>14, <1>18, <2>2, <2>3, <3>1 DEF WindowFrom
  <2>4. QED
    BY <1>18, <2>1, <2>2, <2>3 DEF WindowFrom
<1>22. QED
  BY <1>7, <1>20, <1>21

\* The stride asked for begins where the last one ended.  Where it begins a batch, all
\* of the batches below it lie in memory or on disk: none of them is awaited any more,
\* and no block was forgotten.
LEMMA RequestStep ==
  ASSUME ServedStore, proc = "up", network = "reliable", SteadyDownload,
         StrideInv, NEW H, PeerHeights = {H}, AskedInv(H), NothingIsForgotten,
         FeedInv(H), NEW c \in Nat, WindowFrom(c), NEW p \in Peers, AskPeer(p)
  PROVE  FeedInv(H)' /\ \E d \in Nat : WindowFrom(d)'
<1> DEFINE n == AncientChunkSize
           T == SerializedHeight
<1>1. /\ ibdPc = "ask" /\ ~ inPass /\ p \in toAsk /\ toAsk' = toAsk \ {p}
      /\ UNCHANGED <<vars, startingHeight, ibdPc, iStride, ibdMode, isFollowingChain,
                     chainBlocks, inPass, toAdd, localHandlers>>
  BY DEF AskPeer, netVars, loopVars
<1>2. toAsk' = {}
  BY <1>1 DEF FeedInv, SteadyDownload
<1>3. /\ UNCHANGED <<MemoryHeights, SerializedHeight, incomingBlocks, tipOfSerializedChain>>
      /\ \A b : Stored(b)' = Stored(b)
      /\ Feeding' = Feeding /\ toAdd = {}
  BY <1>1, MemoryUnchanged DEF Feeding, FeedInv
<1>4. CASE UNCHANGED <<AllowedBlocks, topRange>>
  <2>1. FeedInv(H)'
    BY <1>1, <1>2, <1>3, <1>4, FeedFrame
  <2>2. WindowFrom(c)'
    BY <1>1, <1>3, <1>4, WindowFrame
  <2>3. QED
    BY <2>1, <2>2
<1>5. CASE ~ UNCHANGED <<AllowedBlocks, topRange>>
  <2> DEFINE high == Min({StrideHigh, localHandlers[p]})
  <2>1. /\ ~ TooLow(p)
        /\ AllowedBlocks' = AllowedBlocks \cup StrideLow..(high - 1)
        /\ topRange' = startingHeight + (iStride + 1) * blockStride + 1
    BY <1>5 DEF AskPeer
  <2>2. /\ StrideLow \in Nat /\ StrideLow >= 1 /\ StrideHigh = StrideLow + blockStride
        /\ blockStride \in Nat /\ blockStride >= 1 /\ startingHeight \in Nat
        /\ topRange \in Nat /\ H \in Nat /\ localHandlers[p] \in {0, H}
    BY StrideHeights, SyncAssumption DEF StrideInv, AskedInv
  <2>3. localHandlers[p] = H /\ topRange <= H
    BY <2>1, <2>2 DEF TooLow
  <2>4. topRange = StrideHigh
    BY <1>1, <2>2, <2>3 DEF FeedInv
  <2>5. high = StrideHigh
    BY <2>2, <2>3, <2>4 DEF Min
  <2> HIDE DEF high
  <2>6. topRange' = StrideHigh + blockStride
    <3>1. iStride \in Nat
      BY Strides DEF StrideInv
    <3>2. (iStride + 1) * blockStride = iStride * blockStride + blockStride
          /\ iStride * blockStride \in Nat
      BY <2>2, <3>1
    <3>3. QED
      BY <2>1, <2>2, <3>2 DEF StrideHigh
  <2>7. /\ LastAsked = StrideLow - 1 /\ LastAsked' = LastAsked + blockStride /\ LastAsked \in Nat
        /\ AllowedBlocks' = AllowedBlocks \cup (LastAsked + 1)..(LastAsked + blockStride)
    BY <2>1, <2>2, <2>4, <2>5, <2>6 DEF LastAsked
  <2>8. n \in Nat /\ n >= 2 /\ T \in Nat /\ MemoryHeights \subseteq Nat
    <3>1. MemoryHeights \subseteq Nat
      BY Memory
    <3>2. T \in Nat
      BY DEF FeedInv
    <3>3. QED
      BY <3>1, <3>2, SizesAssumption
  <2>9. FeedInv(H)'
    <3>1. ASSUME Feeding
          PROVE  /\ AllowedBlocks' \cap (toAdd \cup MemoryHeights) = {}
                 /\ \A h \in AllowedBlocks' : h > T
      <4>1. \A h \in MemoryHeights \cup {T} : h <= LastAsked
        BY <3>1 DEF WindowFrom
      <4>2. AllowedBlocks \cap (toAdd \cup MemoryHeights) = {} /\ \A h \in AllowedBlocks : h > T
        BY <3>1 DEF FeedInv
      <4>3. \A h \in (LastAsked + 1)..(LastAsked + blockStride) : h > T /\ h \notin MemoryHeights
        BY <2>2, <2>7, <2>8, <4>1
      <4>4. QED
        BY <1>3, <2>7, <4>2, <4>3
    <3> HIDE DEF T
    <3>2. QED
      BY <1>1, <1>2, <1>3, <3>1 DEF FeedInv, T
  <2> SUFFICES \E d \in Nat : WindowFrom(d)'
    BY <2>9
  <2>10. CASE ~ Feeding
    <3>1. WindowFrom(c)'
      BY <1>1, <1>3, <2>10 DEF WindowFrom
    <3>2. QED
      BY <3>1
  <2>11. CASE Feeding /\ LastAsked + blockStride <= c + n
    <3>1. /\ c <= LastAsked /\ AllowedBlocks \subseteq (c + 1)..LastAsked
          /\ \A h \in MemoryHeights \cup toAdd \cup {T} : h <= LastAsked
      BY <2>11 DEF WindowFrom
    <3>2. c <= LastAsked'
      BY <2>2, <2>7, <3>1
    <3>3. AllowedBlocks' \subseteq (c + 1)..LastAsked'
      BY <2>2, <2>7, <3>1
    <3>4. \A h \in MemoryHeights \cup toAdd \cup {T} : h <= LastAsked'
      BY <1>3, <2>2, <2>7, <2>8, <3>1
    <3>5. LastAsked' <= c + n
      BY <2>7, <2>11
    <3>6. WindowFrom(c)'
      BY <1>1, <1>3, <3>2, <3>3, <3>4, <3>5 DEF WindowFrom
    <3>7. QED
      BY <3>6
  <2>12. CASE Feeding /\ ~ (LastAsked + blockStride <= c + n)
    <3>1. /\ c <= LastAsked /\ LastAsked <= c + n /\ AllowedBlocks \subseteq (c + 1)..LastAsked
          /\ \A h \in MemoryHeights \cup {T} : h <= LastAsked
      BY <2>12 DEF WindowFrom
    <3>2. PICK k \in Nat : c = startingHeight + k * n
      BY DEF WindowFrom
    <3> DEFINE i == iStride - 1
               g == (k + 1) * batchStrides
    <3>3. /\ batchStrides \in Nat /\ batchStrides >= 1 /\ i \in Nat
          /\ n = batchStrides * blockStride
      BY Strides, Steady DEF StrideInv
    <3>4. g \in Nat /\ g * blockStride = k * n + n /\ k * n \in Nat
      <4>1. g \in Nat /\ k * n \in Nat
        BY <2>8, <3>3
      <4>2. g * blockStride = (k + 1) * (batchStrides * blockStride)
        BY <2>2, <3>3
      <4>3. (k + 1) * n = k * n + n
        BY <2>8
      <4>4. QED
        BY <3>3, <4>1, <4>2, <4>3
    <3> HIDE DEF g
    <3>5. LastAsked = startingHeight + i * blockStride /\ i * blockStride \in Nat
      BY <2>2, <2>7, <3>3 DEF StrideLow
    <3> HIDE DEF i
    <3>6. i = g
      <4>1. CASE i + 1 <= g
        <5>1. (i + 1) * blockStride <= g * blockStride
              /\ (i + 1) * blockStride = i * blockStride + blockStride
          BY <2>2, <3>3, <3>4, <4>1, ProductGrows
        <5>2. QED
          BY <2>2, <2>8, <2>12, <3>2, <3>4, <3>5, <5>1
      <4>2. CASE g + 1 <= i
        <5>1. (g + 1) * blockStride <= i * blockStride
              /\ (g + 1) * blockStride = g * blockStride + blockStride
          BY <2>2, <3>3, <3>4, <4>2, ProductGrows
        <5>2. QED
          BY <2>2, <2>8, <3>1, <3>2, <3>4, <3>5, <5>1
      <4>3. QED
        BY <3>3, <3>4, <4>1, <4>2
    <3>7. LastAsked = c + n
      BY <2>2, <2>8, <3>2, <3>4, <3>5, <3>6
    \* a batch begins here, so what is awaited would lie above
    <3>8. AllowedBlocks = {}
      <4>1. Batch * batchStrides = g
        <5>1. i = (k + 1) * batchStrides + 0 /\ k + 1 \in Nat /\ 0 \in 0..(batchStrides - 1)
          BY <3>3, <3>6 DEF g
        <5>2. i % batchStrides = 0
          BY <3>3, <5>1, ModUnique
        <5>3. Batch = i \div batchStrides
          BY DEF Batch, i
        <5>4. Batch \in Nat /\ i = Batch * batchStrides + 0
          BY <3>3, <5>2, <5>3, DivMod
        <5>5. QED
          BY <3>3, <3>6, <5>4
      <4>2. \A h \in BatchHeights : h > LastAsked
        <5>1. Batch * batchStrides * blockStride = LastAsked - startingHeight
          BY <2>2, <2>7, <3>4, <3>5, <3>6, <4>1
        <5>2. \A h \in BatchHeights : /\ h \in Int
                                     /\ h >= (LastAsked - startingHeight) + startingHeight + 1
          BY <2>2, <2>7, <5>1 DEF BatchHeights
        <5>3. QED
          BY <2>2, <2>7, <5>2
      <4>3. AllowedBlocks \subseteq BatchHeights
        BY <1>1 DEF StrideInv, OneBatchAtATime
      <4>4. QED
        BY <2>7, <3>1, <4>2, <4>3
    \* and everything below has arrived
    <3>9. (SerializedHeight + 1)..(c + n) \subseteq MemoryHeights
      <4> SUFFICES ASSUME NEW h \in (T + 1)..(c + n), h > c PROVE h \in MemoryHeights
        BY <2>8 DEF WindowFrom
      <4>1. h \in (startingHeight + 1)..LastAsked
        BY <2>2, <2>8, <3>2, <3>4, <3>7
      <4>2. Arrived(h)
        BY <3>8, <4>1, <2>12 DEF NothingIsForgotten, Feeding, LastAsked
      <4>3. Retrievable(PeerChain[h])
        BY <1>3, <2>12, <4>2 DEF Arrived, FeedInv
      <4>4. h \in 1..Len(PeerChain)
        BY <2>3, <2>4, <2>2, <2>7, <4>1, SyncAssumption
      <4>5. PeerChain[h] \in Blocks /\ Height[PeerChain[h]] = h
        BY <4>4, PeerChainHeights
      <4>6. ~ Stored(PeerChain[h])
        BY <2>8, <4>5 DEF FeedInv
      <4>7. toSerialize = {}
        BY DEF ServedStore, BufferInv, NothingLeftInBuffer
      <4>8. QED
        BY <4>3, <4>4, <4>6, <4>7 DEF Retrievable, MemoryHeights
    <3> DEFINE d == c + n
    <3>10. d \in Nat /\ \E j \in Nat : d = startingHeight + j * n
      <4>1. d = startingHeight + (k + 1) * n
        BY <2>2, <2>8, <3>2
      <4>2. k + 1 \in Nat
        OBVIOUS
      <4>3. d \in Nat
        BY <2>8
      <4>4. QED
        BY <4>1, <4>2, <4>3
    <3>11. blockStride <= n
      <4>1. 1 * blockStride <= batchStrides * blockStride
        BY <2>2, <3>3, ProductGrows
      <4>2. QED
        BY <2>2, <3>3, <4>1
    <3>12. /\ d <= LastAsked' /\ LastAsked' <= d + n
           /\ AllowedBlocks' \subseteq (d + 1)..LastAsked'
      BY <2>2, <2>7, <2>8, <3>7, <3>8, <3>11
    <3>13. /\ \A h \in MemoryHeights : h <= d + n
           /\ \A h \in MemoryHeights \cup toAdd \cup {T} : h <= LastAsked'
      BY <1>3, <2>2, <2>7, <2>8, <3>1, <3>7
    <3>14. toAdd' \subseteq (d + 1)..(d + n) /\ (SerializedHeight' + 1)..d \subseteq MemoryHeights'
      BY <1>1, <1>3, <3>9
    <3>15. WindowFrom(d)'
      BY <1>1, <1>3, <3>10, <3>12, <3>13, <3>14 DEF WindowFrom
    <3>16. QED
      BY <3>10, <3>15
  <2>13. QED
    BY <2>10, <2>11, <2>12
<1>6. QED
  BY <1>4, <1>5

LEMMA SteadyAtStart ==
  ASSUME NEW H, PeerHeights = {H}, SyncInit
  PROVE  SteadyInv(H)
<1> DEFINE n == AncientChunkSize
<1>1. PICK st \in Starts : StoreUpTo(st[1], st[2]) /\ startingHeight = st[2]
  BY DEF SyncInit
<1> DEFINE s == st[1]
           t == st[2]
<1>2. /\ s \in Nat /\ t \in Nat /\ s % n = 0 /\ s < t /\ t <= Len(PeerChain)
      /\ Len(PeerChain) \in Nat /\ blockStride \in Nat /\ n \in Nat /\ n >= 2
  BY SyncAssumption, SizesAssumption
<1> HIDE DEF s, t
<1>3. /\ incomingBlocks = {PeerChain[h] : h \in (s + 1)..t}
      /\ tipOfSerializedChain = IF s = 0 THEN NoBlock ELSE PeerChain[s]
      /\ hash2chunk = [b \in {PeerChain[h] : h \in 1..s} |-> PeerChain[FirstOf(Height[b])]]
      /\ startingHeight = t
  BY <1>1 DEF StoreUpTo, s, t, FirstOf
<1>4. /\ proc = "up" /\ exit = "clean" /\ chainBlocks = {} /\ AllowedBlocks = {}
      /\ toAdd = {} /\ toAsk = {} /\ ~ inPass /\ topRange = t + blockStride + 1
  BY <1>3 DEF SyncInit
<1>5. MemoryHeights = (s + 1)..t
  <2>1. \A h \in 1..Len(PeerChain) : PeerChain[h] \in incomingBlocks <=> h \in (s + 1)..t
    <3> TAKE h \in 1..Len(PeerChain)
    <3>1. \A g \in (s + 1)..t : g \in 1..Len(PeerChain)
      BY <1>2
    <3>2. \A g \in (s + 1)..t : PeerChain[g] = PeerChain[h] => g = h
      BY <3>1, PeerChainHeights
    <3>3. QED
      BY <1>3, <3>2
  <2>2. (s + 1)..t \subseteq 1..Len(PeerChain)
    BY <1>2
  <2>3. QED
    BY <2>1, <2>2 DEF MemoryHeights
<1>6. SerializedHeight = s /\ (s # 0 => s \in 1..Len(PeerChain))
  <2>1. s # 0 => s \in 1..Len(PeerChain)
    BY <1>2
  <2>2. QED
    BY <1>3, <2>1, PeerChainHeights, BlocksAssumption DEF SerializedHeight
<1>7. LastAsked = t
  BY <1>2, <1>4 DEF LastAsked
<1>8. \A b \in Blocks : Stored(b) => Height[b] <= s
  <2> TAKE b \in Blocks
  <2> HAVE Stored(b)
  <2>1. PICK h \in 1..s : b = PeerChain[h]
    BY <1>3 DEF Stored
  <2>2. QED
    BY <1>2, <2>1, PeerChainHeights
<1>9. FeedInv(H)
  <2>1. tipOfSerializedChain # NoBlock =>
          s \in 1..Len(PeerChain) /\ tipOfSerializedChain = PeerChain[s]
    BY <1>3, <1>6
  <2>2. incomingBlocks \subseteq {PeerChain[h] : h \in 1..Len(PeerChain)}
    BY <1>2, <1>3
  <2>3. \A h \in MemoryHeights \cup toAdd : h > s
    BY <1>2, <1>4, <1>5
  <2>4. QED
    BY <1>2, <1>4, <1>6, <1>8, <2>1, <2>2, <2>3 DEF FeedInv
<1>10. WindowFrom(t)
  <2>1. t = startingHeight + 0 * n /\ 0 \in Nat
    BY <1>2, <1>3
  <2>2. \A h \in MemoryHeights : h <= t + n /\ h <= t
    BY <1>2, <1>5
  <2>3. QED
    BY <1>2, <1>4, <1>5, <1>6, <1>7, <2>1, <2>2 DEF WindowFrom
<1>11. QED
  BY <1>2, <1>4, <1>9, <1>10 DEF SteadyInv

LEMMA SteadyStep ==
  ASSUME PruneHeights = {}, ~ DiskCanFail, NEW H, PeerHeights = {H}, ServedStore,
         StrideInv, AskedInv(H), NothingIsForgotten, SteadyInv(H), [SyncNext]_allVars
  PROVE  SteadyInv(H)'
<1>1. UNCHANGED <<network, startingHeight>>
  BY SteadyStays
<1>2. SteadyDownload' = SteadyDownload
  BY <1>1 DEF SteadyDownload
<1> SUFFICES ASSUME network = "reliable", SteadyDownload
             PROVE  proc' = "up" /\ exit' # "fatal" /\ FeedInv(H)' /\ \E d \in Nat : WindowFrom(d)'
  BY <1>1, <1>2 DEF SteadyInv
<1>3. proc = "up" /\ exit # "fatal" /\ FeedInv(H) /\ startingHeight \in Nat
  BY DEF SteadyInv, StrideInv
<1>4. PICK c \in Nat : WindowFrom(c)
  BY DEF SteadyInv
<1>5. CASE \E p \in Peers : AskPeer(p)
  <2>1. UNCHANGED <<proc, exit>>
    BY <1>5, MemoryUnchanged DEF AskPeer
  <2>2. QED
    BY <1>3, <1>4, <1>5, <2>1, RequestStep
<1>6. CASE TakeData
  <2>1. UNCHANGED <<proc, exit>>
    BY <1>6, MemoryUnchanged DEF TakeData, HandleData
  <2>2. QED
    BY <1>3, <1>4, <1>6, <2>1, AnswerStep
<1>7. CASE AddNextBlock
  BY <1>3, <1>4, <1>7, AddStep
<1>8. CASE Ingestion
  BY <1>3, <1>4, <1>8, IngestStep
<1>9. CASE \/ LoopEnds \/ StartStride \/ AfterPeers \/ BatchDone \/ BatchTimesOut \/ ResetWorkList
           \/ BeginPass \/ TakeBlock \/ EndPass \/ UNCHANGED allVars
  <2>1. UNCHANGED vars
    BY <1>9 DEF LoopEnds, StartStride, AfterPeers, BatchDone, BatchTimesOut, ResetWorkList,
                BeginPass, TakeBlock, HandleBlock, EndPass, allVars
  <2>2. UNCHANGED <<proc, exit>>
    BY <2>1, MemoryUnchanged
  <2>3. QED
    BY <1>3, <1>4, <1>9, <2>2, OtherSteps
<1>10. QED
  BY <1>5, <1>6, <1>7, <1>8, <1>9 DEF SyncNext, Thread

\* However long the chain, however its blocks are cut into strides, and in whatever
\* order the answers come: a steady download from one peer never makes the store's
\* pair check end the process.  (AddBlockRange, runSerialization and orderedPairCheck
\* under the download thread's batches.)
THEOREM SteadyDownloadSurvives ==
  ASSUME PruneHeights = {}, ~ DiskCanFail, NEW H, PeerHeights = {H}
  PROVE  SyncSpec => []DownloadSurvives
<1> DEFINE DownloadInv == /\ StrideInv /\ ServedStore /\ AskedInv(H)
                          /\ NothingIsForgotten /\ SteadyInv(H)
<1>1. SyncInit => DownloadInv
  BY StrideInvInit, StoreAtStart, AskedInit, SteadyAtStart
<1>2. DownloadInv /\ [SyncNext]_allVars => DownloadInv'
  <2>1. AskedInv(H) => toAdd \subseteq 1..Len(PeerChain)
    BY DEF AskedInv
  <2>2. QED
    BY <2>1, StrideInvStep, ServedStoreStep, AskedStep, NothingIsForgottenStep, SteadyStep
<1>3. DownloadInv => DownloadSurvives
  BY DEF SteadyInv, DownloadSurvives
<1> HIDE DEF DownloadInv
<1>4. QED
  BY <1>1, <1>2, <1>3, PTL DEF SyncSpec

=============================================================================
