------------------------- MODULE OverlineDBLogProofs ------------------------
(***************************************************************************)
(* OverlineDB implements ChainLog, for every tree of blocks: every step of *)
(* the store appends one chunk to the log or leaves it alone.              *)
(***************************************************************************)
EXTENDS OverlineDBLog, OverlineDBProofs, SequenceTheorems

\* The log is read from the chunk buckets alone.
LEMMA LogUnchanged ==
  ASSUME UNCHANGED chunkBuckets
  PROVE  serializedLog' = serializedLog
BY DEF serializedLog, chunkBuckets

\* What a concatenation has at each place.
LEMMA Concatenated ==
  ASSUME NEW S, NEW s \in Seq(S), NEW t \in Seq(S)
  PROVE  s \o t = [i \in 1..(Len(s) + Len(t)) |-> IF i <= Len(s) THEN s[i] ELSE t[i - Len(s)]]
<1> DEFINE u == s \o t
           w == [i \in 1..(Len(s) + Len(t)) |-> IF i <= Len(s) THEN s[i] ELSE t[i - Len(s)]]
<1>1. Len(s) \in Nat /\ Len(t) \in Nat
  OBVIOUS
<1>2. u \in Seq(S) /\ Len(u) = Len(s) + Len(t)
  OBVIOUS
<1>3. \A i \in 1..(Len(s) + Len(t)) : w[i] \in S
  <2> TAKE i \in 1..(Len(s) + Len(t))
  <2>1. CASE i <= Len(s)
    BY <1>1, <2>1
  <2>2. CASE ~ (i <= Len(s))
    <3>1. i - Len(s) \in 1..Len(t)
      BY <1>1, <2>2
    <3>2. QED
      BY <2>2, <3>1
  <2>3. QED
    BY <2>1, <2>2
<1>4. w \in Seq(S) /\ Len(w) = Len(s) + Len(t)
  BY <1>1, <1>3
<1>5. \A i \in 1..(Len(s) + Len(t)) : u[i] = w[i]
  BY <1>1, ConcatProperties
<1> HIDE DEF u, w
<1>6. u = w
  BY <1>2, <1>4, <1>5, SeqEqual
<1>7. QED
  BY <1>6 DEF u, w

\* A sequence of blocks is a chain if its parts are and the second continues the
\* first.
LEMMA ChainsConcatenated ==
  ASSUME NEW s \in Seq(Blocks), NEW t \in Seq(Blocks), t # <<>>,
         Log!IsChain(s),
         \A i \in 1..(Len(t) - 1) : Log!OrderedBlockPairIsValid(t[i], t[i + 1]),
         IF s = <<>> THEN t[1] = Genesis
                     ELSE Log!OrderedBlockPairIsValid(s[Len(s)], t[1])
  PROVE  Log!IsChain(s \o t)
<1> DEFINE m == Len(s)
           n == Len(t)
           u == s \o t
<1>1. m \in Nat /\ n \in Nat /\ n >= 1 /\ (s # <<>> <=> m >= 1)
  OBVIOUS
<1>2. /\ Len(u) = m + n
      /\ \A i \in 1..m : u[i] = s[i]
      /\ \A i \in 1..n : u[m + i] = t[i]
  OBVIOUS
<1> HIDE DEF m, n, u
<1>3. u[1] = Genesis
  <2>1. CASE s = <<>>
    BY <1>1, <1>2, <2>1
  <2>2. CASE s # <<>>
    BY <1>1, <1>2, <2>2 DEF Log!IsChain
  <2>3. QED
    BY <2>1, <2>2
<1>4. ASSUME NEW i \in 1..(m + n - 1) PROVE Log!OrderedBlockPairIsValid(u[i], u[i + 1])
  <2>1. CASE i < m
    <3>1. i \in 1..(m - 1) /\ i \in 1..m /\ i + 1 \in 1..m
      BY <1>1, <2>1
    <3>2. QED
      BY <1>2, <3>1 DEF Log!IsChain, m
  <2>2. CASE i = m
    <3>1. m \in 1..m /\ u[m + 1] = t[1] /\ s # <<>>
      BY <1>1, <1>2, <2>2
    <3>2. QED
      BY <1>2, <2>2, <3>1 DEF m
  <2>3. CASE i > m
    <3>1. PICK j \in 1..(n - 1) : i = m + j
      <4>1. i - m \in 1..(n - 1) /\ i = m + (i - m)
        BY <1>1, <2>3
      <4>2. QED
        BY <4>1
    <3>2. j \in 1..n /\ j + 1 \in 1..n /\ i + 1 = m + (j + 1)
      BY <1>1, <3>1
    <3>3. u[i] = t[j] /\ u[i + 1] = t[j + 1]
      BY <1>2, <3>1, <3>2
    <3>4. QED
      BY <3>1, <3>3 DEF n
  <2>4. QED
    BY <1>1, <2>1, <2>2, <2>3
<1>5. QED
  BY <1>2, <1>3, <1>4 DEF Log!IsChain, u

\* The height up to which the store is serialized.
LogHeight == IF lastWritten = NoBlock THEN 0 ELSE Height[lastWritten]

LEMMA LogType ==
  ASSUME BufferInv, ChainInv
  PROVE  /\ LogHeight \in Nat
         /\ serializedLog \in Seq(Blocks)
         /\ Len(serializedLog) = LogHeight
         /\ serializedLog = <<>> <=> lastWritten = NoBlock
<1>1. /\ lastWritten \in BlockOrNil /\ NoBlock \notin Blocks
      /\ lastWritten # NoBlock =>
           \A h \in 1..Height[lastWritten] : height2hash[h] \in Blocks
  BY BlocksAssumption
  DEF BufferInv, TypeOK, ChunkBucketsTypeOK, IsMap, ChainInv, SerializedChainIsWhole
<1>2. LogHeight \in Nat /\ (lastWritten # NoBlock => LogHeight >= 1)
  BY <1>1, BlocksAssumption DEF BlockOrNil, LogHeight
<1>3. QED
  BY <1>1, <1>2 DEF serializedLog, LogHeight

\* A chunk that leaves memory has the heights that follow those of the log.
LEMMA ChunkOnTop ==
  ASSUME BufferInv, ChainInv, LogInv,
         proc \in {"up", "flushing", "flushed"},
         NEW c \in Chunks(incomingBlocks), ChunkLeaves(c)
  PROVE  /\ c \in ChunkShape /\ ChunkIsValid(c) /\ serializeBlocks(c)
         /\ tipOfSerializedChain = lastWritten
         /\ lastWritten = NoBlock => c[1] = Genesis
         /\ \A i \in 1..AncientChunkSize : Height[c[i]] = LogHeight + i /\ c[i] \in Blocks
<1> DEFINE n == AncientChunkSize
           top == LogHeight
<1>1. c \in ChunkShape /\ ChunkIsValid(c) /\ serializeBlocks(c)
  BY ChunkType DEF ChunkLeaves, BufferInv, TypeOK, MemoryTypeOK
<1>2. n \in Nat /\ n >= 2
  BY SizesAssumption
<1>3. top \in Nat
  BY LogType
<1>4. tipOfSerializedChain = lastWritten
  BY DEF ChainInv, TipIsLastWritten, LogInv
<1>5. lastWritten = NoBlock => c[1] = Genesis
  BY <1>1, <1>4, FirstChunkStartsAtGenesis DEF ChainInv, BufferInv, TypeOK, MemoryTypeOK
<1>6. Height[c[1]] = top + 1
  <2>1. CASE lastWritten = NoBlock
    BY <1>5, <2>1, BlocksAssumption DEF LogHeight
  <2>2. CASE lastWritten # NoBlock
    <3>1. Height[c[1]] - 1 = top
      BY <1>1, <1>4, <2>2 DEF ChunkIsValid, OrderedBlockPairIsValid, LogHeight
    <3>2. Height[c[1]] \in Nat
      BY <1>1, <1>2, BlocksAssumption DEF ChunkShape
    <3>3. QED
      BY <1>3, <3>1, <3>2
  <2>3. QED
    BY <2>1, <2>2
<1>7. \A i \in 1..n : Height[c[i]] = top + i /\ c[i] \in Blocks
  <2> TAKE i \in 1..n
  <2>1. Height[c[i]] = Height[c[1]] + i - 1
    BY <1>1, ChunkHeights
  <2>2. QED
    BY <1>1, <1>2, <1>3, <1>6, <2>1 DEF ChunkShape
<1>8. QED
  BY <1>1, <1>4, <1>5, <1>7

\* A chunk that serialization writes is appended to the log.
LEMMA ChunkIsAppended ==
  ASSUME ~ DiskCanFail, BufferInv, ChainInv, LogInv,
         proc \in {"up", "flushing", "flushed"},
         NEW c \in Chunks(incomingBlocks), ChunkLeaves(c)
  PROVE  serializedLog' = serializedLog \o c /\ Log!IsChain(serializedLog')
<1> DEFINE n == AncientChunkSize
           top == LogHeight
           s == serializedLog
<1>1. c \in ChunkShape /\ ChunkIsValid(c) /\ serializeBlocks(c)
  BY ChunkOnTop
<1>2. n \in Nat /\ n >= 2
  BY SizesAssumption
<1>3. c \in Seq(Blocks) /\ Len(c) = n /\ c # <<>>
  BY <1>1, <1>2 DEF ChunkShape
<1>4. top \in Nat
  BY LogType
<1>5. s \in Seq(Blocks) /\ Len(s) = top /\ (s = <<>> <=> lastWritten = NoBlock)
  BY LogType
<1>6. tipOfSerializedChain = lastWritten
  BY ChunkOnTop
<1>7. \A i \in 1..n : Height[c[i]] = top + i /\ c[i] \in Blocks
  BY ChunkOnTop
<1>8. /\ lastWritten' = c[n]
      /\ \A i \in 1..n : height2hash'[Height[c[i]]] = c[i]
      /\ \A h \in DOMAIN height2hash \ Heights(Range(c)) : height2hash'[h] = height2hash[h]
  BY <1>1, ChunkWritten
<1>9. lastWritten' # NoBlock /\ Height[lastWritten'] = top + n
  BY <1>2, <1>7, <1>8, BlocksAssumption
<1>10. \A i \in 1..n : height2hash'[top + i] = c[i]
  BY <1>7, <1>8
<1>11. \A h \in 1..top : height2hash'[h] = s[h]
  <2> TAKE h \in 1..top
  <2>1. lastWritten # NoBlock /\ h \in 1..Height[lastWritten]
    BY <1>4 DEF LogHeight
  <2>2. h \in DOMAIN height2hash
    BY <2>1 DEF ChainInv, SerializedChainIsWhole
  <2>3. h \notin Heights(Range(c))
    BY <1>1, <1>2, <1>4, <1>7 DEF Heights, Range, ChunkShape
  <2>4. s[h] = height2hash[h]
    BY <2>1 DEF serializedLog
  <2>5. QED
    BY <1>8, <2>2, <2>3, <2>4
<1>12. serializedLog' = [h \in 1..(Len(s) + Len(c)) |-> height2hash'[h]]
  <2>1. Height[lastWritten'] = Len(s) + Len(c)
    BY <1>3, <1>5, <1>9
  <2>2. QED
    BY <1>9, <2>1 DEF serializedLog
<1>13. serializedLog' = s \o c
  <2>1. \A h \in 1..(Len(s) + Len(c)) :
          height2hash'[h] = IF h <= Len(s) THEN s[h] ELSE c[h - Len(s)]
    <3> SUFFICES ASSUME NEW h \in 1..(top + n)
                 PROVE  height2hash'[h] = IF h <= top THEN s[h] ELSE c[h - top]
      BY <1>3, <1>5
    <3> HIDE DEF n, top, s
    <3>1. CASE h <= top
      BY <1>2, <1>4, <1>11, <3>1
    <3>2. CASE ~ (h <= top)
      <4>1. h - top \in 1..n /\ top + (h - top) = h
        BY <1>2, <1>4, <3>2
      <4>2. height2hash'[top + (h - top)] = c[h - top]
        BY <1>10, <4>1
      <4>3. QED
        BY <3>2, <4>1, <4>2
    <3>3. QED
      BY <3>1, <3>2
  <2> HIDE DEF s, n, top
  <2>2. s \in Seq(Blocks) /\ c \in Seq(Blocks)
    BY <1>3, <1>5
  <2>3. s \o c = [h \in 1..(Len(s) + Len(c)) |-> IF h <= Len(s) THEN s[h] ELSE c[h - Len(s)]]
    BY <2>2, Concatenated
  <2>4. QED
    BY <1>12, <2>1, <2>3
<1>14. \A i \in 1..(Len(c) - 1) : Log!OrderedBlockPairIsValid(c[i], c[i + 1])
  BY <1>1, <1>3 DEF ChunkIsValid, OrderedBlockPairIsValid, Log!OrderedBlockPairIsValid
<1>15. IF s = <<>> THEN c[1] = Genesis ELSE Log!OrderedBlockPairIsValid(s[Len(s)], c[1])
  <2>1. CASE s = <<>>
    BY <1>5, <2>1, ChunkOnTop
  <2>2. CASE s # <<>>
    <3>1. s[Len(s)] = lastWritten
      BY <1>4, <1>5, <2>2 DEF serializedLog, ChainInv, SerializedChainIsWhole, LogHeight
    <3>2. OrderedBlockPairIsValid(lastWritten, c[1])
      BY <1>1, <1>5, <1>6, <2>2 DEF ChunkIsValid
    <3>3. QED
      BY <2>2, <3>1, <3>2 DEF OrderedBlockPairIsValid, Log!OrderedBlockPairIsValid
  <2>3. QED
    BY <2>1, <2>2
<1>16. QED
  <2> HIDE DEF s, n, top
  <2>1. Log!IsChain(s)
    BY DEF LogInv, s
  <2>2. Log!IsChain(s \o c)
    BY <1>3, <1>5, <1>14, <1>15, <2>1, ChainsConcatenated
  <2>3. QED
    BY <1>13, <2>2 DEF s

LEMMA LogInit == Init => LogInv /\ Log!Init
BY DEF Init, LogInv, serializedLog, Log!Init, Log!IsChain

\* Every step of the store appends a chunk to the log or leaves it alone.
LEMMA LogStep ==
  ASSUME PruneHeights = {}, ~ DiskCanFail, BufferInv, ChainInv, LogInv, [CarefulNext]_vars
  PROVE  LogInv' /\ [Log!AppendChunk]_serializedLog
<1> DEFINE open == {"up", "flushing", "flushed"}
<1>1. ASSUME UNCHANGED chunkBuckets,
             proc' \in open /\ tipOfSerializedChain' = NoBlock => lastWritten' = NoBlock,
             proc' = "opening" => lastWritten' = NoBlock \/ chainstate'.present
      PROVE  LogInv' /\ [Log!AppendChunk]_serializedLog
  <2>1. serializedLog' = serializedLog
    BY <1>1, LogUnchanged
  <2>2. Log!IsChain(serializedLog)'
    BY <2>1 DEF LogInv, Log!IsChain, Log!OrderedBlockPairIsValid
  <2>3. QED
    BY <1>1, <2>1, <2>2 DEF LogInv
<1>2. ASSUME NEW how, Die(how), UNCHANGED disk
      PROVE  LogInv' /\ [Log!AppendChunk]_serializedLog
  BY <1>1, <1>2 DEF Die, disk
<1>3. ASSUME UNCHANGED <<chunkBuckets, tipOfSerializedChain>>, proc \in open, proc' \in open
      PROVE  LogInv' /\ [Log!AppendChunk]_serializedLog
  BY <1>1, <1>3 DEF LogInv, chunkBuckets
<1>4. ASSUME proc \in open, proc' \in open,
             NEW c \in Chunks(incomingBlocks), ChunkLeaves(c)
      PROVE  LogInv' /\ [Log!AppendChunk]_serializedLog
  <2>1. c \in [1..AncientChunkSize -> Blocks]
    BY ChunkType DEF ChunkShape, BufferInv, TypeOK, MemoryTypeOK
  <2>2. serializedLog' = serializedLog \o c /\ Log!IsChain(serializedLog')
    BY <1>4, ChunkIsAppended
  <2>3. Log!AppendChunk
    BY <2>1, <2>2 DEF Log!AppendChunk
  <2>4. tipOfSerializedChain' # NoBlock
    BY <1>4, <2>1, SizesAssumption, BlocksAssumption DEF ChunkLeaves
  <2>5. Log!IsChain(serializedLog)'
    BY <2>2 DEF Log!IsChain, Log!OrderedBlockPairIsValid
  <2>6. LogInv'
    BY <1>4, <2>4, <2>5 DEF LogInv
  <2>7. QED
    BY <2>3, <2>6
<1> DEFINE Goal == LogInv' /\ [Log!AppendChunk]_serializedLog
<1> HIDE DEF Goal
<1> USE DEF Goal
<1>5. ASSUME NEW b \in Blocks, AddBlock(b) PROVE Goal
  BY <1>3, <1>5 DEF AddBlock, Running, disk
<1>6. ASSUME NEW tx \in PoolTxs, AddTransaction(tx) PROVE Goal
  BY <1>3, <1>6 DEF AddTransaction, Running, disk
<1>7. ASSUME NEW mtx \in PoolMTxs, AddMarkedTransaction(mtx) PROVE Goal
  BY <1>3, <1>7 DEF AddMarkedTransaction, Running, disk
<1>8. ASSUME Run PROVE Goal
  <2>1. CASE SerializationIsFatal
    BY <1>2, <2>1 DEF SerializationIsFatal
  <2>2. CASE ~ SerializationIsFatal
    BY <1>4, <1>8, <2>2, RunCutsAChunk DEF Run, Running
  <2>3. QED
    BY <2>1, <2>2
<1>9. ASSUME FlushSerialize PROVE Goal
  <2>1. proc = "up"
    BY <1>9 DEF FlushSerialize
  <2>2. CASE SerializationIsFatal
    BY <1>2, <2>2 DEF SerializationIsFatal
  <2>3. CASE proc' = "flushing" /\ \E c \in Chunks(incomingBlocks) : ChunkLeaves(c)
    BY <1>4, <2>1, <2>3
  <2>4. CASE proc' = "flushing" /\ UNCHANGED <<memory, disk>>
    BY <1>3, <2>1, <2>4 DEF memory, disk
  <2>5. QED
    BY <1>9, <2>2, <2>3, <2>4, FlushCutsAChunk
<1>10. ASSUME FlushChainstate PROVE Goal
  BY <1>3, <1>10 DEF FlushChainstate, memory
<1>11. ASSUME CloseDatabase PROVE Goal
  BY <1>2, <1>11 DEF CloseDatabase
<1>12. ASSUME NEW drop \in BOOLEAN, StartOpen(drop) PROVE Goal
  <2>1. [CarefulNext]_vars /\ proc' # proc => CarefulStart
    BY DEF CarefulNext, vars
  <2>2. lastWritten = NoBlock \/ chainstate'.present
    BY <1>12, <2>1 DEF StartOpen, CarefulStart
  <2>3. QED
    BY <1>1, <1>12, <2>2 DEF StartOpen, chunkBuckets
<1>13. ASSUME Load PROVE Goal
  <2>1. CASE LoadChainstate
    BY <1>1, <2>1 DEF LoadChainstate, disk
  <2>2. CASE LoadPanics
    BY <1>2, <2>2 DEF LoadPanics
  <2>3. CASE LoadUninitialized
    <3>1. proc = "opening"
      BY <1>13 DEF Load, ChainInv
    <3>2. lastWritten = NoBlock
      BY <2>3, <3>1 DEF LoadUninitialized, LogInv
    <3>3. QED
      BY <1>1, <1>2, <2>3, <3>2 DEF LoadUninitialized, disk, chunkBuckets
  <2>4. QED
    BY <1>13, <2>1, <2>2, <2>3 DEF Load
<1>14. ASSUME Crash PROVE Goal
  BY <1>2, <1>14 DEF Crash
<1>15. ASSUME UNCHANGED vars PROVE Goal
  BY <1>1, <1>15 DEF vars, memory, disk, chunkBuckets, LogInv
<1>16. QED
  <2> HIDE DEF Goal
  <2>1. Goal
    BY <1>5, <1>6, <1>7, <1>8, <1>9, <1>10, <1>11, <1>12, <1>13, <1>14, <1>15
    DEF CarefulNext, Next, Ingest, Close, Open
  <2>2. QED
    BY <2>1 DEF Goal

-----------------------------------------------------------------------------
(* What is in the chunks stays there *)

\* The chunk buckets change only when a chunk leaves memory.
LEMMA BucketsChange ==
  ASSUME PruneHeights = {}, BufferInv, [Next]_vars
  PROVE  \/ UNCHANGED chunkBuckets
         \/ /\ proc \in {"up", "flushing", "flushed"}
            /\ \E c \in Chunks(incomingBlocks) : ChunkLeaves(c)
<1>1. CASE Run
  BY <1>1, RunCutsAChunk DEF Run, Running, SerializationIsFatal, disk, chunkBuckets
<1>2. CASE FlushSerialize
  BY <1>2, FlushCutsAChunk DEF FlushSerialize, SerializationIsFatal, disk, chunkBuckets
<1>3. CASE ~ Run /\ ~ FlushSerialize
  BY <1>3
  DEF Next, Ingest, Close, Open, AddBlock, AddTransaction, AddMarkedTransaction,
      FlushChainstate, CloseDatabase, StartOpen, Load, LoadChainstate, LoadPanics,
      LoadUninitialized, Crash, vars, disk, chunkBuckets
<1>4. QED
  BY <1>1, <1>2, <1>3

\* The first block of a new chunk is above all that is stored, so nothing is
\* written over.
LEMMA ChunkIsNew ==
  ASSUME ~ DiskCanFail, BufferInv, ChainInv, LogInv, FilesInv,
         proc \in {"up", "flushing", "flushed"},
         NEW c \in Chunks(incomingBlocks), ChunkLeaves(c)
  PROVE  /\ FilesInv'
         /\ \A b \in Blocks : Stored(b) => Stored(b)'
<1> DEFINE n == AncientChunkSize
           top == LogHeight
<1>1. c \in ChunkShape /\ ChunkIsValid(c) /\ serializeBlocks(c)
  BY ChunkOnTop
<1>2. n \in Nat /\ n >= 2 /\ top \in Nat
  BY SizesAssumption, LogType
<1>3. \A i \in 1..n : Height[c[i]] = top + i /\ c[i] \in Blocks
  BY ChunkOnTop
<1>4. /\ lastWritten' = c[n]
      /\ \A k \in DOMAIN blockChunks' :
           \/ k = c[1]
           \/ k # c[1] /\ k \in DOMAIN blockChunks
      /\ \A i \in 1..n : Stored(c[i])'
      /\ \A b \in Blocks \ Range(c) : Stored(b) /\ hash2chunk[b] # c[1] => Stored(b)'
  BY <1>1, ChunkWritten
<1>5. \A k \in DOMAIN blockChunks : k \in Blocks /\ Height[k] \in Nat /\ Height[k] <= top
  BY BlocksAssumption
  DEF FilesInv, LogHeight, BufferInv, TypeOK, ChunkBucketsTypeOK, IsMap
<1>6. c[1] \notin DOMAIN blockChunks
  BY <1>2, <1>3, <1>5
<1>7. \A b \in Blocks : Stored(b) => Stored(b)'
  <2> TAKE b \in Blocks
  <2> HAVE Stored(b)
  <2>1. CASE b \in Range(c)
    BY <1>1, <1>4, <2>1 DEF Range, ChunkShape
  <2>2. CASE b \notin Range(c)
    BY <1>4, <1>6, <2>2 DEF Stored
  <2>3. QED
    BY <2>1, <2>2
<1>8. lastWritten' # NoBlock /\ Height[lastWritten'] = top + n
  BY <1>2, <1>3, <1>4, BlocksAssumption
<1>9. \A k \in DOMAIN blockChunks' : Height[k] <= Height[lastWritten']
  BY <1>2, <1>3, <1>4, <1>5, <1>8
<1>10. \A t \in DOMAIN tx2hash' : Stored(tx2hash[t])' /\ t \in TxsOf[tx2hash'[t]]
  <2> TAKE t \in DOMAIN tx2hash'
  <2>1. PICK f \in TxIndexes(Range(c), BlockOrderingRule) : tx2hash' = Put(tx2hash, f)
    BY <1>1 DEF serializeBlocks
  <2>2. CASE t \in DOMAIN f
    <3>1. tx2hash'[t] = f[t]
      BY <2>1, <2>2, PutLookup
    <3>2. f[t] \in Range(c) /\ t \in TxsOf[f[t]]
      BY <2>2 DEF TxIndexes
    <3>3. PICK i \in 1..n : f[t] = c[i]
      BY <1>1, <3>2 DEF Range, ChunkShape
    <3>4. Stored(c[i])'
      BY <1>4
    <3>5. QED
      BY <3>1, <3>2, <3>3, <3>4 DEF Stored
  <2>3. CASE t \notin DOMAIN f
    <3>1. t \in DOMAIN tx2hash /\ tx2hash'[t] = tx2hash[t]
      BY <2>1, <2>3, PutLookup
    <3>2. PICK b \in Blocks : b = tx2hash[t]
      BY <3>1 DEF BufferInv, TypeOK, ChunkBucketsTypeOK, IsMap
    <3>3. Stored(b) /\ t \in TxsOf[b]
      BY <3>1, <3>2 DEF FilesInv
    <3>4. Stored(b)'
      BY <1>7, <3>3
    <3>5. QED
      BY <3>1, <3>2, <3>3, <3>4 DEF Stored
  <2>4. QED
    BY <2>2, <2>3
<1>11. QED
  BY <1>7, <1>8, <1>9, <1>10 DEF FilesInv

LEMMA FilesInit == Init => FilesInv
BY DEF Init, FilesInv

LEMMA FilesStep ==
  ASSUME PruneHeights = {}, ~ DiskCanFail, BufferInv, ChainInv, LogInv, FilesInv, [Next]_vars
  PROVE  /\ FilesInv'
         /\ \A b \in Blocks : Stored(b) => Stored(b)'
<1>1. CASE UNCHANGED chunkBuckets
  BY <1>1 DEF FilesInv, Stored, chunkBuckets
<1>2. QED
  BY <1>1, BucketsChange, ChunkIsNew

-----------------------------------------------------------------------------
(* All invariants together *)

\* What the theorems about the log, the lookups and the block tree rely on.
StoreInv == /\ BufferInv /\ IndexesInv /\ BucketsInv
            /\ ChainInv /\ LogInv /\ FilesInv

LEMMA StoreInvInit == Init => StoreInv
BY BufferInvInit, ChainInvInit, LogInit, FilesInit
DEF Init, StoreInv, IndexesInv, IndexesLeadToBlocks, BucketsInv

LEMMA StoreInvStep ==
  ASSUME PruneHeights = {}, ~ DiskCanFail, StoreInv, [CarefulNext]_vars
  PROVE  StoreInv'
<1>1. [Next]_vars
  BY DEF CarefulNext
<1>2. QED
  BY <1>1, BufferInvStep, IndexesInvStep, BucketsInvStep, ChainInvStep, LogStep, FilesStep
  DEF StoreInv

\* While the disk works, nothing is pruned, and a written file without
\* chainstate buckets is opened with -drop-chainstate, the store implements the
\* append-only log of linked blocks, whatever forks and crashes come.
\* (serializeBlocks, runSerialization, Open.)
THEOREM StoreImplementsLog ==
  ASSUME PruneHeights = {}, ~ DiskCanFail
  PROVE  CarefulSpec => ImplementsChainLog
<1>1. Init => StoreInv /\ Log!Init
  BY StoreInvInit, LogInit
<1>2. StoreInv /\ [CarefulNext]_vars => StoreInv' /\ [Log!AppendChunk]_serializedLog
  BY StoreInvStep, LogStep DEF StoreInv
<1>3. QED
  BY <1>1, <1>2, PTL DEF CarefulSpec, ImplementsChainLog, Log!Spec

-----------------------------------------------------------------------------
(* A store that is only served *)

\* In the models above the store a process is up from the start, and may end.
ServedStore ==
  /\ proc \in {"up", "down"}
  /\ proc = "up" => BufferInv /\ ChainInv /\ LogInv /\ FilesInv

LEMMA ServedStep ==
  ASSUME PruneHeights = {}, ~ DiskCanFail, ServedStore, proc = "up",
         [CarefulNext]_vars, proc' \in {"up", "down"}
  PROVE  ServedStore'
<1>1. [Next]_vars /\ BufferInv /\ ChainInv /\ LogInv /\ FilesInv
  BY DEF CarefulNext, ServedStore
<1>2. BufferInv' /\ ChainInv' /\ LogInv' /\ FilesInv'
  BY <1>1, BufferInvStep, ChainInvStep, LogStep, FilesStep
<1>3. QED
  BY <1>2 DEF ServedStore

LEMMA RunIsCareful ==
  ASSUME ServedStore, Run
  PROVE  [CarefulNext]_vars /\ proc' \in {"up", "down"}
BY DEF Run, Running, SerializationIsFatal, Die, ServedStore, CarefulNext, CarefulStart, Next, Ingest

LEMMA AddBlockIsCareful ==
  ASSUME ServedStore, NEW b \in Blocks, AddBlock(b)
  PROVE  [CarefulNext]_vars /\ proc' \in {"up", "down"}
BY DEF AddBlock, Running, ServedStore, CarefulNext, CarefulStart, Next, Ingest

\* Writing a chunk makes nothing readable but its blocks.
LEMMA OnlyTheChunkIsStored ==
  ASSUME NEW c \in ChunkShape, ChunkIsValid(c), serializeBlocks(c), ~ DiskCanFail,
         NEW b \in Blocks, Stored(b)'
  PROVE  Stored(b) \/ b \in Range(c)
<1>1. /\ blockChunks' = Put(blockChunks, [k \in {c[1]} |-> c])
      /\ hash2chunk' = Put(hash2chunk, [x \in Range(c) |-> c[1]])
  BY DEF serializeBlocks
<1>2. CASE b \notin Range(c)
  <2>1. hash2chunk'[b] = hash2chunk[b] /\ b \in DOMAIN hash2chunk
    BY <1>1, <1>2 DEF Put, Stored
  <2>2. CASE hash2chunk[b] = c[1]
    BY <1>1, <1>2, <2>1, <2>2 DEF Put, Stored
  <2>3. CASE hash2chunk[b] # c[1]
    BY <1>1, <2>1, <2>3 DEF Put, Stored
  <2>4. QED
    BY <2>2, <2>3
<1>3. QED
  BY <1>2

\* Serialization neither loses a block nor brings one.
LEMMA SerializationKeepsAnswers ==
  ASSUME PruneHeights = {}, ~ DiskCanFail, BufferInv, ChainInv, LogInv, FilesInv,
         Run, proc' = "up", NEW b \in Blocks
  PROVE  Retrievable(b)' <=> Retrievable(b)
<1>1. [Next]_vars
  BY DEF Next, Ingest
<1>2. toSerialize = {} /\ proc \in {"up", "flushed"}
  BY DEF BufferInv, NothingLeftInBuffer, Run, Running
<1>3. ASSUME Retrievable(b) PROVE Retrievable(b)'
  <2>1. CASE b \in incomingBlocks
    BY <1>1, <2>1, AcceptedStep
  <2>2. CASE Stored(b)
    BY <1>1, <2>2, FilesStep DEF Retrievable
  <2>3. QED
    BY <1>2, <1>3, <2>1, <2>2 DEF Retrievable
<1>4. ASSUME Retrievable(b)' PROVE Retrievable(b)
  <2>1. PICK c \in Chunks(incomingBlocks) : ChunkLeaves(c)
    BY RunCutsAChunk DEF SerializationIsFatal, Die
  <2>2. c \in ChunkShape /\ Range(c) \subseteq incomingBlocks
    BY ChunkType DEF BufferInv, TypeOK, MemoryTypeOK
  <2>3. CASE b \in incomingBlocks' \cup toSerialize'
    BY <2>1, <2>3 DEF ChunkLeaves, Retrievable
  <2>4. CASE Stored(b)'
    BY <2>1, <2>2, <2>4, OnlyTheChunkIsStored DEF ChunkLeaves, Retrievable
  <2>5. QED
    BY <1>4, <2>3, <2>4 DEF Retrievable
<1>5. QED
  BY <1>3, <1>4

\* Only blocks are found.
LEMMA OnlyBlocksAreFound == BufferInv => \A b : Retrievable(b) => b \in Blocks
BY DEF BufferInv, TypeOK, MemoryTypeOK, ChunkBucketsTypeOK, IsMap, Retrievable, Stored

=============================================================================
