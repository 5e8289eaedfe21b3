----------------------------- MODULE OverlineDB -----------------------------
(***************************************************************************)
(* database.OverlineDB: the block store of the node (src/database/db.go).  *)
(*                                                                         *)
(* Blocks arrive in memory (incomingBlocks).  When there are more than     *)
(* IncomingBlocksSize of them the ingestion thread sorts them and moves    *)
(* the lowest AncientChunkSize to disk as one chunk; the rest stays in     *)
(* memory, and survives a shutdown as the "chainstate" buckets that Close  *)
(* writes and Open reads back.  Every bolt transaction is one step, so a   *)
(* crash falls between any two of them.                                    *)
(***************************************************************************)
EXTENDS OverlineBlocks, Functions, SequencesExt

CONSTANTS
  AncientChunkSize,    \* blocks serialized together (Config.AncientChunkSize)
  IncomingBlocksSize,  \* serialize above this many (Config.IncomingBlocksSize)
  PoolTxs,             \* transactions that may enter txMemPool
  PoolMTxs,            \* marked transactions that may enter mtxMemPool
  PruneHeights,        \* values tried for -prune-database-to
  DiskCanFail          \* may a bolt write transaction return an error?

ASSUME SizesAssumption ==
  /\ AncientChunkSize \in Nat \ {0, 1}
  /\ IncomingBlocksSize \in Nat
  /\ IncomingBlocksSize >= AncientChunkSize
  /\ DiskCanFail \in BOOLEAN
  /\ PruneHeights \subseteq Nat \ {0}

VARIABLES
  \* memory
  incomingBlocks, incomingBlocksByHeight, incomingBlocksByTx, toSerialize,
  tipOfSerializedChain, highestBlock, txMemPool, mtxMemPool,
  \* bolt buckets; chainstate is the three OVERLINE-CHAINSTATE buckets
  blockChunks, hash2chunk, height2hash, tx2hash, lastWritten, chainstate,
  \* the process: where it is in its life, and how the last one ended
  proc, exit

indexes == <<incomingBlocksByHeight, incomingBlocksByTx>>
pools == <<txMemPool, mtxMemPool>>
memory == <<incomingBlocks, indexes, toSerialize, tipOfSerializedChain,
            highestBlock, pools>>
chunkBuckets == <<blockChunks, hash2chunk, height2hash, tx2hash, lastWritten>>
disk == <<chunkBuckets, chainstate>>
vars == <<memory, disk, proc, exit>>

\* "flushed": Close has written the chainstate and released the locks, the
\* other threads still run.
Running == proc \in {"up", "flushed"}

NoChainstate == [present |-> FALSE, blocks |-> {}, txs |-> {}, mtxs |-> {}]

(* Definitions named Bug... are not part of the model: each is the definition  *)
(* after it with a plausible mistake, which the properties must notice.        *)

\* A map or bucket after the given entries were put into it, or deleted.
Put(f, entries) == [k \in DOMAIN f \cup DOMAIN entries |->
                      IF k \in DOMAIN entries THEN entries[k] ELSE f[k]]
BugDropForgotten(f, keys) == f
Drop(f, keys) == Restrict(f, DOMAIN f \ keys)

\* More than n blocks wait in memory.
BugMoreThanOrEqual(n) == Cardinality(incomingBlocks) >= n
BugMoreThanOneMore(n) == Cardinality(incomingBlocks) > n + 1
MoreThan(n) == Cardinality(incomingBlocks) > n
Heights(B) == {Height[b] : b \in B}
TxsIn(B) == UNION {TxsOf[b] : b \in B}

-----------------------------------------------------------------------------
(* Reading the disk *)

\* getSerializedBlock(b) succeeds: b's chunk is there and holds b.
Stored(b) ==
  /\ b \in DOMAIN hash2chunk
  /\ hash2chunk[b] \in DOMAIN blockChunks
  /\ b \in Range(blockChunks[hash2chunk[b]])

\* GetBlockByHash finds b without the cache: incomingBlocks, toSerialize, disk.
Retrievable(b) == b \in incomingBlocks \cup toSerialize \/ Stored(b)

\* FullLocalValidation walks the height index without ending the process.  A
\* block it cannot read ends it; a parent it cannot read is only warned of.  It
\* only reads: main asks for it once, between Open and Run.
FullLocalValidation ==
  \A h \in DOMAIN height2hash :
    LET block == height2hash[h]
        parent == PreviousHash[block]
    IN
    /\ Stored(block)
    /\ parent \in Range(blockChunks[hash2chunk[block]]) \/ Stored(parent)
         => OrderedBlockPairIsValid(parent, block)

-----------------------------------------------------------------------------
(* Adding blocks and transactions *)

\* What addBlockUnsafe makes of highestBlock when it adds b.
NextHighest(highest, b) ==
  IF highest = NoBlock
  THEN IF Height[b] = 1 THEN b ELSE NoBlock
  ELSE IF \/ PreviousHash[b] = highest /\ Height[b] = Height[highest] + 1
          \/ /\ PreviousHash[b] = PreviousHash[highest]
             /\ TotalDistance[b] > TotalDistance[highest]
       THEN b ELSE highest

addBlockUnsafe(b) ==
  /\ b \notin incomingBlocks
  /\ incomingBlocks' = incomingBlocks \cup {b}
  /\ incomingBlocksByHeight' = Put(incomingBlocksByHeight, [h \in {Height[b]} |-> b])
  /\ incomingBlocksByTx' = Put(incomingBlocksByTx, [t \in TxsOf[b] |-> b])
  /\ highestBlock' = NextHighest(highestBlock, b)

\* A range is added one block at a time, the lock released in between.
AddBlock(b) ==
  /\ Running
  /\ addBlockUnsafe(b)
  /\ UNCHANGED <<toSerialize, tipOfSerializedChain, pools, disk, proc, exit>>

AddTransaction(tx) ==
  /\ Running
  /\ txMemPool' = txMemPool \cup {tx}
  /\ UNCHANGED <<incomingBlocks, indexes, toSerialize, tipOfSerializedChain,
                 highestBlock, mtxMemPool, disk, proc, exit>>

AddMarkedTransaction(mtx) ==
  /\ Running
  /\ mtxMemPool' = mtxMemPool \cup {mtx}
  /\ UNCHANGED <<incomingBlocks, indexes, toSerialize, tipOfSerializedChain,
                 highestBlock, txMemPool, disk, proc, exit>>

-----------------------------------------------------------------------------
(* The end of a process *)

EmptyMemory ==
  /\ incomingBlocks' = {}
  /\ incomingBlocksByHeight' = <<>> /\ incomingBlocksByTx' = <<>>
  /\ toSerialize' = {}
  /\ tipOfSerializedChain' = NoBlock /\ highestBlock' = NoBlock
  /\ txMemPool' = {} /\ mtxMemPool' = {}

\* how: "crash" (killed), "fatal" (common.CheckError), "panic", "clean" (Close).
Die(how) == proc' = "down" /\ exit' = how /\ EmptyMemory

Crash == proc # "down" /\ Die("crash") /\ UNCHANGED disk

-----------------------------------------------------------------------------
(* Serialization *)

\* The chunks that sorting B and taking its first AncientChunkSize blocks can
\* give (map iteration decides between blocks that tie).
Chunks(B) ==
  {c \in [1..AncientChunkSize -> B] :
     /\ IsInjective(c)
     /\ \A i, j \in 1..AncientChunkSize : i < j => ~ BlockOrderingRule(c[j], c[i])
     /\ \A b \in B \ Range(c) : ~ BlockOrderingRule(b, c[AncientChunkSize])}

BugChunkNotCheckedAgainstTip(c) ==
  \A i \in 1..(AncientChunkSize - 1) : OrderedBlockPairIsValid(c[i], c[i + 1])

\* orderedPairCheck from the tip to the chunk and along the chunk.
ChunkIsValid(c) ==
  /\ tipOfSerializedChain # NoBlock
       => OrderedBlockPairIsValid(tipOfSerializedChain, c[1])
  /\ \A i \in 1..(AncientChunkSize - 1) : OrderedBlockPairIsValid(c[i], c[i + 1])

\* The index over B after its blocks were put one by one, none Below an
\* earlier one: the last one put stays.
HeightIndexes(B, Below(_, _)) ==
  {f \in [Heights(B) -> B] : \A h \in Heights(B) :
     /\ Height[f[h]] = h
     /\ \A b \in B : Height[b] = h => ~ Below(f[h], b)}
TxIndexes(B, Below(_, _)) ==
  {f \in [TxsIn(B) -> B] : \A t \in TxsIn(B) :
     /\ t \in TxsOf[f[t]]
     /\ \A b \in B : t \in TxsOf[b] => ~ Below(f[t], b)}

BugChunkNotWritten(c) == UNCHANGED chunkBuckets

\* The single bolt transaction of serializeBlocks.  An error it returns is
\* dropped by the caller.
serializeBlocks(c) ==
  \/ /\ blockChunks' = Put(blockChunks, [k \in {c[1]} |-> c])
     /\ hash2chunk' = Put(hash2chunk, [b \in Range(c) |-> c[1]])
     /\ height2hash' = Put(height2hash, [h \in Heights(Range(c)) |->
                                          CHOOSE b \in Range(c) : Height[b] = h])
     /\ \E f \in TxIndexes(Range(c), BlockOrderingRule) : tx2hash' = Put(tx2hash, f)
     /\ lastWritten' = c[AncientChunkSize]
  \/ DiskCanFail /\ UNCHANGED chunkBuckets

\* runSerialization, when the process survives it.
runSerialization ==
  LET all == incomingBlocks \cup toSerialize
      byHeight == Drop(incomingBlocksByHeight, Heights(incomingBlocks))
      byTx == Drop(incomingBlocksByTx, TxsIn(incomingBlocks))
  IN
  \/ /\ Cardinality(all) <= AncientChunkSize
     /\ toSerialize' = all /\ incomingBlocks' = {}
     /\ incomingBlocksByHeight' = byHeight /\ incomingBlocksByTx' = byTx
     /\ UNCHANGED <<tipOfSerializedChain, chunkBuckets>>
  \/ /\ Cardinality(all) > AncientChunkSize
     /\ \E c \in Chunks(all) :
          LET rest == all \ Range(c) IN
          /\ ChunkIsValid(c)
          /\ serializeBlocks(c)
          /\ tipOfSerializedChain' = c[AncientChunkSize]
          /\ incomingBlocks' = rest
          /\ \E f \in HeightIndexes(rest, BlockOrderingRule) : incomingBlocksByHeight' = Put(byHeight, f)
          /\ \E f \in TxIndexes(rest, BlockOrderingRule) : incomingBlocksByTx' = Put(byTx, f)
          /\ toSerialize' = {}

\* runSerialization, when orderedPairCheck ends the process.
SerializationIsFatal ==
  LET all == incomingBlocks \cup toSerialize IN
  /\ Cardinality(all) > AncientChunkSize
  /\ \E c \in Chunks(all) : ~ ChunkIsValid(c)
  /\ Die("fatal")
  /\ UNCHANGED disk

\* One round of the ingestion thread that Run starts.
Run ==
  /\ Running
  /\ MoreThan(IncomingBlocksSize)
  /\ \/ /\ runSerialization
        /\ UNCHANGED <<highestBlock, pools, chainstate, proc, exit>>
     \/ SerializationIsFatal

-----------------------------------------------------------------------------
(* Close: FlushToDisk under both locks, then the memory is cleared *)

\* Takes the locks; serializes first if a whole chunk is waiting.
FlushSerialize ==
  /\ proc = "up"
  /\ \/ /\ MoreThan(AncientChunkSize)
        /\ runSerialization
        /\ proc' = "flushing"
        /\ UNCHANGED <<highestBlock, pools, chainstate, exit>>
     \/ MoreThan(AncientChunkSize) /\ SerializationIsFatal
     \/ /\ ~ MoreThan(AncientChunkSize)
        /\ proc' = "flushing"
        /\ UNCHANGED <<memory, disk, exit>>

\* What is written to the chainstate buckets.  The marked transactions are put
\* into the bucket of the plain ones.
BugPoolsSwapped == [present |-> TRUE, blocks |-> incomingBlocks,
                    txs |-> mtxMemPool, mtxs |-> txMemPool]
ChainstateToFlush == [present |-> TRUE, blocks |-> incomingBlocks,
                      txs |-> txMemPool \cup mtxMemPool, mtxs |-> {}]

\* Rewrites the chainstate buckets and releases the locks.
FlushChainstate ==
  /\ proc = "flushing"
  /\ \/ /\ chainstate' = ChainstateToFlush
        /\ proc' = "flushed"
        /\ UNCHANGED <<memory, chunkBuckets, exit>>
     \/ DiskCanFail /\ Die("fatal") /\ UNCHANGED disk

CloseDatabase ==
  /\ proc = "flushed"
  /\ Die("clean")
  /\ UNCHANGED disk

-----------------------------------------------------------------------------
(* Open, and what main does with its verdict *)

\* Fresh maps; -drop-chainstate deletes the chainstate and makes it anew.  Open goes
\* on if the transaction fails.
StartOpen(dropChainstate) ==
  /\ proc = "down"
  /\ proc' = "opening"
  /\ \/ dropChainstate /\ chainstate' = [NoChainstate EXCEPT !.present = TRUE]
     \/ (dropChainstate => DiskCanFail) /\ UNCHANGED chainstate
  /\ EmptyMemory
  /\ UNCHANGED <<chunkBuckets, exit>>

\* What the height index holds for a height.
BugBlockOneAbove(h) == IF h + 1 \in DOMAIN height2hash THEN height2hash[h + 1] ELSE NoBlock
BlockAt(h) == IF h \in DOMAIN height2hash THEN height2hash[h] ELSE NoBlock

\* The heights that pruning takes out of the index: all of every chunk it meets.
BugOnlyVisitedPruned(visitedHeights, touched) == visitedHeights
HeightsPruned(visitedHeights, touched) ==
  UNION {Heights(Range(blockChunks[c])) : c \in touched}

\* deleteBlocksAfter.  Bolt visits the heights from pruneChainTo up.  Of the
\* chunks it meets all but the last are deleted, and every height of each.  What goes
\* back into memory stays there if the transaction fails, of which Open hears nothing.
PruneDatabase(pruneChainTo) ==
  LET visitedHeights == {h \in DOMAIN height2hash : h >= pruneChainTo}
      visited == {height2hash[h] : h \in visitedHeights}
      chunkAt(h) == hash2chunk[height2hash[h]]
      touched == {chunkAt(h) : h \in visitedHeights}
  IN
  /\ proc = "opening"
  /\ \/ /\ visitedHeights = {}     \* no bucket, or heightKeysToDelete[0]
        /\ Die("panic")
        /\ UNCHANGED disk
     \/ /\ visitedHeights # {}
        /\ proc' = "pruned"
        /\ incomingBlocks' = {b \in visited : Height[b] <= pruneChainTo}
        /\ \/ /\ blockChunks' = Drop(blockChunks, touched \ {chunkAt(Max(visitedHeights))})
              /\ hash2chunk' = Drop(hash2chunk, visited)
              /\ tx2hash' = Drop(tx2hash, TxsIn(visited))
              /\ lastWritten' = BlockAt(Height[chunkAt(Min(visitedHeights))] - 1)
              /\ height2hash' = Drop(height2hash, HeightsPruned(visitedHeights, touched))
           \/ DiskCanFail /\ UNCHANGED chunkBuckets
        /\ UNCHANGED <<indexes, toSerialize, tipOfSerializedChain,
                       highestBlock, pools, chainstate, exit>>

\* The order Open loads blocks in: at equal height and distance it is the
\* earlier timestamp that comes first.
LoadsBefore(i, j) ==
  IF Height[i] = Height[j] /\ TotalDistance[i] = TotalDistance[j]
  THEN Timestamp[i] < Timestamp[j]
  ELSE BlockOrderingRule(i, j)

\* The chainstate blocks, loaded on top of what pruning left in memory.
LoadedHighest(tip) ==
  FoldLeft(NextHighest, tip,
           SetToSortSeq(chainstate.blocks \ incomingBlocks, LoadsBefore))

\* The blocks of B that are at or below the serialized tip.
BugStaleOneAbove(B) == {b \in B : Height[b] <= Height[lastWritten] + 1}
StaleIn(B) == {b \in B : Height[b] <= Height[lastWritten]}

BugIndexesNotPurged(loaded, stale) ==
  /\ incomingBlocksByHeight' \in HeightIndexes(loaded, LoadsBefore)
  /\ incomingBlocksByTx' \in TxIndexes(loaded, LoadsBefore)

\* The indexes of the loaded blocks, without the heights and transactions of
\* the stale ones.
IndexesAfterLoad(loaded, stale) ==
  /\ \E f \in HeightIndexes(loaded, LoadsBefore) :
       incomingBlocksByHeight' = Drop(f, Heights(stale))
  /\ \E f \in TxIndexes(loaded, LoadsBefore) :
       incomingBlocksByTx' = Drop(f, TxsIn(stale))

\* Loading succeeded: the stale blocks are dropped again.
LoadChainstate ==
  LET stale == StaleIn(incomingBlocks \cup chainstate.blocks) IN
  /\ chainstate.present
  /\ lastWritten # NoBlock /\ Stored(lastWritten)
  /\ tipOfSerializedChain' = lastWritten
  /\ highestBlock' \in {b \in BlockOrNil : b = LoadedHighest(lastWritten)}
  /\ incomingBlocks' = (incomingBlocks \cup chainstate.blocks) \ stale
  /\ IndexesAfterLoad(chainstate.blocks \ incomingBlocks, stale)
  /\ txMemPool' = chainstate.txs /\ mtxMemPool' = chainstate.mtxs
  /\ proc' = "up"
  /\ UNCHANGED <<toSerialize, disk, exit>>

\* Without a readable tip, Open logs the hash of a nil block and panics.
LoadPanics ==
  /\ chainstate.present
  /\ ~ (lastWritten # NoBlock /\ Stored(lastWritten))
  /\ Die("panic")
  /\ UNCHANGED disk

\* "Uninitialized blockchain file!": main starts over from the genesis block,
\* and gives up ("Couldn't get genesis block!") if pruning to height 1 left it in
\* memory and in no index.
LoadUninitialized ==
  /\ ~ chainstate.present
  /\ \/ /\ addBlockUnsafe(Genesis)
        /\ proc' = "up"
        /\ UNCHANGED <<toSerialize, tipOfSerializedChain, pools, disk, exit>>
     \/ /\ Genesis \in incomingBlocks
        /\ Die("panic")
        /\ UNCHANGED disk

Load ==
  /\ proc \in {"opening", "pruned"}
  /\ LoadChainstate \/ LoadPanics \/ LoadUninitialized

-----------------------------------------------------------------------------
Init ==
  /\ incomingBlocks = {}
  /\ incomingBlocksByHeight = <<>> /\ incomingBlocksByTx = <<>>
  /\ toSerialize = {}
  /\ tipOfSerializedChain = NoBlock /\ highestBlock = NoBlock
  /\ txMemPool = {} /\ mtxMemPool = {}
  /\ blockChunks = <<>> /\ hash2chunk = <<>> /\ height2hash = <<>>
  /\ tx2hash = <<>> /\ lastWritten = NoBlock
  /\ chainstate = NoChainstate
  /\ proc = "down" /\ exit = "clean"

Ingest ==
  \/ \E b \in Blocks : AddBlock(b)
  \/ \E tx \in PoolTxs : AddTransaction(tx)
  \/ \E mtx \in PoolMTxs : AddMarkedTransaction(mtx)
  \/ Run

Close == FlushSerialize \/ FlushChainstate \/ CloseDatabase

Open ==
  \/ \E dropChainstate \in BOOLEAN : StartOpen(dropChainstate)
  \/ \E h \in PruneHeights : PruneDatabase(h)
  \/ Load

Next == Ingest \/ Close \/ Open \/ Crash

Spec == Init /\ [][Next]_vars

\* The ingestion goroutine is never stopped while the process lives, and Close
\* does not wait for anything once it has the locks.
FairSpec == Spec /\ WF_vars(Run) /\ WF_vars(FlushChainstate)

-----------------------------------------------------------------------------
(* Type correctness *)

ChunkShape == [1..AncientChunkSize -> Blocks]

\* f is a map from some of K to V.
IsMap(f, K, V) == DOMAIN f \subseteq K /\ f \in [DOMAIN f -> V]

MemoryTypeOK ==
  /\ incomingBlocks \subseteq Blocks
  /\ IsMap(incomingBlocksByHeight, Nat, Blocks)
  /\ IsMap(incomingBlocksByTx, Txs, Blocks)
  /\ toSerialize \subseteq Blocks
  /\ tipOfSerializedChain \in BlockOrNil
  /\ highestBlock \in BlockOrNil
  /\ txMemPool \subseteq PoolTxs \cup PoolMTxs
  /\ mtxMemPool \subseteq PoolMTxs

ChunkBucketsTypeOK ==
  /\ IsMap(blockChunks, Blocks, ChunkShape)
  /\ IsMap(hash2chunk, Blocks, Blocks)
  /\ IsMap(height2hash, Nat, Blocks)
  /\ IsMap(tx2hash, Txs, Blocks)
  /\ lastWritten \in BlockOrNil

TypeOK ==
  /\ MemoryTypeOK
  /\ ChunkBucketsTypeOK
  /\ chainstate \in [present : BOOLEAN, blocks : SUBSET Blocks,
                     txs : SUBSET (PoolTxs \cup PoolMTxs), mtxs : SUBSET PoolMTxs]
  /\ proc \in {"down", "opening", "pruned", "up", "flushing", "flushed"}
  /\ exit \in {"clean", "crash", "fatal", "panic"}

-----------------------------------------------------------------------------
(* Safety *)

\* The serialized chain is whole: from the last written block down to the
\* genesis block every height is indexed, readable, and holds the parent of the
\* block above it.  (serializeBlocks, getSerializedBlock; whatever forks, gaps,
\* redeliveries, crashes and fresh starts came before.)
SerializedChainIsWhole ==
  lastWritten # NoBlock =>
    LET top == Height[lastWritten] IN
    /\ \A h \in 1..top :
         /\ h \in DOMAIN height2hash
         /\ Height[height2hash[h]] = h
         /\ Stored(height2hash[h])
    /\ height2hash[top] = lastWritten
    /\ height2hash[1] = Genesis
    /\ \A h \in 2..top : PreviousHash[height2hash[h]] = height2hash[h - 1]

\* -full-validation ends no process on a file that the code itself wrote: the
\* height index leads to nothing that pruning deleted, above the tip either, and
\* no two stored blocks are linked wrongly.  (FullLocalValidation over
\* serializeBlocks, deleteBlocksAfter.)
ValidationAcceptsOwnFile == Running => FullLocalValidation

\* While the database is open, the tip it serializes onto is the block that
\* the disk names as last written.  (runSerialization sets the tip outside the
\* transaction; Open restores it.)
TipIsLastWritten ==
  proc \in {"up", "flushing", "flushed"} /\ tipOfSerializedChain # NoBlock
    => tipOfSerializedChain = lastWritten

\* Between operations nothing is left in the serialization buffer, which
\* neither FlushToDisk nor Open would save.  (runSerialization, its callers'
\* size checks.)
NothingLeftInBuffer == toSerialize = {}

\* The in-memory indexes lead to blocks that are in memory, at that height and
\* with that transaction.  (GetBlockByHeight, GetBlockByTx.)
IndexesLeadToBlocks ==
  /\ \A h \in DOMAIN incomingBlocksByHeight :
       /\ incomingBlocksByHeight[h] \in incomingBlocks
       /\ Height[incomingBlocksByHeight[h]] = h
  /\ \A t \in DOMAIN incomingBlocksByTx :
       /\ incomingBlocksByTx[t] \in incomingBlocks
       /\ t \in TxsOf[incomingBlocksByTx[t]]

-----------------------------------------------------------------------------
(* Inductive strengthenings, for the proofs *)

\* Holds whatever the flags and the disk do.
BufferInv ==
  /\ TypeOK
  /\ NothingLeftInBuffer
  /\ proc \in {"down", "opening", "pruned"} => tipOfSerializedChain = NoBlock

\* A process that is not up has loaded no indexes, while pruning may have put
\* blocks into its memory.
IndexesInv ==
  /\ IndexesLeadToBlocks
  /\ proc \in {"down", "opening", "pruned"}
       => DOMAIN incomingBlocksByHeight = {} /\ DOMAIN incomingBlocksByTx = {}

\* What a file consists of, however it was pruned and whatever write failed:
\* chunks that passed orderedPairCheck, also against the tip they were cut for,
\* and an index that leads into them.
BucketsInv ==
  /\ \A k \in DOMAIN blockChunks :
       LET c == blockChunks[k] IN
       /\ c[1] = k
       /\ \A i \in 1..(AncientChunkSize - 1) : OrderedBlockPairIsValid(c[i], c[i + 1])
       /\ k = Genesis \/ OrderedBlockPairIsValid(PreviousHash[k], k)
  /\ \A h \in DOMAIN height2hash :
       Height[height2hash[h]] = h /\ Stored(height2hash[h])
  /\ proc \in {"up", "flushing", "flushed"} /\ tipOfSerializedChain = NoBlock
       => Genesis \in incomingBlocks

\* Holds while nothing is pruned and the disk works.  The chunk of a block is
\* never keyed by a higher block, so a new chunk overwrites none below it.
ChainInv ==
  /\ proc # "pruned"
  /\ proc \in {"down", "opening"} => incomingBlocks = {}
  /\ TipIsLastWritten
  /\ proc \notin {"down", "opening"} /\ tipOfSerializedChain = NoBlock
       => Genesis \in incomingBlocks
  /\ SerializedChainIsWhole
  /\ lastWritten # NoBlock => \A h \in 1..Height[lastWritten] :
       Height[hash2chunk[height2hash[h]]] <= h

-----------------------------------------------------------------------------
(* Action properties *)

\* A block that was accepted can be retrieved for as long as the process
\* lives: serialization moves it, it never drops it.  (AddBlock,
\* runSerialization.)
AcceptedBlocksStay ==
  [][proc' # "down" => \A b \in incomingBlocks : Retrievable(b)']_vars

\* The serialized tip only ever climbs while the process lives, a whole chunk
\* at a time.  (runSerialization.)
TipClimbsByChunks ==
  [][tipOfSerializedChain # NoBlock /\ tipOfSerializedChain' \notin {NoBlock, tipOfSerializedChain}
       => Height[tipOfSerializedChain'] = Height[tipOfSerializedChain] + AncientChunkSize]_vars

-----------------------------------------------------------------------------
(* Liveness *)

\* Whenever more than IncomingBlocksSize blocks wait, the ingestion thread
\* serializes until no more do (or the process ends).  (Run.)
IngestionDrains ==
  Cardinality(incomingBlocks) > IncomingBlocksSize
    ~> Cardinality(incomingBlocks) <= IncomingBlocksSize

=============================================================================
