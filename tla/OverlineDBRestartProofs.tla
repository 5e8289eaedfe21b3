---------------------- MODULE OverlineDBRestartProofs -----------------------
(***************************************************************************)
(* What a process finds again when it comes up, for every history of runs, *)
(* crashes, prunings and failing disks.                                    *)
(***************************************************************************)
EXTENDS OverlineDBRestart, OverlineDBProofs

\* What Close last wrote is still in the chainstate, unless that was dropped; memory
\* is empty while Open runs, unless it has pruned.
RestartInv ==
  /\ flushed.blocks \subseteq chainstate.blocks
  /\ flushed.txs \subseteq chainstate.txs
  /\ ~ chainstate.present => flushed = Nothing
  /\ proc = "opening" => incomingBlocks = {} /\ incomingBlocksByHeight = <<>>

LEMMA RestartInvInit == RestartInit => RestartInv
BY DEF RestartInit, RestartInv, Init, Nothing, NoChainstate

\* Only Close and -drop-chainstate write the chainstate.
LEMMA ChainstateWriters ==
  ASSUME TypeOK, [Next]_vars
  PROVE  \/ UNCHANGED chainstate /\ ~ (proc = "flushing" /\ proc' = "flushed")
         \/ proc = "flushing" /\ proc' = "flushed" /\ chainstate' = ChainstateToFlush
         \/ StartOpen(TRUE)
<1>1. ASSUME Ingest PROVE UNCHANGED chainstate /\ ~ (proc = "flushing" /\ proc' = "flushed")
  <2>1. proc # "flushing"
    BY <1>1 DEF Ingest, AddBlock, AddTransaction, AddMarkedTransaction, Run, Running
  <2>2. UNCHANGED chainstate
    BY <1>1 DEF Ingest, AddBlock, AddTransaction, AddMarkedTransaction, Run,
                SerializationIsFatal, disk
  <2>3. QED
    BY <2>1, <2>2
<1>2. CASE FlushSerialize
  BY <1>2 DEF FlushSerialize, SerializationIsFatal, Die, disk
<1>3. CASE FlushChainstate
  BY <1>3 DEF FlushChainstate, Die, disk
<1>4. CASE CloseDatabase \/ Crash
  BY <1>4 DEF CloseDatabase, Crash, Die, disk
<1>5. ASSUME NEW drop \in BOOLEAN, StartOpen(drop)
      PROVE  (UNCHANGED chainstate /\ ~ (proc = "flushing" /\ proc' = "flushed")) \/ StartOpen(TRUE)
  BY <1>5 DEF StartOpen
<1>6. ASSUME NEW h \in PruneHeights, PruneDatabase(h)
      PROVE  UNCHANGED chainstate /\ ~ (proc = "flushing" /\ proc' = "flushed")
  BY <1>6 DEF PruneDatabase, Die, disk
<1>7. CASE Load
  BY <1>7 DEF Load, LoadChainstate, LoadPanics, LoadUninitialized, Die, disk
<1>8. CASE UNCHANGED vars
  BY <1>8 DEF vars, disk
<1>9. QED
  BY <1>1, <1>2, <1>3, <1>4, <1>5, <1>6, <1>7, <1>8 DEF Next, Close, Open

\* A process that is opening has just begun to.
LEMMA OpeningBegins ==
  ASSUME TypeOK, [Next]_vars, proc' = "opening"
  PROVE  \/ incomingBlocks' = {} /\ incomingBlocksByHeight' = <<>> /\ proc = "down"
         \/ UNCHANGED vars
<1>1. CASE \E drop \in BOOLEAN : StartOpen(drop)
  BY <1>1 DEF StartOpen, EmptyMemory
<1>2. CASE Ingest
  BY <1>2 DEF Ingest, AddBlock, AddTransaction, AddMarkedTransaction, Run, Running,
              SerializationIsFatal, Die
<1>3. CASE Close \/ Crash
  BY <1>3 DEF Close, FlushSerialize, FlushChainstate, CloseDatabase, Crash,
              SerializationIsFatal, Die
<1>4. CASE (\E h \in PruneHeights : PruneDatabase(h)) \/ Load
  BY <1>4 DEF PruneDatabase, Load, LoadChainstate, LoadPanics, LoadUninitialized, Die
<1>5. QED
  BY <1>1, <1>2, <1>3, <1>4 DEF Next, Open

LEMMA RestartInvStep ==
  ASSUME TypeOK, RestartInv, [RestartNext]_<<vars, flushed>>
  PROVE  RestartInv'
<1>1. CASE UNCHANGED <<vars, flushed>>
  BY <1>1 DEF RestartInv, vars, memory, indexes, disk
<1>2. CASE RestartNext
  <2>1. [Next]_vars
    BY <1>2 DEF RestartNext
  <2>2. proc' = "opening" => incomingBlocks' = {} /\ incomingBlocksByHeight' = <<>>
    BY <2>1, OpeningBegins DEF RestartInv, vars, memory, indexes
  <2>3. CASE UNCHANGED chainstate /\ ~ (proc = "flushing" /\ proc' = "flushed")
    <3>1. flushed' = flushed
      BY <1>2, <2>3 DEF RestartNext
    <3>2. QED
      BY <2>2, <2>3, <3>1 DEF RestartInv
  <2>4. CASE proc = "flushing" /\ proc' = "flushed" /\ chainstate' = ChainstateToFlush
    <3>1. flushed' = [blocks |-> incomingBlocks, txs |-> txMemPool]
      BY <1>2, <2>4 DEF RestartNext
    <3>2. QED
      BY <2>2, <2>4, <3>1 DEF RestartInv, ChainstateToFlush
  <2>5. CASE StartOpen(TRUE)
    <3>1. flushed' = Nothing \/ (flushed' = flushed /\ UNCHANGED chainstate)
      <4>1. proc = "down" /\ flushed' = IF chainstate' # chainstate THEN Nothing ELSE flushed
        BY <1>2, <2>5 DEF RestartNext, StartOpen
      <4>2. CASE chainstate' # chainstate
        BY <4>1, <4>2
      <4>3. CASE chainstate' = chainstate
        BY <4>1, <4>3
      <4>4. QED
        BY <4>2, <4>3
    <3>2. QED
      BY <2>2, <3>1 DEF RestartInv, Nothing
  <2>6. QED
    BY <2>1, <2>3, <2>4, <2>5, ChainstateWriters
<1>3. QED
  BY <1>1, <1>2

LEMMA RestartInvariant == RestartSpec => [](TypeOK /\ RestartInv)
<1>1. RestartSpec => Spec
  <2>1. RestartInit => Init
    BY DEF RestartInit
  <2>2. [RestartNext]_<<vars, flushed>> => [Next]_vars
    BY DEF RestartNext
  <2>3. QED
    BY <2>1, <2>2, PTL DEF RestartSpec, Spec
<1>2. TypeOK /\ RestartInv /\ [RestartNext]_<<vars, flushed>> => RestartInv'
  BY RestartInvStep
<1>3. QED
  BY <1>1, <1>2, TypeCorrect, RestartInvInit, PTL DEF RestartSpec

\* A process comes up from an Open that did not prune in one of two ways.
LEMMA ComesUp ==
  ASSUME TypeOK, [RestartNext]_<<vars, flushed>>, proc = "opening", proc' = "up"
  PROVE  LoadChainstate \/ LoadUninitialized
<1>1. Next
  BY DEF RestartNext, vars
<1>2. CASE Ingest \/ Close
  BY <1>2 DEF Ingest, AddBlock, AddTransaction, AddMarkedTransaction, Run, Running,
              Close, FlushSerialize, FlushChainstate, CloseDatabase
<1>3. CASE Crash \/ (\E drop \in BOOLEAN : StartOpen(drop))
  BY <1>3 DEF Crash, StartOpen, Die
<1>4. CASE (\E h \in PruneHeights : PruneDatabase(h)) \/ Load
  BY <1>4 DEF PruneDatabase, Load, LoadPanics, Die
<1>5. QED
  BY <1>1, <1>2, <1>3, <1>4 DEF Next, Open

\* The heights of the blocks above the tip are none of the stale blocks'.
LEMMA StaleHeights ==
  ASSUME NEW B, B \subseteq Blocks, lastWritten \in Blocks
  PROVE  Heights(B) \ Heights(StaleIn(B)) = Heights(B \ StaleIn(B))
BY BlocksAssumption DEF Heights, StaleIn

\* Through every number of crashes, further serialization and failing disks: a process
\* that comes up on a serialized chain has again every block above its tip, and every
\* transaction, that the last clean Close wrote.  (FlushToDisk, Open.)
THEOREM MemoryIsFoundAgain == RestartSpec => RestartKeepsMemory
<1>1. ASSUME TypeOK, RestartInv, [RestartNext]_<<vars, flushed>>, proc = "opening", proc' = "up"
      PROVE  /\ \A b \in flushed.blocks :
                  Height[b] > Height[tipOfSerializedChain'] => b \in incomingBlocks'
             /\ flushed.txs \subseteq txMemPool'
  <2>1. CASE LoadChainstate
    <3>1. /\ incomingBlocks' = (incomingBlocks \cup chainstate.blocks)
                                 \ StaleIn(incomingBlocks \cup chainstate.blocks)
          /\ tipOfSerializedChain' = lastWritten /\ lastWritten # NoBlock
          /\ txMemPool' = chainstate.txs
      BY <2>1 DEF LoadChainstate
    <3>2. lastWritten \in Blocks /\ chainstate.blocks \subseteq Blocks
      BY <1>1, <3>1 DEF TypeOK, ChunkBucketsTypeOK, BlockOrNil
    <3>3. ASSUME NEW b \in flushed.blocks, Height[b] > Height[lastWritten]
          PROVE  b \in incomingBlocks'
      <4>1. b \in chainstate.blocks /\ Height[b] \in Nat /\ Height[lastWritten] \in Nat
        BY <1>1, <3>2, BlocksAssumption DEF RestartInv
      <4>2. QED
        BY <3>1, <3>3, <4>1 DEF StaleIn
    <3>4. QED
      BY <1>1, <3>1, <3>3 DEF RestartInv
  <2>2. CASE LoadUninitialized
    BY <1>1, <2>2 DEF LoadUninitialized, RestartInv, Nothing
  <2>3. QED
    BY <1>1, <2>1, <2>2, ComesUp
<1>2. QED
  BY <1>1, RestartInvariant, PTL DEF RestartSpec, RestartKeepsMemory

\* However stale and fresh blocks share heights: after Open every block in memory can
\* be found by its height.  (addBlockUnsafe under Open, and the purge of stale heights.)
THEOREM EveryHeightIndexed == RestartSpec => OpenIndexesEveryHeight
<1>1. ASSUME TypeOK, RestartInv, [RestartNext]_<<vars, flushed>>, proc = "opening", proc' = "up"
      PROVE  DOMAIN incomingBlocksByHeight' = Heights(incomingBlocks')
  <2>1. incomingBlocks = {} /\ incomingBlocksByHeight = <<>>
    BY <1>1 DEF RestartInv
  <2>2. CASE LoadChainstate
    <3> DEFINE B == chainstate.blocks
    <3>1. /\ incomingBlocks' = B \ StaleIn(B)
          /\ IndexesAfterLoad(B, StaleIn(B))
          /\ lastWritten # NoBlock
      <4>1. incomingBlocks \cup B = B /\ B \ incomingBlocks = B
        BY <2>1
      <4>2. QED
        BY <2>2, <4>1 DEF LoadChainstate
    <3>2. lastWritten \in Blocks /\ B \subseteq Blocks
      BY <1>1, <3>1 DEF TypeOK, ChunkBucketsTypeOK, BlockOrNil
    <3> HIDE DEF B
    <3>3. PICK f \in HeightIndexes(B, LoadsBefore) :
            incomingBlocksByHeight' = Drop(f, Heights(StaleIn(B)))
      BY <3>1 DEF IndexesAfterLoad
    <3>4. DOMAIN incomingBlocksByHeight' = Heights(B) \ Heights(StaleIn(B))
      BY <3>3 DEF HeightIndexes, Drop, Restrict
    <3>5. QED
      BY <3>1, <3>2, <3>4, StaleHeights
  <2>3. CASE LoadUninitialized
    <3>1. addBlockUnsafe(Genesis)
      BY <2>3, <1>1 DEF LoadUninitialized, Die
    <3>2. DOMAIN incomingBlocksByHeight' = {Height[Genesis]}
      BY <2>1, <3>1 DEF addBlockUnsafe, Put
    <3>3. QED
      BY <2>1, <3>1, <3>2 DEF addBlockUnsafe, Heights
  <2>4. QED
    BY <1>1, <2>2, <2>3, ComesUp
<1>2. QED
  BY <1>1, RestartInvariant, PTL DEF RestartSpec, OpenIndexesEveryHeight

=============================================================================
