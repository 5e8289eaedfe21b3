SPECIFICATION Spec
CONSTANTS
  NoBlock = NoBlock
  Blocks <- WoodBlocks
  Genesis = "b1"
  Height <- WoodHeight
  PreviousHash <- WoodPrevious
  TotalDistance <- WoodDistance
  Timestamp <- WoodHeight
  HeaderBreaks <- WoodBreaks
  Txs = {"t"}
  TxsOf <- WoodTxs
  AncientChunkSize = 2
  IncomingBlocksSize = 2
  PoolTxs = {}
  PoolMTxs = {}
  PruneHeights = {}
  DiskCanFail = FALSE
INVARIANTS
  SerializedChainIsWhole
  TipIsLastWritten
  NothingLeftInBuffer
  IndexesLeadToBlocks
PROPERTIES
  AcceptedBlocksStay
  TipClimbsByChunks
