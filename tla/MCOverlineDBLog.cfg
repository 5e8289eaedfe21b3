SPECIFICATION CarefulSpec
CONSTANTS
  NoBlock = NoBlock
  Blocks <- TreeBlocks
  Genesis = "b1"
  Height <- TreeHeight
  PreviousHash <- TreePrevious
  TotalDistance <- TreeDistance
  Timestamp <- TreeTime
  HeaderBreaks = {}
  Txs = {"t"}
  TxsOf <- TreeTxs
  AncientChunkSize = 2
  IncomingBlocksSize = 2
  PoolTxs = {}
  PoolMTxs = {}
  PruneHeights = {}
  DiskCanFail = FALSE
PROPERTIES
  ImplementsChainLog
