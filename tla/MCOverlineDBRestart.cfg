SPECIFICATION RestartSpec
CONSTANTS
  NoBlock = NoBlock
  Blocks <- ForkBlocks
  Genesis = "b1"
  Height <- ForkHeight
  PreviousHash <- ForkPrevious
  TotalDistance <- ForkDistance
  Timestamp <- ForkHeight
  HeaderBreaks = {}
  Txs = {}
  TxsOf <- ForkTxs
  AncientChunkSize = 2
  IncomingBlocksSize = 2
  PoolTxs = {"x"}
  PoolMTxs = {"m"}
  PruneHeights = {2}
  DiskCanFail = TRUE
INVARIANT
  TypeOK
PROPERTIES
  RestartKeepsMemory
  OpenIndexesEveryHeight
