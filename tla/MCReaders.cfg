SPECIFICATION CarefulReadersSpec
CONSTANTS
  NoBlock = NoBlock
  Blocks <- ForkBlocks
  Genesis = "b1"
  Height <- ForkHeight
  PreviousHash <- ForkPrevious
  TotalDistance <- ForkDistance
  Timestamp <- ForkHeight
  HeaderBreaks = {}
  Txs = {"t"}
  TxsOf <- ForkTxs
  AncientChunkSize = 2
  IncomingBlocksSize = 2
  PoolTxs = {}
  PoolMTxs = {}
  PruneHeights = {}
  DiskCanFail = FALSE
  Lookups <- FewLookups
INVARIANTS
  ReadersTypeOK
  AnswersAreRight
  PresentIsFound
  CacheIsBacked
