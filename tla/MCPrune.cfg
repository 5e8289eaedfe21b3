SPECIFICATION FairSpec
CONSTANTS
  NoBlock = NoBlock
  Blocks <- LineBlocks
  Genesis = "b1"
  Height <- LineHeight
  PreviousHash <- LinePrevious
  TotalDistance <- LineHeight
  Timestamp <- LineHeight
  HeaderBreaks = {}
  Txs = {"t"}
  TxsOf <- LineTxs
  AncientChunkSize = 2
  IncomingBlocksSize = 2
  PoolTxs = {}
  PoolMTxs = {}
  PruneHeights = {1, 2, 3, 4}
  DiskCanFail = FALSE
INVARIANTS
  SerializedChainIsWhole
  ValidationAcceptsOwnFile
PROPERTIES
  IngestionDrains
  AcceptedBlocksStay
