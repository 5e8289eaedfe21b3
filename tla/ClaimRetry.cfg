SPECIFICATION SyncSpec
CONSTANTS
  ChainLength = 7
  NoBlock = 0
  Blocks <- ChainBlocks
  Genesis = 1
  Height <- ChainHeight
  PreviousHash <- ChainPrevious
  TotalDistance <- ChainHeight
  Timestamp <- ChainHeight
  HeaderBreaks = {}
  Txs = {}
  TxsOf <- ChainTxs
  AncientChunkSize = 2
  IncomingBlocksSize = 2
  PoolTxs = {}
  PoolMTxs = {}
  PruneHeights = {}
  DiskCanFail = FALSE
  Peers = {p}
  PeerChain <- ChainHeight
  PeerHeights = {7}
  Starts <- FreshStart
  Networks = {"unreliable"}
  blockStride = 1
  batchStrides = 2
  nMaxRetries = 1
  EndDistance = 2
  StrideCap = 12
INVARIANT
  RetriedBatchSurvives
CHECK_DEADLOCK FALSE
