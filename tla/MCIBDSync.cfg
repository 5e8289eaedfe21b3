SPECIFICATION SyncFairSpec
CONSTANTS
  ChainLength = 6
  NoBlock = 0
  Blocks <- ChainBlocks
  Genesis = 1
  Height <- ChainHeight
  PreviousHash <- ChainPrevious
  TotalDistance <- ChainHeight
  Timestamp <- ChainHeight
  HeaderBreaks = {}
  Txs = {}
  TxsOf <- ChainTxs
  AncientChunkSize = 2
  IncomingBlocksSize = 2
  PoolTxs = {}
  PoolMTxs = {}
  PruneHeights = {}
  DiskCanFail = FALSE
  Peers = {p}
  PeerChain <- ChainHeight
  PeerHeights = {6}
  Starts <- SomeStarts
  Networks = {"reliable", "unreliable"}
  blockStride = 1
  batchStrides = 2
  nMaxRetries = 1
  EndDistance = 2
  StrideCap = 12
INVARIANTS
  OneBatchAtATime
  NothingIsForgotten
  DownloadSurvives

  
CHECK_DEADLOCK FALSE
