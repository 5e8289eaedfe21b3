SPECIFICATION ChainFairSpec
CONSTANTS
  NoBlock = NoBlock
  Blocks <- ForkedBlocks
  Genesis = "b1"
  Height <- ForkedHeight
  PreviousHash <- ForkedPrevious
  TotalDistance <- ForkedDistance
  Timestamp <- ForkedHeight
  HeaderBreaks = {}
  Txs = {}
  TxsOf <- ForkedTxs
  AncientChunkSize = 2
  IncomingBlocksSize = 2
  PoolTxs = {}
  PoolMTxs = {}
  PruneHeights = {}
  DiskCanFail = FALSE
  COINBASE_MATURITY = 0
  DisjointCheckupDepth = 0
  DisjointCheckupHeight = 5
  FirstChunks <- ForkedChunks
  IbdBlocks = {"b2", "b3", "b4", "b5"}
  Relayed = {"b3", "b4", "b5", "f3", "f4"}
INVARIANTS
  HeadsAreRoots
  HeadsAreInTree
  BestIsAnchored
  NothingMatureIsLeft
  AnswersFollowBest
PROPERTIES
  AddBlockEnds
  StoredAfterParent
CHECK_DEADLOCK FALSE
