SPECIFICATION Spec
CONSTANTS
  Blocks <- MCBlocks
  Models <- MCModels
  GenesisModel = "g"
  DifficultyZeroBits = 0
  StoredBlocks <- MCStoredBlocks
  MaxLocatorHashes = 2
  MaxBlocksPerResponse = 2
  SyncPeers = 2
  MaxSyncs = 1
  MaxPeerChain = 3
  MaxRejections = 1
INVARIANTS
  ChainFollowsTip
  EachBlockOnce
  ScreenedHeadersAttach
  HonestHeadersAccepted
  CatchUpProgress
PROPERTIES
  ReorgsCountSwitches
  SyncAllOrNothing
  ImplementsHeaviestTip
