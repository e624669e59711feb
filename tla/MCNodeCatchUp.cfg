SPECIFICATION Spec
CONSTANTS
  Blocks <- MCBlocks
  Models <- MCModels
  GenesisModel = "g"
  DifficultyZeroBits = 0
  StoredBlocks <- MCStoredBlocks
  MaxLocatorHashes = 4
  MaxBlocksPerResponse = 2
  SyncPeers = 1
  MaxSyncs = 1
  MaxPeerChain = 3
  MaxRejections = 1
INVARIANTS
  CatchUpFetchesMissing
