SPECIFICATION FairSpec
CONSTANTS
  Blocks <- MCBlocks
  Models <- MCModels
  GenesisModel = "g"
  DifficultyZeroBits = 0
  n1 = n1
  n2 = n2
  n3 = n3
  Nodes = {n1, n2, n3}
  Environments <- MCEnvironments
  HashSize = 1
  HeaderSize = 2
  BlockSize = 3
INVARIANTS
  HonestBatchValid
PROPERTIES
  WaitsEnd
  GossipEnds
  Converges
