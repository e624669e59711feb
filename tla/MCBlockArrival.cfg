SPECIFICATION ArrivalSpec
CONSTANTS
  ModelStates <- MCModelStates
  Seeds <- MCSeeds
  NextModel <- MCNextModel
  TamperedModel <- MCTamperedModel
  StepsPerBlock = 3
  SampleCounts = {2, 3}
  MaxDeviations = 2
  Byte <- MCByte
  WireConfigs <- MCWireConfigs
  Messages <- MCMessages
  Responses <- MCResponses
  Listings <- MCListings
  Expected <- MCExpected
  TraceLength = 2
  MaxMessageBytes = 27
  MaxLocatorHashes = 2
  MaxListed = 2
  Blocks <- MCBlocks
  Models <- MCModels
  GenesisModel = "g"
  DifficultyZeroBits = 1
  BlockTrained <- MCBlockTrained
  BlockRead <- MCBlockRead
INVARIANTS
  HonestTraceAccepted
  AcceptedIsVerified
  HeaderFixesTrace
  TamperFoundIfSampled
  OneNetworkUnderstands
  OnlySameBytesTaken
  CutNeverMisread
  TreeIsValid
  BestIsHeaviest
  BestChainActivates
  MinedBlockBecomesBest
PROPERTIES
  KnownForever
  IsHeaviestTip
CHECK_DEADLOCK FALSE
