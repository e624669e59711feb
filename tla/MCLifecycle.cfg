SPECIFICATION FairSpec
CONSTANTS
  Nodes = {n1, n2}
  Handlers = {h1, h2}
  MaxInboundConnections = 1
  Commands = {"StartMining", "StopMining", "Stop"}
  Backlog = 1
  MaxCommands = 2
  MaxCrashes = 1
INVARIANTS
  OneWriter
  StopLeavesNothing
  PermitsCountHandlers
PROPERTIES
  StopReturnsInTheEnd
  PermitsComeBack
  LoopGoesRound
