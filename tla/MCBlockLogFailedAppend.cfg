SPECIFICATION Spec
CONSTANTS
  Blocks <- MCBlocks
  Models <- MCModels
  GenesisModel = "g"
  DifficultyZeroBits = 0
  Configs = {"ours"}
  InheritedLogs <- NoLog
  MaxFailedAppends = 1
  MaxTornCrashes = 0
  MaxCleanStops = 1
INVARIANTS
  RefusedOnlyIfCorrupt
CHECK_DEADLOCK FALSE
