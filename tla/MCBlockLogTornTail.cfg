SPECIFICATION Spec
CONSTANTS
  Blocks <- MCBlocks
  Models <- MCModels
  GenesisModel = "g"
  DifficultyZeroBits = 0
  Configs = {"ours"}
  InheritedLogs <- NoLog
  MaxFailedAppends = 0
  MaxTornCrashes = 1
  MaxCleanStops = 1
INVARIANTS
  InterruptedAppendRecovers
CHECK_DEADLOCK FALSE
