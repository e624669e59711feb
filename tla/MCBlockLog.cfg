SPECIFICATION Spec
CONSTANTS
  Blocks <- MCBlocks
  Models <- MCModels
  GenesisModel = "g"
  DifficultyZeroBits = 0
  Configs = {"ours", "theirs"}
  InheritedLogs <- MCInheritedLogs
  MaxFailedAppends = 1
  MaxTornCrashes = 2
  MaxCleanStops = 2
INVARIANTS
  AcknowledgedSurvive
  UndamagedLogReplays
  OneConfiguration
  RestoredStateValid
CHECK_DEADLOCK FALSE
