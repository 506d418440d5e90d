SPECIFICATION KernelsSpec
CONSTANTS
  ArenaLen = 9
  ThreadsPerBlock = 2
  RowsPerThread = 2
  MaxTileBins = 3
  BinLists <- FeatureBins
  Radix = 2
  Missing <- MissingBin
  Garbage = {1}
  Calls <- KernelCalls
  NRows = 3
  NBlocks = 2
  Budget = 5
  Clamp = 10
  NonFinite = 10000
  Inputs <- KernelInputs
INVARIANTS
  LaunchesCoverSpan
  LaunchSumsExact
  QuantizedLikeHost
