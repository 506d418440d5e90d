SPECIFICATION GpuSpec
CONSTANTS
  Cap = 3
  Window = 2
  MaxDepth = 4
  NTrees = 2
  NRows = 4
  Feature = {1, 2, 3}
  BlockOf <- MCBlockOf
  ResidentBlocks = {1}
  LeftChoices <- Interleaved
  MaxLevels = 3
  BatchCap = 2
  MaxLevelNodes = 4
  Builds = 1
INVARIANTS
  RowsPaidOnce
  CacheIsExact
PROPERTIES
  ImplementsStableSplits
