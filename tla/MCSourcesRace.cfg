SPECIFICATION SourcesSpec
CONSTANTS
  NFeats = 2
  Rows <- MCRows
  Targets <- MCTargets
  MaxBins = {8}
  Given <- MCGiven
  Widths = {1, 2}
  Modes = {"path", "temp", "memory"}
  ReplaceWhileOpen = TRUE
  NRuns = 2
  None = None
  Rot = Rot
  Torn = Torn
  Error = Error
  Calls <- MCCalls
  Positional <- PosNames
  Models <- MCModels
  FileLists <- MCFileLists
INVARIANTS
  ReusedBinsAreCurrent
CHECK_DEADLOCK FALSE
