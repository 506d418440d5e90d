SPECIFICATION LoopsSpec
CONSTANTS
  Row <- MCRow
  MRow <- MCRow
  NRounds = 5
  EvalSets = {1, 2}
  Scores = {1, 2}
  Callbacks <- MCCallbacks
  Configs <- MCConfigs
  KeptChoices <- MCKept
  NClasses = 3
  MultiRounds = 2
  Kepts <- MCKepts
INVARIANTS
  NoHalfOpenState
