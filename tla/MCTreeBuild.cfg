SPECIFICATION Spec
CONSTANTS
  Feature = {1, 2, 3}
  Cuts <- MCCuts
  F32_MAX = 2
  NaN = NaN
  Lambda = 1
  Gamma = 0
  MinChildWeight = 0
  Scale = 420
  Row <- MCRow
  MaxDepth = 3
  Blocks <- MCBlocks
  ValueChoices <- MCValues
  GradChoices <- MCGrads
  SampledChoices <- MCSampled
  ColumnReads = {TRUE, FALSE}
INVARIANTS
  NodesExact
  RowsAccounted
  NeverPanics
  TrainMatchesPredict
PROPERTIES
  ImplementsGreedy
