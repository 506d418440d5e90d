SPECIFICATION StepsSpec
CONSTANTS
  Alone = Alone
  Left = Left
  Right = Right
  NaN = NaN
  MaxRows = 7
  ByteRows = 2
  MinRows = 3
  MaxThreads = 3
INVARIANTS
  SketchKeepsRanks
  PlanFitsAndCovers
  ConstraintsHold
  SameAsSerial
CHECK_DEADLOCK FALSE
