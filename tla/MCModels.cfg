SPECIFICATION ModelsSpec
CONSTANTS
  Saver = {1, 2}
  Loader = {3}
  Size <- MCSize
  Requested = 2
  IoChunk = 2
  MaxSerial = 1
  Nothing = Nothing
  c1 = c1
  c2 = c2
  Call = {c1, c2}
  NBatches = 3
  User = User
  None = None
INVARIANTS
  ModelMeansItsFile
  PredictsTheModel
PROPERTIES
  SavesAreAtomic
  OutputWholeOrGone
  WritersReturn
