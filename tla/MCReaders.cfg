SPECIFICATION ReadersSpec
CONSTANTS
  Threads = 2
  FileLists <- MCFileLists
  MayPanic = FALSE
  NThread = 3
  Inputs <- MCInputs
  PanicLists <- MCPanicLists
INVARIANTS
  OneReaderPerFile
  QueuedBatchesOwned
  ConsumerServed
  ChunksKeepOrder
PROPERTIES
  ImplementsOrderedStream
  ReadersEnd
