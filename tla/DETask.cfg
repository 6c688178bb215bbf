SPECIFICATION FairSpec
CONSTANTS
  Buffers = {0, 1, 2, 3}
  CacheSize = 2
  NBlocks = 5
  Aligned = FALSE
  MaxParallelSize = 2
  MaxParallelNum = 2
  EndsInside = FALSE
  MaxSeeks = 1
  MaxErrors = 2
INVARIANTS BuffersPartitioned BuffersSuffice
PROPERTIES ImplementsCache ReaderServed
CHECK_DEADLOCK FALSE
