SPECIFICATION Spec
CONSTANTS
  Buffers = {0, 1, 2}
  CacheSize = 1
  NBlocks = 4
  Aligned = TRUE
  MaxParallelSize = 2
  MaxParallelNum = 2
  EndsInside = FALSE
  MaxSeeks = 2
  MaxErrors = 2
INVARIANT NoEmptySegment
CHECK_DEADLOCK FALSE
