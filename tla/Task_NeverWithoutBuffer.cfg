SPECIFICATION Spec
CONSTANTS
  Buffers = {0, 1, 2, 3}
  CacheSize = 1
  NBlocks = 5
  Aligned = FALSE
  MaxParallelSize = 2
  MaxParallelNum = 2
  EndsInside = TRUE
  MaxSeeks = 0
  MaxErrors = 0
INVARIANT NeverWithoutBuffer
CHECK_DEADLOCK FALSE
