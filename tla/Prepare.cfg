SPECIFICATION FairSpec
CONSTANTS
  Contents <- MCContents
  ResetWindow <- MCQuiet
  Reprepare = FALSE
  MayDestroy = TRUE
  MaxPrepares = 3
INVARIANTS NoDanglingEvent PreparedIsWhole OwnsWhatLives
PROPERTIES ImplementsLifecycle PrepareEnds ResetReturns
CHECK_DEADLOCK FALSE
