SPECIFICATION FairSpec
CONSTANTS
  Contents <- MCAudio
  ResetWindow <- EventPCs
  Reprepare = FALSE
  MayDestroy = FALSE
  MaxPrepares = 2
PROPERTY InterruptIsSafe
CHECK_DEADLOCK FALSE
