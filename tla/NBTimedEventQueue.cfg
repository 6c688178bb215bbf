SPECIFICATION FairSpec
CONSTANTS
  Events = {e1, e2}
  StopEvent = stopEvent
  MaxEventID = 3
  MaxTime = 3
  MaxTimeout = 2
  Repost = FALSE
INVARIANTS
  QueueInv
  NoLostWakeup
  HeadNotOverslept
PROPERTIES
  CancelTakesItsPost
  ImplementsPool
  EveryPostResolved
  StopReturns

CHECK_DEADLOCK FALSE
