SPECIFICATION FairSpec
CONSTANTS
  Sources = {s1, s2}
  NoSource = nobody
  MaxCommands = 5
  Alone = TRUE
INVARIANTS NoCommandForgotten EveryWaitHasItsReason
PROPERTIES ImplementsServer CallsReturn
CHECK_DEADLOCK FALSE
