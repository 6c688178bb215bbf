SPECIFICATION FairSpec
CONSTANTS
  v = v
  a = a
  Tracks <- TwoTracks
  Unqueued = {}
  Media <- Short
  MIN_FRAMES = 1
  Targets = {1}
  MaxSeeks = 1
  MaxErrors = 0
  MayStop = FALSE
PROPERTIES SeekExecuted
CHECK_DEADLOCK FALSE
