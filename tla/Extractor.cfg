SPECIFICATION FairSpec
CONSTANTS
  v = v
  a = a
  Tracks <- TwoTracks
  Unqueued = {}
  Media <- Short
  MIN_FRAMES = 1
  Targets = {1, 3}
  MaxSeeks = 2
  MaxErrors = 1
  MayStop = TRUE
INVARIANTS OneEventAtATime FlashAtHead TracksAgree ReadAheadBounded
PROPERTIES ImplementsStreams ReaderServed
CHECK_DEADLOCK FALSE
