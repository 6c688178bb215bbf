SPECIFICATION FairSpec
CONSTANTS
  MaxBuffers = 4
  Orderly = TRUE
  MaxChains = 2
INVARIANT DeviceThere
PROPERTIES SoundStarts SeekEnds
