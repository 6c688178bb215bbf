SPECIFICATION FairSpec
CONSTANTS
  Medias <- MCMedias
  Targets = {1, 2}
  MaxBuffers = 2
  MaxCalls = 3
PROPERTIES SeekHonoured
CHECK_DEADLOCK FALSE
