SPECIFICATION FairSpec
CONSTANTS
  Medias <- MCMedias
  Targets = {1}
  MaxBuffers = 2
  MaxCalls = 3
INVARIANTS LocksComeBack SoundOnlyWhilePlaying VideoOnlyWhilePlaying VideoGoesOn PlaysFromTheStart StatusHasAudio
PROPERTIES AudioContract QueueContract PausesAtTheEnd
CHECK_DEADLOCK FALSE
