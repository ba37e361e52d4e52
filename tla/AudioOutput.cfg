SPECIFICATION FairSpec
CONSTANTS
  None = None
  Backends = {"opensl", "audio_track"}
  PlayerBlocks = 2
  PooledBlocks = 2
  CaptureBlocks = 1
  ExtraDelay = 1
  MaxPerPoll = 2
  StartMayFail = TRUE
INVARIANTS
  PlaysInOrder
  NothingLeftToReplay
  SinkFollowsMixer
PROPERTIES
  SoundIsHeard
CHECK_DEADLOCK FALSE
