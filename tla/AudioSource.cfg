SPECIFICATION FairSpec
CONSTANTS
  None = None
  NumItems = 4
  RoomPlaying = 2
  RoomPaused = 1
  PrefetchCount = 2
  MaxRetries = 2
  MaxReady = 2
  MaxBlocks = 6
  MaxSources = 2
INVARIANTS
  BlockHasOneOwner
  HeardInOrder
  RoomIsKept
  NoLostWakeup
PROPERTIES
  DestroyReturns
CHECK_DEADLOCK FALSE
