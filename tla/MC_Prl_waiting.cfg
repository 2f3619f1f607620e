SPECIFICATION FairSpec
CONSTANTS
  PD_MESSAGE_ID_COUNT = 3
  MaxRequests = 0
  MaxMessages = 2
  MaxSoftResets = 1
  CacheDepth = 2
PROPERTY ChunkWaitEnds
CHECK_DEADLOCK FALSE
