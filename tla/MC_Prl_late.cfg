SPECIFICATION Spec
CONSTANTS
  PD_MESSAGE_ID_COUNT = 7
  MaxRequests = 2
  MaxMessages = 2
  MaxSoftResets = 0
  CacheDepth = 2
INVARIANT OnlyDuplicatesIgnored
CHECK_DEADLOCK FALSE
