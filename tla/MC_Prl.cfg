SPECIFICATION Spec
CONSTANTS
  PD_MESSAGE_ID_COUNT = 3
  MaxRequests = 1
  MaxMessages = 2
  MaxSoftResets = 1
  CacheDepth = 2
INVARIANTS InOrderOnce FreshNotDropped NoStrayOutcome SentWasAccepted
CHECK_DEADLOCK FALSE
