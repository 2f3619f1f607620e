SPECIFICATION FairSpec
CONSTANTS
  MaxRequests = 4
INVARIANTS
  AnswerToOwnRequest
  DoneMeansDone
  ReadyWhenIdle
PROPERTY ProcessingEnds
CHECK_DEADLOCK FALSE
