SPECIFICATION FairSpec
CONSTANTS
  FLASH_CHUNKS = 2
  Regions <- MCRegions
  Updates <- MCUpdates
  RW <- MCRW
  MaxUpdates = 2
  MaxBusy = 1
INVARIANT AnswerIsTrue
PROPERTIES
  RecalcAnswers
  RecalcEnds
CHECK_DEADLOCK FALSE
