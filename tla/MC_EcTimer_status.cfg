CONSTANTS
  Tasks = {1, 2}
  PERIOD = 3
  MaxTime = 10
  MaxDelay = 4
  StatusWindow = TRUE
SPECIFICATION Spec
INVARIANT HighWordCountsRollbacks
CHECK_DEADLOCK FALSE
