CONSTANTS
  Tasks = {1, 2}
  PERIOD = 3
  MaxTime = 10
  MaxDelay = 4
  StatusWindow = FALSE
SPECIFICATION Spec
INVARIANT AlwaysProgrammed
CHECK_DEADLOCK FALSE
