CONSTANTS
  Tasks = {1, 2}
  PERIOD = 3
  MaxTime = 10
  MaxDelay = 4
  StatusWindow = FALSE
SPECIFICATION Spec
INVARIANTS TypeOK GetTimeCoherent OnTime
PROPERTY NeverEarly
CHECK_DEADLOCK FALSE
