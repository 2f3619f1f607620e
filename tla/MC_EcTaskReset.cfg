SPECIFICATION FairSpec
CONSTANTS
  Resettable = {2, 4}
  Callers = {1, 3, 5}
  TASK_ID_COUNT = 6
  MaxCalls = 4
INVARIANT TypeOK
PROPERTIES ImplementsApi RequestsServed
CHECK_DEADLOCK FALSE
