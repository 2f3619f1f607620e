SPECIFICATION Spec
CONSTANTS
  Resettable = {2, 4}
  Callers = {1, 2, 4}
  TASK_ID_COUNT = 6
  MaxCalls = 6
PROPERTY ImplementsApi
CHECK_DEADLOCK FALSE
