SPECIFICATION Spec
CONSTANTS
  MaxRequests = 3
PROPERTY SetupPostponed
CHECK_DEADLOCK FALSE
