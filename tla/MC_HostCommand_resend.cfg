SPECIFICATION Spec
CONSTANTS
  MaxRequests = 3
PROPERTY ResendIsTrue
CHECK_DEADLOCK FALSE
