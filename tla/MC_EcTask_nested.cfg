CONSTANTS
  TASK_ID_COUNT = 3
  IRQ_COUNT = 2
  TIMER_IRQ = 1
  Events = {"TASK_EVENT_CUSTOM"}
  Mutexes = {1}
  Calls = {"wait_event"}
  MaxCalls = 1
  MaxIrqEvents = 2
SPECIFICATION Spec
PROPERTY ReschedBeforeReturn
