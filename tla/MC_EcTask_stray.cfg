CONSTANTS
  TASK_ID_COUNT = 4
  IRQ_COUNT = 1
  TIMER_IRQ = 1
  Events = {"TASK_EVENT_CUSTOM"}
  Mutexes = {1}
  Calls = {"mutex_lock"}
  MaxCalls = 3
  MaxIrqEvents = 2
SPECIFICATION Spec
INVARIANT NoMutexEventLeft
