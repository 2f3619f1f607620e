CONSTANTS
  TASK_ID_COUNT = 3
  IRQ_COUNT = 2
  TIMER_IRQ = 1
  Events = {"TASK_EVENT_CUSTOM"}
  Mutexes = {1}
  Calls <- EveryCall
  MaxCalls = 3
  MaxIrqEvents = 1
SPECIFICATION Spec
INVARIANTS TypeOK MutualExclusion MutexWakeupComing EventMakesReady HighestPriorityRuns TimerStaysInWait
PROPERTY ImplementsApi
