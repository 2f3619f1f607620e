CONSTANTS
  TASK_ID_COUNT = 3
  IRQ_COUNT = 1
  TIMER_IRQ = 1
  Events = {"TASK_EVENT_CUSTOM"}
  Mutexes = {1}
  Calls = {"set_event", "mutex_lock", "wait_event"}
  MaxCalls = 2
  MaxIrqEvents = 1
SPECIFICATION FairSpec
PROPERTIES EventSeen LockGranted TimedWaitReturns
