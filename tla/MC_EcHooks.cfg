CONSTANTS
  DEFERRED_FUNCS_COUNT = 2
  HOOK_TICK_INTERVAL = 3
  SECOND = 5
  MaxTime = 8
  MaxDelay = 4
  MaxCalls = 3
SPECIFICATION HooksSpec
INVARIANTS NoCallLost NoOversleep
CHECK_DEADLOCK FALSE
