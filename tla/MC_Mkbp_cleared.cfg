CONSTANTS
  HOOKS = 0
  HOSTCMD = 1
  KEYSCAN = 2
  EC_MKBP_EVENT_COUNT = 3
  KEY_MATRIX = 0
  FifoTypes = {0, 2}
  Sources <- KeysAndButtons
  FIFO_DEPTH = 3
  Depths = {1}
  ID_MOD = 4
  MayFail = FALSE
  MaxEvents = 3
SPECIFICATION Spec
INVARIANT HeadAnnounced
CHECK_DEADLOCK FALSE
