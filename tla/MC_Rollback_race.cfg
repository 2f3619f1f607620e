SPECIFICATION Spec
CONSTANTS
  rwsig = rwsig
  hooks = hooks
  fpsensor = fpsensor
  Updaters = {rwsig, hooks}
  Readers = {}
  CONFIG_ROLLBACK_VERSION = 0
  CONFIG_ROLLBACK_MPU_PROTECT = TRUE
  CONFIG_VBOOT_HASH = FALSE
  MaxVersion = 2
  MaxEntropies = 2
PROPERTY NeverDecreased
