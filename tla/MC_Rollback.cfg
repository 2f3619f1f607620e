SPECIFICATION Spec
CONSTANTS
  rwsig = rwsig
  hooks = hooks
  fpsensor = fpsensor
  Updaters = {rwsig}
  Readers = {fpsensor}
  CONFIG_ROLLBACK_VERSION = 0
  CONFIG_ROLLBACK_MPU_PROTECT = FALSE
  CONFIG_VBOOT_HASH = TRUE
  MaxVersion = 1
  MaxEntropies = 2
INVARIANTS TypeOK EntropyKept OldSecretGone RwNotOlder ReadCoherent
PROPERTY ImplementsMinVersion
