CONSTANTS
  PLL_STABLE_MIN = 1
  WAIT_CYCLES = 1
  SETTLE_CYCLES = 0
  TIMEOUT_CYCLES = 1
  MAX_FAIL_COUNT = 2
  GRACE_CYCLES = 1
  KEY_MEMORY_START = 0
  KEY_MEMORY_END = 1
  FACTORY_TIMEOUT = 2
  LivePins = {"KILL_PIN", "alarm", "JUMPER_CALIB", "pll_locked"}
SPECIFICATION Spec
INVARIANTS WatchdogKillLands ErasedInTime
PROPERTIES NoKillBeforeTested
