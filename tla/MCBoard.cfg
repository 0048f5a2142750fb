CONSTANTS
  KEY_MEMORY_START = 1
  KEY_MEMORY_END = 3
  FACTORY_TIMEOUT = 2
  TIMEOUT_CYCLES = 2
  MAX_FAIL_COUNT = 3
  GRACE_CYCLES = 2
  PLL_STABLE_MIN = 3
  WAIT_CYCLES = 3
  SETTLE_CYCLES = 2
  INTERVAL_CYCLES = 2
  RESP_TIMEOUT = 4
  MaxDelay = 2
  HmacCycles = 2
  MaxRounds = 2
  BlockWords = 16
  Rounds = 64
  MsgWords = 4
  HashWords = 8
  Messages = {1, 2}
  PIN_MAX_ATTEMPTS = 3
  PIN_LOCKOUT_TIER1 = 1
  PIN_LOCKOUT_TIER2 = 2
  LOCKOUT_T1 = 2
  LOCKOUT_T2 = 3
  DEAD_MAN_WARN_SEC = 2
  DEAD_MAN_KILL_SEC = 4
  DuressDelay = 3
  BindWords = 2
  KP_EVENT_QUEUE = 2
  MaxTick = 8
  MaxRestarts = 2
SPECIFICATION FairBoardSpec
INVARIANTS TypesOK NeverNormalAgain EraseExact WindowClosesForGood WatchdogExact
           HeartbeatExact CallWhiteExact
PROPERTIES GetsDone BootGates
CHECK_DEADLOCK FALSE
