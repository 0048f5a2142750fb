CONSTANTS
  Nonces = {1, 2}
  DedupWindow = 4
  Perfect = 10
  Decay = 1
  DecayBase = 4
  Threshold = 4
  Brokers = {1, 2, 3}
  BroadcastK = 2
  MaxSlot = 1
  MaxCopies = 2
  ReceiveFrom = {1}
  MaxReports = 3
  rotation_interval = 3
  MIN_CIRCUIT_AGE = 2
  MaxAge = 5
  MaxCircuits = 2
  Payloads = {p1, p2}
  max_queue = 2
  MaxCalls = 2
  MAX_TIMESTAMP_SKEW_MS = 1
  ENVELOPE_BLOCK_SIZE = 512
  Ahead = 1
  MaxSent = 2
  MaxTime = 3
  MaxRestarts = 1
  max_messages = 2
  max_duration = 3
  base_interval = 1
  max_jitter = 2
  max_per_minute = 1
  Minute = 4
  min_jitter_ms = 1
  max_jitter_ms = 4
  MaxTopics = 2
  Strangers = {1, 2, 3, 4, 5, 6}
  MaxAccepted = 7
SPECIFICATION ServicesSpec
INVARIANTS TypesOK CarriersKeepFaith OnceAndRecent TrafficPaced
PROPERTIES BadBrokersLeftOut MeshProgress
CHECK_DEADLOCK FALSE
