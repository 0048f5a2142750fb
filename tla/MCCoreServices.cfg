CONSTANTS
  Subjects = {"validator", "bridge", "guard", "audit", "console", "drop", "ends", "sentry", "devices"}
  MaxSeq = 5
  WindowSize = 3
  MaxSend = 8
  MaxRejected = 2
  DeviceMaxSeq = 2
  MaxCalls = 4
  max_messages = 10
  max_duration = 5
  warning_percent = 80
  max_entries = 4
  MaxEdits = 3
  MaxLogged = 6
  Letters = {":", "k", "l"}
  Period = 2
  MaxDraft = 2
  MaxTyped = 2
  CheckpointPeriod = 2
  max_lookahead = 3
  TTL = 2
  MaxDrops = 5
  MaxDropTime = 3
  MaxCrashes = 2
  MaxKeys = 4
  MaxTurns = 2
  Peers = {1}
  EpochTicks = 3
  MaxDrift = 2
  Drifts = {0, 2, 3}
  MaxTime = 6
  Devices = {alice, bob}
  MaxSkip = 1
  DeviceMessages = 4
  MaxNumber = 2
SPECIFICATION ServicesSpec
INVARIANTS TypesOK WindowExact FreshRefusedOnlyAfterWrap GuardsExact AnswersBelieved ConsoleFaithful TitanDelivers DeviceKeepsCount
PROPERTIES ImplementsAtMostOncePerEpoch
CHECK_DEADLOCK FALSE
