SPECIFICATION RatchetsSpec
CONSTANTS
  MaxSeq = 5
  MaxSkip = 3
  MaxCache = 2
  Subjects = {"symmetric", "within", "limits", "session"}
INVARIANTS
  TypesOK
  KeyAgreement
  CacheAccounting
  KeepNewestIsTheLoop
  EveryDeliveryOpens
  KeysUsedOnce
PROPERTIES
  ImplementsAtMostOnce
  SessionsImplementAtMostOnce
CHECK_DEADLOCK FALSE
