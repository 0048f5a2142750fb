SPECIFICATION RatchetsSpec
CONSTANTS
  MaxSeq = 5
  MaxSkip = 3
  MaxCache = 2
  Subjects = {"forced"}
INVARIANTS
  ForcedKeyAgreement
CHECK_DEADLOCK FALSE
