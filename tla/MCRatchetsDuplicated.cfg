SPECIFICATION RatchetsSpec
CONSTANTS
  MaxSeq = 5
  MaxSkip = 3
  MaxCache = 2
  Subjects = {"duplicated"}
INVARIANTS
  DuplicatesDoNoHarm
CHECK_DEADLOCK FALSE
