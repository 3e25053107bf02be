SPECIFICATION FairSpec
CONSTANTS
  Digit <- MCDigit
  DigitValue <- MCDigitValue
  Other <- MCOther
  Bodies <- MCBodies
  Modulus = 8
  maxBodySize = 3
  MaxRead = 4
INVARIANTS
  Counted
  DiskBound
  AsOneRead
PROPERTIES
  Final
  Answered
CHECK_DEADLOCK FALSE
