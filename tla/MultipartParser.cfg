SPECIFICATION FairSpec
CONSTANTS
  Byte <- MCByte
  boundary <- MCBoundary
  Bodies <- MCBodies
  MaxRead = 6
INVARIANTS
  OneFileOpen
  HoldsBack
  Stored
  AsOneRead
PROPERTIES
  Answered
CHECK_DEADLOCK FALSE
