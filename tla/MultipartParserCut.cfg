SPECIFICATION FairSpec
CONSTANTS
  Byte <- MCByte
  boundary <- MCBoundary
  Bodies <- MCFewBodies
  MaxRead = 6
INVARIANT SeenFinished
CHECK_DEADLOCK FALSE
