SPECIFICATION Spec
CONSTANTS
  Files <- MCFiles
  IntModulus = 262144
  SizeMax = 1073741824
  HostAddresses <- MCHostAddresses
  Browser <- MCBrowser
  Connection <- MCConnection
  Owner <- MCOwner
  MaxSecond = 2
  MaxRequests = 3
INVARIANTS
  AsWritten
  DamageSeen
  EntriesServed
  BoundOnce
  RightFile
PROPERTIES
  KeepsSession
CHECK_DEADLOCK FALSE
