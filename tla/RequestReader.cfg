SPECIFICATION FairSpec
CONSTANTS
  Requests <- MCRequests
  MaxBodySize = 3
  MaxScriptBody = 3
  MaxRead = 2
  MaxRequests = 3
INVARIANTS
  StoredWhole
  RefusedGone
  
  
  InStep
  
PROPERTIES
  EachAnswered
CHECK_DEADLOCK FALSE
