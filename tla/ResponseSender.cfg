SPECIFICATION FairSpec
CONSTANTS
  Requests <- MCRequests
  Chunk = 4
  MaxBodySize = 2
  MaxRequests = 2
INVARIANTS
  InOrder
  BoundedLoss
  FirstFits
PROPERTIES
  WholePage
  BareHeadersClose
  AnswerEnds
CHECK_DEADLOCK FALSE
