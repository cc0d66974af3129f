SPECIFICATION FairSpec
CONSTANTS
  Clients = {c1, c2}
  MaxRequests = 4
CHECK_DEADLOCK FALSE
INVARIANT
  WritesInOrder
PROPERTIES
  FlushBeforeReturn
  WaitEnds
