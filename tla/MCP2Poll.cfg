SPECIFICATION FairSpec
CONSTANTS
  N = 2
  MaxTime = 2
CHECK_DEADLOCK FALSE
INVARIANT
  OneWaiter
PROPERTIES
  NoLostWakeup
  WorkersEnd
