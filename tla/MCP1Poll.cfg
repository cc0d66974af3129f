SPECIFICATION FairSpec
CONSTANTS
  N = 2
  MaxU64 = 5
  Timeouts = {0, 1, 5}
  Readings = {0, 1}
CHECK_DEADLOCK FALSE
INVARIANT
  TimeMeasured
PROPERTIES
  PollEnds
  NoLostWakeup
