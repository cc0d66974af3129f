SPECIFICATION Spec
CONSTANTS
  Threads = {t1, t2}
  Streams = {s1, s2}
  Buffers = {b1, b2}
  Dir <- MCDir
  MaxRecords = 2
  NoBuffer = NoBuffer
SYMMETRY Symmetry
CHECK_DEADLOCK FALSE
INVARIANTS
  BuffersOwned
  NativeCallsOpen
  ListingInOrder
