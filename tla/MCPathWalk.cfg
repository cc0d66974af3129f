SPECIFICATION FairSpec
CONSTANTS
  Variants <- MCVariants
  Walks <- MCWalks
  MaxLinks = 2
  MaxPinned = 2
INVARIANTS NoEscape HandlesClosed
PROPERTIES OpensWhatItNames WalkEnds
CHECK_DEADLOCK FALSE
