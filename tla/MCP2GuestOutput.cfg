SPECIFICATION FairSpec
CONSTANTS
  Guests = {g1}
  Workers = {w1}
  MaxPermit = 2
  MaxLen = 2
  Calls = {"check", "write", "flush", "bwrite", "bflush", "splice", "bsplice"}
INVARIANTS
  GrantUsedOnce FailureToldOnce
PROPERTIES
  FlushedOnSuccess
  ReadyMeansPermit
  CallEnds
