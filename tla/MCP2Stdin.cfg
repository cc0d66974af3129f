SPECIFICATION FairSpec
CONSTANTS
  Callers = {c1, c2}
  MaxBytes = 2
  MaxLen = 2
  NoCaller = NoCaller
PROPERTIES
  StdinContract
  BlockedReturns
