SPECIFICATION FairSpec
CONSTANTS
  Clients = {c1, c2}
  MaxBytes = 3
  MaxReads = 3
  MaxLen = 2
  NoClient = NoClient
PROPERTIES
  ContractKept
  ReadinessKept
  EndReached
