\* Two instances on one file, on each platform.
SPECIFICATION Spec
CONSTANTS
  First = p1
  Second = p2
  Procs = {p1, p2}
  Kinds <- MCKinds
  Rights <- MCRights
  Platforms = {"linux", "darwin", "windows"}
  Requests <- MCRequests
  MaxIOVecs = 2
  MaxU32 = 3
  MaxInt = 3
  MaxSize = 2
INVARIANT TransfersAccounted
PROPERTIES AppendNeverOverwrites AllocateKeepsAndCovers
