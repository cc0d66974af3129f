SPECIFICATION Spec
SYMMETRY MCSymmetry
CONSTANTS
  Threads = {t1, t2}
  NMounts = 2
  Grants <- MCGrants
  MaxDescriptors = 2
  MaxStreams = 1
  MaxDirectoryStreams = 1
  MaxReps = 3
  Requests <- MCRequests
INVARIANTS
  HandlesAccounted EffectsGranted NoOrphan OneAdapter
CHECK_DEADLOCK FALSE
