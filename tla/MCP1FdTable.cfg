SPECIFICATION Spec
CONSTANTS
  names = names
  data = data
  Mounts <- MCMounts
  MountSeq <- MCBoth
  Grant <- MCGrant
  Asked <- MCAsked
  Files = {f1, f2, f3}
  Std = 1
  Width = 5
  RenumberLimit = 2
  MaxFDs = 4
  NoFile = NoFile
  NoMount = NoMount
  NoEntry = NoEntry
  Stale = Stale
SYMMETRY Symmetry
CHECK_DEADLOCK FALSE
INVARIANTS
  HostFilesOwned
  ModeMatchesRights
  EffectsGranted
PROPERTIES
  FullOpensNothing
