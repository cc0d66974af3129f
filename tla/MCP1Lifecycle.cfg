SPECIFICATION FairSpec
CONSTANTS
  Identities = {i1, i2}
  Threads = {t1, t2}
  States = {s1, s2}
  Preopens = 2
  MaxFiles = 2
  NoState = NoState
  NoThread = NoThread
  NoIdentity = NoIdentity
INVARIANTS
  NoUseAfterClose
  NoOrphanState
PROPERTY
  ShutdownCompletes
