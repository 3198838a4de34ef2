CONSTANTS
  p1 = p1
  p2 = p2
  p3 = p3
  config = config
  work = work
  logs = logs
  Proc = {p1, p2, p3}
  Path = {config, work, logs}
  Inode = {i1, i2, i3}
  N = 2
  Dirs <- CrossedDirs
  None = None
  MaxStarts = 1
SPECIFICATION FairSpec
INVARIANTS TypeOK MutualExclusion
PROPERTIES ImplementsLockTable EveryStartDecided
CHECK_DEADLOCK FALSE
