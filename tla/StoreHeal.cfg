CONSTANTS
  p1 = p1
  p2 = p2
  Procs = {p1, p2}
  Sources = {1}
  Archives = {}
  Fps = {f1, f2}
  Revs = {r1}
  None = None
  Commands <- UpdaterAndPruner
SPECIFICATION FairSpec
PROPERTIES
  HeldLockIsFreed
  Convergence
INVARIANT ReportsMatchDisk
