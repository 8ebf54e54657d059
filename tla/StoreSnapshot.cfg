CONSTANTS
  p1 = p1
  p2 = p2
  Procs = {p1, p2}
  Sources = {1}
  Archives = {}
  Fps = {f1}
  Revs = {r1, r2}
  None = None
  Commands <- UpdaterAndPruner
SPECIFICATION SnapshotSpec
PROPERTY PruneSparesFreshInstalls
