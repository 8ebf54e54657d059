CONSTANTS
  p1 = p1
  p2 = p2
  Procs = {p1, p2}
  Sources = {1, 2}
  Archives = {2}
  Fps = {f1}
  Revs = {r1, r2}
  None = None
  Commands <- TwoUpdaters
SYMMETRY Exchange
SPECIFICATION Spec
INVARIANTS TypeOK OneWriter
PROPERTY ReportedSourcesRest
