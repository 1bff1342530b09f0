SPECIFICATION LockSpec
CONSTANTS
  Procs = {p1, p2, p3}
  MaxRuns = 1
  MaxEnds = 1
  NoFile = NoFile
SYMMETRY Interchangeable
INVARIANTS
  MutualExclusion
CHECK_DEADLOCK FALSE
