SPECIFICATION Spec
CONSTANTS
  Procs = {p1, p2}
  NoProc = NoProc
INVARIANTS MutualExclusion
CHECK_DEADLOCK FALSE
