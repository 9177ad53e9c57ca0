SPECIFICATION Spec
CONSTANTS
  Procs = {p1, p2, p3, p4}
  NoProc = NoProc
SYMMETRY ProcSymmetry
INVARIANTS TypeOK ExclusiveUnlessRaced NamedUnlessRaced NoOrphan DeadNeverBlock
CHECK_DEADLOCK FALSE
