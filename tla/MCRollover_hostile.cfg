SPECIFICATION Spec
CONSTANTS
  NPorts = 1
  Procs = {p1, p2}
  NoProc = NoProc
  NoJob = NoJob
  MaxCert = 2
  TTL = 1
  Window = 2
  ReloadEffective = TRUE
  ImplicitReloads = TRUE
  RenewMidJob = TRUE
SYMMETRY ProcSymmetry
INVARIANTS TypeOK ReloadSafe PruneSettled IInv
