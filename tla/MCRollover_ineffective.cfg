SPECIFICATION Spec
CONSTANTS
  NPorts = 2
  Procs = {p1}
  NoProc = NoProc
  NoJob = NoJob
  MaxCert = 1
  TTL = 1
  Window = 2
  ReloadEffective = FALSE
  ImplicitReloads = FALSE
  RenewMidJob = FALSE
INVARIANTS Continuity
