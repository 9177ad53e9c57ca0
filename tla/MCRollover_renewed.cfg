SPECIFICATION Spec
CONSTANTS
  NPorts = 1
  Procs = {p1}
  NoProc = NoProc
  NoJob = NoJob
  MaxCert = 1
  TTL = 1
  Window = 2
  ReloadEffective = TRUE
  ImplicitReloads = FALSE
  RenewMidJob = TRUE
INVARIANTS DeploysPublished
