SPECIFICATION FairSpec
CONSTANTS
  NPorts = 2
  Procs = {p1, p2}
  NoProc = NoProc
  NoJob = NoJob
  MaxCert = 2
  TTL = 1
  Window = 2
  ReloadEffective = TRUE
  ImplicitReloads = FALSE
  RenewMidJob = FALSE
INVARIANTS Continuity PruneWhenLive DeploysPublished OrderlyInv
PROPERTIES CompletionClean ImplementsHandover PendingCompletes
