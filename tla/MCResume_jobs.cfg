SPECIFICATION FairSpec
CONSTANTS
  NJobs = 2
  NPorts = 1
  Busy = {2}
  Followed = {2}
  Again = FALSE
  Mixes <- AfterEach
  MaxCert = 1
  TTL = 1
  Limit = 1
  NoJob = NoJob
  Torn = Torn
INVARIANTS TypeOK ExitTruth RearmedServed
PROPERTIES CompletedIsDone CarriedThrough
