SPECIFICATION Spec
CONSTANTS
  NJobs = 1
  NPorts = 1
  Busy = {}
  Followed = {}
  Again = FALSE
  Mixes <- Rehearsed
  MaxCert = 0
  TTL = 1
  Limit = 1
  NoJob = NoJob
  Torn = Torn
PROPERTIES DryRunOnlyPrints
