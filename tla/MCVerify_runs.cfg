SPECIFICATION Spec
CONSTANTS
  Limit = 2
  MaxLines = 2
  MaxWire = 2
  Warn = 2
  Critical = 1
  Runs <- Lines
  InZone = {1}
  Hosts = {1, 2}
  Preferences = {10, 20}
  Proofs <- Statuses
  Zones <- Listings
  MaxMx = 3
  MaxAddrs = 2
INVARIANTS TypeOK WithinBudget TlsInStep HonestServed HostsChosen NamesLookedUp WritesInZone ExitByFacts
PROPERTIES UnreachableGoesOn Ends
CHECK_DEADLOCK FALSE
