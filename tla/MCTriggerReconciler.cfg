SPECIFICATION FairSpec
CONSTANTS
  Bases <- Stations
  Timeout <- TimeoutOf
  Limit = 1
  Lag = 1
  MaxClock = 2
  MaxCommands = 3
  MaxFailures = 1
INVARIANTS
  ScanMissesNothing
PROPERTIES
  NoRevisit
  OverdueEnds
