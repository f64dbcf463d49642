SPECIFICATION Spec
CONSTANTS
  MaxWindow = 2
  HoursPerDay = 2
  Lookback = 1
  RecentJobs = 1
  MaxJobs = 2
  MaxFailedAttempts = 2
  MaxRevision = 3
  Workers = {k1, k2}
  NoWorker = NoWorker
  MaxFaults = 1
SYMMETRY WorkerSymmetry
INVARIANTS
  TypeOK
  CompletedIsStored
  ReadyMeansNavigation
  RunningHasOneWorker
PROPERTIES
  StoredIsFinal
  QueueLosesNothing
