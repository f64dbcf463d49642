SPECIFICATION MCSpec
CONSTANTS
  Attempts = {a1, a2}
  NoAttempt = none
  Lengths <- MCLengths
  Savers = {p1, p2}
  Daily = {day}
  Unsafe = {bomb}
  Names = {n1, n2}
  NoName = none
  Stray = stray
  Sources <- MCSources
  MaxKills = 1
  Users = {u1, u2}
  FirstAdmin = u1
  Roles = {"viewer", "admin"}
  Requests = {r1, r2}
  VersionIds = {v1, v2}
  NoVersionId = none
  Operators = {o1, o2}
  MaxSwaps = 2
  Sites = {s1, s2}
  Devices = {base}
  Bases = {base}
  NoSite = none
  Editors = {e1, e2}
  MaxVersions = 2
  Uploads <- MCUploads
  Stations <- MCStations
  Baselined <- MCBaselined
  MinSamples = 2
  Site = "s1"
  Nodes = {"n1", "n2"}
  ExternalDevice = "WEATHER-API"
  Units <- MCUnits
  AcceptedFlags = {"ok"}
  NodeFeatures = {"disp"}
  SiteFeatures = {"rain"}
  Persisted <- MCPersisted
  MaxPersisted = 3
  Targets <- MCTargets
  EventWindows <- MCEventWindows
  EventCount = 6
  Splits = 2
  Embargoes = {0, 1}
  WithoutData = {{}, {1}}
  FleetOrder <- MCFleetOrder
  FleetType <- MCFleetType
  FleetSite <- MCFleetSite
  Calibrated = {"BASE-01", "ROVER"}
  Polls = {q1}
  MaxWrites = 2
  Streams <- MCStreams
  NoStream = none
  Calls <- MCCalls
  Outcomes <- MCOutcomes
  MaxCalls = 3
INVARIANTS
  PartIsOneVersion
  EntriesSurvive
  QuietTableAgrees
  HistoryKeepsItsSite
  ProcessedIsComplete
  SamplesInventNothing
  EvaluationNeverLeaks
  RepliesAreCurrent
  ManifestsDescribe
PROPERTIES
  LockoutNeedsRace
  SubmissionsGetNumbers
CHECK_DEADLOCK FALSE
