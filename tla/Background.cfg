SPECIFICATION BackgroundSpec
CONSTANTS
  j1 = j1
  j2 = j2
  folder = folder
  other = other
  w1 = w1
  w2 = w2
  p1 = p1
  NULL = NULL
  Jobs = {j1, j2}
  Target <- Distinct
  Targets = {folder, other}
  UniqueTargets = {folder}
  Workers = {w1, w2}
  Producers = {p1}
  Priorities = {1, 2}
  MaxAttempts = 2
  HeartbeatsReliable = TRUE
  CleanFailures = TRUE
  MaxCrashes = 1
  MaxClaims = 5
  LicensingKeys = {"l1", "l2"}
  DocumentKeys = {"d1"}
  LicensingWorkers = {"a1", "a2"}
  DocumentWorkers = {"b1"}
  LicensingMax = 2
  LeasesHold = TRUE
  MaxDeaths = 2
  DayStops = {0, 118, 122, 131}
  Holidays = {128}
  Policies <- BothRules
  MoveTo = {140}
  MaxRows = 3
  MaxMoves = 1
CHECK_DEADLOCK FALSE
INVARIANTS
  NoSharedJob
  
  MilestonesKeepOrder
PROPERTIES
  TerminalIsFinal
  ImplementsService
  LeasedImplements
  EveryJobEnds
  
