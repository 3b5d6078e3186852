SPECIFICATION Spec
CONSTANTS
  j1 = j1
  j2 = j2
  folder = folder
  other = other
  w1 = w1
  w2 = w2
  p1 = p1
  p2 = p2
  NULL = NULL
  Jobs = {j1, j2}
  Target <- TwoOnOne
  Targets = {folder, other}
  UniqueTargets = {folder}
  Workers = {w1, w2}
  Producers = {p1, p2}
  Priorities = {1}
  MaxAttempts = 2
  HeartbeatsReliable = FALSE
  CleanFailures = FALSE
  MaxCrashes = 1
  MaxClaims = 3
SYMMETRY Symmetry
CHECK_DEADLOCK FALSE
INVARIANTS
  TypeOK
  OneActivePerTarget
  EscalationKeysFresh
  AttemptsBounded
