SPECIFICATION Spec
CONSTANTS
  w1 = w1
  w2 = w2
  s1 = s1
  s2 = s2
  ann = ann
  bob = bob
  cid = cid
  c1 = c1
  c2 = c2
  NULL = NULL
  Author = ann
  First = c1
  Workers = {w1, w2}
  Sessions = {s1}
  Reviewers = {ann}
  Senders = {bob}
  Contents = {c1}
  Ops = {"sync", "submit", "approve", "send", "request_changes", "cancel"}
  SendMaxAttempts = 1
  ReconMaxAttempts = 1
  SeparateApprover = TRUE
  TwoPerson = FALSE
  HeartbeatsReliable = TRUE
  MaxRev = 2
  MaxKey = 2
  MaxApprovals = 2
  MaxSends = 2
  MaxOutlookEdits = 1
  MaxRequests = 7
  MaxFaults = 0
SYMMETRY Symmetry
CHECK_DEADLOCK FALSE
INVARIANTS
  SendOnce
  JobsAreOwned
PROPERTIES
  NoReplay
  CancelFailsClosed
