SPECIFICATION Spec
CONSTANTS
  w1 = w1
  w2 = w2
  s1 = s1
  s2 = s2
  ann = ann
  bob = bob
  cid = cid
  c1 = c1
  c2 = c2
  NULL = NULL
  Author = ann
  First = c1
  Workers = {w1}
  Sessions = {s1}
  Reviewers = {ann}
  Senders = {bob}
  Contents = {c1, c2}
  Ops = {"sync", "edit", "submit", "approve", "send", "reconcile", "reject", "decline", "patch_plan", "request_changes", "cancel"}
  SendMaxAttempts = 1
  ReconMaxAttempts = 1
  SeparateApprover = TRUE
  TwoPerson = FALSE
  HeartbeatsReliable = TRUE
  MaxRev = 3
  MaxKey = 3
  MaxApprovals = 1
  MaxSends = 1
  MaxOutlookEdits = 1
  MaxRequests = 5
  MaxFaults = 0
CHECK_DEADLOCK FALSE
INVARIANTS
  TypeOK
  RoutedImpliesSent
