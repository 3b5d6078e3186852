SPECIFICATION FairSpec
CONSTANTS
  w1 = w1
  w2 = w2
  s1 = s1
  s2 = s2
  ann = ann
  bob = bob
  cid = cid
  c1 = c1
  c2 = c2
  NULL = NULL
  Author = ann
  First = c1
  Workers = {w1, w2}
  Sessions = {s1, s2}
  Reviewers = {ann}
  Senders = {bob, cid}
  Contents = {c1, c2}
  Ops = {"submit", "approve", "send", "edit", "request_changes"}
  SendMaxAttempts = 3
  ReconMaxAttempts = 1
  SeparateApprover = TRUE
  TwoPerson = TRUE
  HeartbeatsReliable = FALSE
  MaxRev = 2
  MaxKey = 2
  MaxApprovals = 3
  MaxSends = 3
  MaxOutlookEdits = 0
  MaxRequests = 4
  MaxFaults = 1
CHECK_DEADLOCK FALSE
INVARIANTS
  TwoSenders
PROPERTIES
  QueuedIsDecided
