SPECIFICATION MailboxSpec
CONSTANTS
  Msgs = {"m1", "m2"}
  Syncers = {"w1", "w2"}
  SyncMax = 2
  MaxChanges = 2
  MaxSyncFaults = 1
  StallsHappen = TRUE
  Keepers = {"k1", "k2"}
  SubMax = 3
  MaxSubs = 4
  MaxSubFaults = 1
  Movers = {"w1", "w2"}
  Folders = {"A", "B"}
  Overrides = {"B"}
  MoveMax = 2
  VerifyMax = 1
  MaxMoves = 3
  MaxUpsets = 1
CHECK_DEADLOCK FALSE
INVARIANTS
  FolderInv
  MoveInv
PROPERTIES
  ChangesArrive
  SubscriptionHeals
  NoBlindRepeat
  MoveSettles
