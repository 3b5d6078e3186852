SPECIFICATION MailSpec
CONSTANTS
  Parts = {"p1"}
  Intakers = {"w1", "w2"}
  Reviewers = {"r1", "r2"}
  IntakeMax = 2
  MaxVersions = 2
  MaxIntakeFaults = 1
  Composers = {"s1", "s2"}
  ReconDraftMax = 2
  MaxReplies = 2
  MaxEdits = 1
  MaxDraftFaults = 1
  Docs = {"d1", "d2"}
  MaxSelections = 3
  MaxUploads = 3
  MaxAttFaults = 1
CHECK_DEADLOCK FALSE

  
  
PROPERTIES
  MailIsClassified
  
