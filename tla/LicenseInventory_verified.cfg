SPECIFICATION LicSpec
CONSTANTS
  Clerks = {"c1"}
  Importers = {"i1"}
  Numbers = {}
  NewStatuses = {"ACTIVE"}
  MaxLicences = 1
  MaxPlans = 1
  MaxSheetRows = 1
  MaxExpiry = 2
  MaxLicEdits = 3
CHECK_DEADLOCK FALSE
INVARIANTS
  VerifiedSurvives
