SPECIFICATION LicensingSpec
CONSTANTS
  Clerks = {"c1"}
  Importers = {"i1", "i2"}
  Numbers = {"n1"}
  NewStatuses = {"ACTIVE", "SURRENDERED"}
  MaxLicences = 2
  MaxPlans = 1
  MaxSheetRows = 2
  MaxExpiry = 1
  MaxLicEdits = 2
  Facts = {"f", "g"}
  MaxSnapshots = 2
  MaxOverrides = 1
  MaxReruns = 1
  Papers <- TwoBonds
  Checklist <- BondChecklist
  PaperFacts <- BondFacts
  MaxPackets = 2
  MaxPaperEdits = 2
  FormFields <- TwoFields
  InfoPolicy = "ALL_ENTITIES_APPROVED"
  Preparers = {"w1"}
  PatchStatuses = {"MANUALLY_FILLED", "NEEDS_REVIEW", "SIGNATURE_REQUIRED"}
  MaxInfos = 1
  MaxForms = 1
  MaxFormEdits = 1
  DocReviewers = {"r1"}
  DocUploaders = {"u1"}
  Texts = {"x"}
  MaxDocRows = 2
  MaxItems = 2
  MaxFeed = 2
  MaxDecisions = 2
  MaxDocFaults = 1
  MaxReviews = 2
  MaxAdapters = 2
  MaxGovEdits = 1
CHECK_DEADLOCK FALSE
INVARIANTS
  InventoryInv
  RequirementsInv
  
  
  
PROPERTIES
  
  ActsUnderSignedReview
