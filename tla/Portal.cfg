SPECIFICATION PortalMCSpec
CONSTANTS
  MaxSessions = 1
  MaxPortalFaults = 1
  MaxHandoffs = 2
  MaxRunFaults = 1
CHECK_DEADLOCK FALSE

  
PROPERTIES
  PortalJobsEnd
  BrowserIsClosed
