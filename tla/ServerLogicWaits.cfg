SPECIFICATION FairSpec
CONSTANTS
  MaxSend = 1
  MaxSessions = 2
CHECK_DEADLOCK FALSE
PROPERTIES
  WaitsForAnother
