SPECIFICATION FairScreensSpec
CONSTANTS
  MaxOpens = 2
CHECK_DEADLOCK FALSE
INVARIANTS
  OpenListens
PROPERTIES
  ErrorClosesAll
