SPECIFICATION FairSpec
CONSTANTS
  MaxCommands = 1
CHECK_DEADLOCK FALSE
PROPERTIES
  LoginReturns
