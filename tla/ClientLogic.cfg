SPECIFICATION FairSpec
CONSTANTS
  MaxCommands = 3
CHECK_DEADLOCK FALSE
INVARIANTS
  
  RemoveFindsMessage
  LoginTellsTruth
  PasswordAlone
PROPERTIES
  ErrorStopsThreads
  AnsweredLoginReturns
