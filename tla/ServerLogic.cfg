SPECIFICATION FairSpec
CONSTANTS
  MaxSend = 3
  MaxSessions = 2
CHECK_DEADLOCK FALSE
INVARIANTS
  FreeMeansBothLeft
  ZeroMeansBothServe
  LoopExitIsLast
  SocketsUsable
PROPERTIES
  ImplementsSessions
  
