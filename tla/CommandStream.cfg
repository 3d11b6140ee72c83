SPECIFICATION FairSpec
CONSTANTS
  Keys = {33, 58}
  Buttons = {0, 2}
  Moves <- TwoMoves
  MaxCommands = 2
  Fragments = TRUE
CHECK_DEADLOCK FALSE
INVARIANTS
  EventsFollowCommands
  
PROPERTIES
  HangUpEndsParsing
