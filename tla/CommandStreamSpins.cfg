SPECIFICATION FairSpec
CONSTANTS
  Keys = {33}
  Buttons = {0}
  Moves = {}
  MaxCommands = 1
  Fragments = TRUE
CHECK_DEADLOCK FALSE
PROPERTIES
  MessagesAreProcessed
