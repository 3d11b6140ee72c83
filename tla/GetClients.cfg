SPECIFICATION FairLoginSpec
CONSTANTS
  Peers = {"p", "q"}
  MaxBarcodes = 3
CHECK_DEADLOCK FALSE
INVARIANTS
  OnlyClientIsOpen
  ServedSentPassword
  AcceptsWhatIsShown
PROPERTIES
  ScreenFollows
