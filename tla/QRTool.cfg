SPECIFICATION ToolSpec
CONSTANTS
  Scripts <- SomeScripts
  Programs <- SomePrograms
CHECK_DEADLOCK FALSE
INVARIANTS
  
  
  
  BlocksAreCodewords
  
  FrameHasRoom
  PictureShowsSymbol
  ScannerGetsIn

  
