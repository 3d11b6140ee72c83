SPECIFICATION TemplateSpec
CONSTANTS
  Radius = 9
  MouseButtons = {"shot", "sight"}
  KeyButtons = {"bend"}
  SightPads = {"eye"}
  Xs <- SomeXs
  Ys <- SomeYs
  MaxTouches = 3
CHECK_DEADLOCK FALSE
INVARIANTS
  MouseBelongsToHeld
  UntouchedIsReleased
  NoJump
  
  PadIsSymmetric
  StartsFreshThread
  QuietMeansReleased
PROPERTIES
  ClearedKeyIsReleased
