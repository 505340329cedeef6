CONSTANTS
  Size = 4
  IdxMod = 8
  NoBuffer = NoBuffer
  Blank = Blank
  Eager = TRUE
  Lag = 4
  MaxFrames = 20
SPECIFICATION Spec
CHECK_DEADLOCK FALSE
INVARIANT SentAsQueued
