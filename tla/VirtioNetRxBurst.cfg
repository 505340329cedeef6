CONSTANTS
  Size = 8
  IdxMod = 32
  NoBuffer = NoBuffer
  Blank = Blank
  Threshold = 2
  Offers = {{"MAC", "VERSION_1"}, {"MAC", "MRG_RXBUF", "EVENT_IDX", "VERSION_1"}}
  Id = 1
  UsedEvent = 0
  Burst = 2
  MaxFrames = 12
SPECIFICATION Spec
CHECK_DEADLOCK FALSE
INVARIANT FrameKept
