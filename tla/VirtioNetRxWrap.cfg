CONSTANTS
  Size = 8
  IdxMod = 16
  NoBuffer = NoBuffer
  Blank = Blank
  Threshold = 2
  Offers = {{"MAC", "VERSION_1"}, {"MAC", "MRG_RXBUF", "EVENT_IDX", "VERSION_1"}}
  Id = 1
  UsedEvent = 0
  Burst = 1
  MaxFrames = 20
SPECIFICATION Spec
CHECK_DEADLOCK FALSE
INVARIANT NoOverrun
