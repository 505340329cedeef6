CONSTANTS
  Size = 4
  IdxMod = 8
  NoBuffer = NoBuffer
  Blank = Blank
  Eager = FALSE
  Lag = 4
  MaxFrames = 20
SPECIFICATION FairSpec
CHECK_DEADLOCK FALSE
INVARIANTS
  TxInv
PROPERTIES
  ImplementsChannel
  AllSent
