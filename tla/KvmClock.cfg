CONSTANTS
  Rates = {1, 2}
  Modulus = 64
  Window = 2
  Period = 11
  Duration = 2
  MaxStep = 2
  MaxTsc = 11
  MaxUpdates = 2
SPECIFICATION FairSpec
CHECK_DEADLOCK FALSE
INVARIANTS
  NotTorn
  ReadingRight
  ClockInv
  TimerNotEarly
PROPERTIES
  
  CallReturns
