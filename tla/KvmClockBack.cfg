CONSTANTS
  Rates = {1}
  Modulus = 64
  Window = 2
  Period = 12
  Duration = 2
  MaxStep = 2
  MaxTsc = 12
  MaxUpdates = 2
SPECIFICATION Spec
CHECK_DEADLOCK FALSE
INVARIANT AssertionHolds
