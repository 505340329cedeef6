CONSTANTS
  Producer = {p1, p2}
  Consumer = c
  Length = 3
  MaxPuts = 5
  Concurrent = FALSE
  None = None
SPECIFICATION Spec
INVARIANTS
  ReturnedStable
PROPERTIES
  ImplementsChannel
  PutReturns
