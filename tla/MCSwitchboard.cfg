SPECIFICATION FairSpec
CONSTANTS
  x1 = x1
  x2 = x2
  x3 = x3
  x4 = x4
  x5 = x5
  y1 = y1
  Stop = Stop
  Objects = {x1, x2, x3, x4, x5, y1}
  Direction <- Sides
  Capacity = 2
CHECK_DEADLOCK FALSE
INVARIANTS SwitchboardKeeps
PROPERTIES EventuallyReceived CloseReturns
