CONSTANTS
  Producers = {p1, p2}
  Consumers = {c1, c2}
  Droppers = {}
  Capacity = 2
  Loops = 2
  MaxSpurious = 1
  NoThread = NoThread
  NoMessage = NoMessage
  NoExit = NoExit

SPECIFICATION PCSpec

INVARIANT NoErrorExit

CHECK_DEADLOCK FALSE
