CONSTANTS
  Producers = {p1, p2}
  Consumers = {c1}
  Droppers = {d1}
  Capacity = 1
  Loops = 1
  MaxSpurious = 0
  NoThread = NoThread
  NoMessage = NoMessage

SPECIFICATION Spec

PROPERTY DroppedQueueRefuses

CHECK_DEADLOCK FALSE
