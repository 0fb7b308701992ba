CONSTANTS
  Producers = {p1, p2}
  Consumers = {c1, c2}
  Droppers = {d1}
  Capacity = 2
  Loops = 2
  MaxSpurious = 2
  NoThread = NoThread
  NoMessage = NoMessage

SPECIFICATION FairSpec

INVARIANT TypeOK
INVARIANT NoLostWakeup
PROPERTY RefinesFifo
PROPERTY AllFinish
