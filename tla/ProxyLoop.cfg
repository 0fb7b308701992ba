CONSTANTS
  Slots = 3
  MaxOpen = 2
  MaxConnections = 3

SPECIFICATION Spec

INVARIANT TypeOK
INVARIANT DescriptorsOwned
 
INVARIANT EventsReachTheirConnection
INVARIANT EveryConnectionPolled
INVARIANT ExitCause
