CONSTANTS
  Slots = 3
  MaxOpen = 1
  MaxConnections = 1

SPECIFICATION Spec

INVARIANT EntryHasContext
