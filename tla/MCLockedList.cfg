SPECIFICATION Spec
CONSTANTS
  MaxLines = 3
  Lines <- SomeLines
INVARIANT KeepsLines
CHECK_DEADLOCK FALSE
