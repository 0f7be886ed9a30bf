CONSTANTS
  Lines <- MCLines
  MaxInodes = 3
  MaxLines = 2
SPECIFICATION Spec
INVARIANTS
  InOrder
  ReplayExplained
  NothingMissed
PROPERTY CatchesUp
CHECK_DEADLOCK FALSE
