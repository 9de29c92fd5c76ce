\* Either source, its subprocess and its reader, until the dashboard is left.
SPECIFICATION Spec
CONSTANTS
  NetBuffer = 2
  Leftover = 2
INVARIANTS
  OneChild
PROPERTIES
  DeadTurnsStale
  CancelEnds
  NetReadersEnd
  Recovers
CHECK_DEADLOCK FALSE
