\* A session of any length, from the menu or from `suns get-coffee`.
SPECIFICATION Spec
CONSTANTS
  MaxTicks = 3
  KillKey = TRUE
  TypeAhead = FALSE
INVARIANTS
  DrawnFromPoller
  DashboardTicks
  LeftMeansCancelled
PROPERTIES
  Gated
  BusyEnds
CHECK_DEADLOCK FALSE
