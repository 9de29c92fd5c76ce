\* Two terminals, an hour in range and one that is clamped.
SPECIFICATION Spec
CONSTANTS
  Terminal = {left, right}
  Hour = {3, 25}
  None = none
  Torn = torn
  MaxCommands = 3
  MaxTrouble = 2
INVARIANTS
  SaidIsSo
CHECK_DEADLOCK FALSE
