\* Two paths, one across volumes; equal contents; interference everywhere; a
\* restore may be through with both records within one second.
SPECIFICATION Spec
CONSTANTS
  a = a
  b = b
  big = big
  here = here
  there = there
  t1 = t1
  t2 = t2
  Nothing = Nothing
  Malformed = Malformed
  Hashed = {a, b}
  Content <- MCContent
  Object = {a, b, big}
  Path = {here, there}
  Slot = {t1, t2}
  CrossVolume = {there}
  MaxRecords = 2
  MaxCopies = 1
  MaxOthers = 2
  SameSecond = TRUE
INVARIANTS
  DestroysOnlyExpendable
  RestoredIsVerified
  UndoBringsBack
  NewestGetsItsName
SYMMETRY Symmetry
CHECK_DEADLOCK FALSE
