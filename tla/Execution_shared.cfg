\* Other programs also fill and empty the Trash, and two collision names
\* may be made in one millisecond.
SPECIFICATION Spec
CONSTANTS
  p1 = p1
  p2 = p2
  file = file
  dir = dir
  twin = twin
  other = other
  Nothing = Nothing
  N = 2
  Path = {p1, p2}
  Target <- MCTarget
  Object = {file, dir, twin}
  Folder = {dir, twin}
  Ident <- MCIdent
  Name = {"cache"}
  BaseName <- MCBaseName
  CrossVolume = {p2}
  SameTick = TRUE
  Foreign = TRUE
INVARIANTS
  TookWhatWasApproved
  SkippedLeavesTarget
  TakenIsRecorded
  ScheduledReportHonest
CHECK_DEADLOCK FALSE
