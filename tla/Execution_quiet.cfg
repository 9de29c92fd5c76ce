\* The Trash belongs to this process and the clock moves between two
\* collision names; other programs change the targets at will.
SPECIFICATION Spec
CONSTANTS
  p1 = p1
  p2 = p2
  file = file
  dir = dir
  twin = twin
  other = other
  Nothing = Nothing
  N = 2
  Path = {p1, p2}
  Target <- MCTarget
  Object = {file, dir, twin, other}
  Folder = {dir, twin}
  Ident <- MCIdent
  Name = {"cache"}
  BaseName <- MCBaseName
  CrossVolume = {p2}
  SameTick = FALSE
  Foreign = FALSE
INVARIANTS
  DestroysOnlyRacedCopies
  RecordedTrashIsThere
  ReversibleMeansIntact
PROPERTIES
  KeepsPromise
  ApprovedBatchEnds
CHECK_DEADLOCK FALSE
