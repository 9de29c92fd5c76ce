SPECIFICATION Spec
CONSTANTS
  document = document
  download = download
  cached = cached
  note = note
  trailer = trailer
  movie = movie
  film = film
  Gone = Gone
  Path = {document, download, cached}
  Walk <- MCWalk
  PassedOver = {}
  Segments <- MCSegments
  Depth <- MCDepth
  Rank <- MCRank
  Inode = {1, 2, 3, 4, 5}
  Start <- MCStart
  Content = {note, movie, film, trailer}
  Size <- MCSize
  First4K <- MCHead
  MinSize = 1
  Threshold = 2
  MaxTrouble = 2
INVARIANTS
  ACopyStays
  OnlyDuplicates
CHECK_DEADLOCK FALSE
