SPECIFICATION Spec
VIEW FilesOnly
CONSTANTS
  c1 = c1
  c2 = c2
  hbbs = hbbs
  hbbr = hbbr
  d1 = d1
  d2 = d2
  d3 = d3
  None = None
  Empty = Empty
  Torn = Torn
  Clients <- TwoClients
  Services <- OneService
  Tags <- OneTag
  Templates <- OneTag
  Digests <- Sound
  Bad <- Nothing
  Releases <- Moves
  Retention = 0
  MinRetained = 1
  MaxPolls = 1
  MaxClock = 0
SYMMETRY SwapBoth
INVARIANTS
  MarkerLast
PROPERTIES
  RecordSpec
