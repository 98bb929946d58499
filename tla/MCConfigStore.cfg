SPECIFICATION Spec
CONSTANTS
  p1 = p1
  n1 = n1
  h1 = h1
  h2 = h2
  k1 = k1
  k2 = k2
  t1 = t1
  i1 = i1
  i2 = i2
  None = None
  Processes <- OneProcess
  Commands <- AllCommands
  Names <- OneName
  Hosts <- TwoHosts
  Keys <- TwoKeys
  Ids <- OneId
  Modes <- AnyMode
  Inodes <- Two
SYMMETRY SwapAll
INVARIANTS
  TypeOK
  TunnelOnRecord
PROPERTIES
  PinsKept
  PromiseSpec
  SavedWhenReported
