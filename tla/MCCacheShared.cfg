SPECIFICATION Spec
CONSTANTS
  p1 = p1
  p2 = p2
  digest = digest
  a = a
  b = b
  i1 = i1
  i2 = i2
  i3 = i3
  None = None
  Processes <- TwoProcesses
  Keys <- OneKey
  Answers <- Both
  Inodes <- Three
  TTL = 2
  MaxClock = 3
SYMMETRY SwapAll
INVARIANTS
  FreshAnswers
  TypeOK
PROPERTIES
  RateLimited
