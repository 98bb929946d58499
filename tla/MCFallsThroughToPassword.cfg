SPECIFICATION Spec
CHECK_DEADLOCK FALSE
CONSTANTS
  c1 = c1
  c2 = c2
  Conns <- OneConn
  NumKeys = 2
  MaxChunks = 1
  Codes <- TwoCodes
INVARIANTS
  FallsThroughToPassword
