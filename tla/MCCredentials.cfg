SPECIFICATION Spec
CONSTANTS
  c1 = c1
  c2 = c2
  s1 = s1
  s2 = s2
  root = root
  None = None
  Garbled = Garbled
  Callers <- TwoCallers
  Servers <- TwoServers
  Users <- OneUser
  NumPasswords = 1
SYMMETRY Swap
INVARIANTS
  TypeOK
  StoredAsReported
  OwnPassword
PROPERTIES
  NotIntoTheOpen
