SPECIFICATION Spec
SYMMETRY SwapServices
VIEW WithoutOutcome
CONSTANTS
  c1 = c1
  c2 = c2
  hbbs = hbbs
  hbbr = hbbr
  d1 = d1
  d2 = d2
  d3 = d3
  None = None
  Empty = Empty
  Torn = Torn
  Clients <- OneClient
  Services <- TwoServices
  Tags <- TwoTags
  Templates <- TwoTags
  Digests <- Images
  Bad <- Broken
  Releases <- Upgrades
  Retention = 0
  MinRetained = 1
  MaxPolls = 1
  MaxClock = 0
INVARIANTS
  TypeOK
  Provenance
  RollbackRestores
  UpdateDeploys
