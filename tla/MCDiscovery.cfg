SPECIFICATION FairSpec
CHECK_DEADLOCK FALSE
CONSTANTS
  printer = printer
  mac1 = mac1
  mac2 = mac2
  None = None
  Addresses = {1, 2}
  Names <- OneName
  Macs <- TwoMacs
  Tables <- SomeTables
  Events <- SomeEvents
  Registered <- SomeRegistered
  Subnets <- SomeSubnets
  Budgets <- SomeBudgets
  PingTimeout = 8
  Poll = 2
  Pause = 1
  Services = 2
  Setup = 1
  Lag = 1
  MaxEvents = 2
INVARIANTS
  TypeOK
  PingsReported
  MergeRight
  ScanInBudget
PROPERTIES
  ScanEnds
