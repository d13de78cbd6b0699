SPECIFICATION Spec
CONSTANTS
  a = a
  b = b
  HostSets <- SharedDirectory
  NotRunning = NotRunning
  MaxOrders = 4
  MaxFaults = 2
INVARIANTS
  TypeOK
  WritesNest
  PairOrError
  RenewalIsLoaded
CHECK_DEADLOCK FALSE
