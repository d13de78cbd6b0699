SPECIFICATION Spec
CONSTANTS
  ssh = ssh
  web = web
  Name = {ssh}
  NoService = NoService
  NoTraffic = NoTraffic
  NoRow = NoRow
  NoReport = NoReport
  NoUpgrade = NoUpgrade
  Synced = Synced
  SeedTime = {1}
  MaxClock = 2
  MaxBytes = 2
  MaxProcs = 2
  MaxFlights = 2
  MaxDisturbances = 1
INVARIANTS
  TypeOK
  NeverOvercounts
  EveryByteCounts
  PanelIsCurrent
CHECK_DEADLOCK FALSE
