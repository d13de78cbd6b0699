SPECIFICATION Spec
CONSTANTS
  web = web
  odd = odd
  old = old
  none = none
  r1 = r1
  r2 = r2
  c1 = c1
  c2 = c2
  Config = {web, none, odd, old}
  NoServices = {none}
  Unreadable = {odd}
  Unbuildable = {old}
  Request = {r1, r2}
  Conn = {c1, c2}
  NoInst = NoInst
  NoConn = NoConn
  NoConfig = NoConfig
  Nothing = Nothing
  Exited = Exited
  MaxRequests = 2
  MaxFaults = 2
INVARIANTS
  TypeOK
  Agreement
  ChannelCarriesRecord
  RunsHeldConfig
  PanelHearsBack
PROPERTIES
  FollowsRecord
SYMMETRY RequestsAndConnections
CHECK_DEADLOCK FALSE
