SPECIFICATION Spec
CONSTANTS
  web = web
  odd = odd
  Config = {web, odd}
  NoServices = {}
  Unreadable = {odd}
  Unbuildable = {}
  Request = {1, 2}
  Conn = {1, 2}
  NoInst = NoInst
  NoConn = NoConn
  NoConfig = NoConfig
  Nothing = Nothing
  Exited = Exited
  MaxRequests = 1
  MaxFaults = 0
INVARIANTS InSyncIsTrue
CHECK_DEADLOCK FALSE
