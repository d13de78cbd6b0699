SPECIFICATION FairSpec
CONSTANTS
  web = web
  none = none
  Config = {web, none}
  NoServices = {none}
  Unreadable = {}
  Unbuildable = {}
  Request = {1, 2}
  Conn = {1, 2}
  NoInst = NoInst
  NoConn = NoConn
  NoConfig = NoConfig
  Nothing = Nothing
  Exited = Exited
  MaxRequests = 2
  MaxFaults = 1
PROPERTIES Converges
CHECK_DEADLOCK FALSE
