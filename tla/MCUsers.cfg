SPECIFICATION Spec
CONSTANTS
  ana = ana
  ANA = ANA
  bob = bob
  Name = {ana, ANA, bob}
  Lower <- LowerCase
  u1 = u1
  u2 = u2
  u3 = u3
  UserId = {u1, u2, u3}
  r1 = r1
  r2 = r2
  Request = {r1, r2}
  NoUser = NoUser
  NoId = NoId
  NoName = NoName
INVARIANTS
  TypeOK
  AdminExists
  UniqueNames
PROPERTIES
  BootstrapIsOver
CHECK_DEADLOCK FALSE
