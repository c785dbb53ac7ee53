CONSTANTS
  Conn = {c1, c2}
  RouteId = {r1, r2}
  NoConn = NoConn
  NoId = NoId
SPECIFICATION SyncFairSpec
INVARIANT SyncTypeOK
PROPERTIES
  TablesCatchUp
  DeadSessionsGoAway
