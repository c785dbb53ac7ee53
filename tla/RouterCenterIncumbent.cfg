CONSTANTS
  Conn = {c1, c2}
  RouteId = {r1}
  NoConn = NoConn
  NoId = NoId
SPECIFICATION FairSpec
PROPERTY IncumbentKept
