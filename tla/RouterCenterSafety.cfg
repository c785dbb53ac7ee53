CONSTANTS
  Conn = {c1, c2, c3}
  RouteId = {r1, r2}
  NoConn = NoConn
  NoId = NoId
SPECIFICATION Spec
SYMMETRY Symmetry
CONSTRAINT Bounds
INVARIANTS
  TypeOK
  NoOrphanSession
  AckedIsReachable
  NoMisdelivery
  HandlersInStep
PROPERTIES
  NoTakeover
  ImplementsRegistry
