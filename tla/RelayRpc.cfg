CONSTANTS
  a = a
  b = b
  c1 = c1
  c2 = c2
  c3 = c3
  Client = {a, b}
  Call = {c1, c2, c3}
  From <- MCFrom
  To <- MCTo
  Parent <- MCParent
  NoCall = NoCall
  MaxDrop = 3
SPECIFICATION FairSpec
CHECK_DEADLOCK FALSE
INVARIANTS
  AtMostOnce
  ResultIsReal
PROPERTIES
  ImplementsRpc
  EveryCallReturns
