CONSTANTS
  Addr = {a1, a2}
  NoAddr = NoAddr
  Call = {c1, c2}
  Untimed = {c2}
  MaxClient = 2
  MaxChange = 3
SPECIFICATION FairSpec
CHECK_DEADLOCK FALSE
INVARIANTS ClientIsForNode
PROPERTY EveryCallReturns
