CONSTANTS
  RouterId = {a, b}
  NoId = NoId
  Requests = Requests
  Handler = {h1, h2}
  Window = 1
  Delay = 1
  MaxTime = 3
  MaxCalls = 2
SPECIFICATION Spec
SYMMETRY Symmetry
CHECK_DEADLOCK FALSE
INVARIANTS
  NothingRecentIsLost
  NothingOldIsCounted
PROPERTY RankingIsCurrent
