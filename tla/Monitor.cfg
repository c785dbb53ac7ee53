CONSTANTS
  Tab = {t1, t2}
  TokenExpire = 2
  MaxTime = 4
  Request = {q1, q2}
  short = short
  long = long
  Password <- MCPassword
  Size <- MCSize
  Root = Root
  Fallback = Fallback
  Blank = Blank
  Torn = Torn
  Missing = Missing
  NoPassword = NoPassword
  MaxUpdates = 3
  MaxStops = 2
  Call = {c1, c2}
  Keep = 2
  NoCall = NoCall
SPECIFICATION Spec
SYMMETRY Symmetry
CONSTRAINT FewRequests
CHECK_DEADLOCK FALSE
INVARIANTS
  TypeOK
  
  PromiseIsKept
  AnswersAreKept
  AnswersAreDeleted
PROPERTIES
  OnlyPasswordSignsIn
