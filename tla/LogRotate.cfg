CONSTANTS
  MaxFiles = 4
  MaxBytes = 2
  Size = {1, 2, 3}
  MaxCall = 5
SPECIFICATION Spec
INVARIANTS
  InOrder
  NoHoles
  NewestIsKept
  SizeIsBounded
