CONSTANTS
  MaxDial = 2
  Sending = TRUE
SPECIFICATION Spec
CHECK_DEADLOCK FALSE
INVARIANT NoCrash
