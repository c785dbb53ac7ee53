CONSTANTS
  MaxDial = 2
  Sending = TRUE
SPECIFICATION FairSpec
ACTION_CONSTRAINT SendsLate
CHECK_DEADLOCK FALSE
INVARIANTS
  NoLeakedSocket
  OpenIsWatched
  OneReconnecter
PROPERTIES
  DeadIsNoticed
  ShutdownStopsHeartbeats
