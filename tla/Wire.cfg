CONSTANTS
  Base = 6
  Width = 2
  MaxFrameSize = 12
  MaxRpcFrame = 8
  Messages <- MCMessages
  RpcPayload <- MCRpcPayload
  MaxSent = 2
SPECIFICATION Spec
CHECK_DEADLOCK FALSE
INVARIANTS
  TypeOK
  FramesArriveWhole
  OnlyLongFramesAreMisread
  MessagesAreUnderstood
PROPERTY EverythingIsRead
