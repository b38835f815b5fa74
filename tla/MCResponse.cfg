SPECIFICATION Spec
CONSTANTS
  DefaultSize = 4
  SizeMod = 64
  Junk <- JunkByte
  Nul <- NulByte
  Requests <- MCSome
  Settings <- MCSettings
  FirstBody = 4
  SendBuf = 3
  ReadSize = 2
  PtrSize = 1
  MaxCalls = 3
CHECK_DEADLOCK FALSE
INVARIANTS BodyAsAnnounced HeadFramesBody
