SPECIFICATION Spec
CONSTANTS
  ClientOptions <- MCClientOptions
  OptionSets <- MCOptionSets
  SslCalls <- MCSslCalls
  CookieCalls <- MCCookieCalls
  Requests <- MCRequests
  Interim <- MCInterim
  Final <- MCFinal
  Rejected <- MCRejected
  OutsideBase <- MCOutsideBase
  RequestTime = 100
  Persistent = TRUE
  MaxCalls = 4
  MaxBlocks = 2
  MaxData = 1
CHECK_DEADLOCK FALSE
INVARIANTS PreparedAsFresh BodyRefsBalanced ResponsesAsReceived UploadFromStart
