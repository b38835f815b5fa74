SPECIFICATION Spec
CONSTANTS
  Request = {r1, r2}
  Handler = {h1, h2}
  Closure = {c1, c2}
  NoRequest = NoRequest
  NoHandler = NoHandler
  NoClosure = NoClosure
  MaxCalls = 4
  MaxDepth = 2
  CallbackOps = {}
  XferOps = {}
  AddMayFail = FALSE
PROPERTIES
  LatestCallbackCalled
