SPECIFICATION FairSpec
CONSTANTS
  Request = {r1, r2}
  Handler = {h1, h2}
  Closure = {c1}
  NoRequest = NoRequest
  NoHandler = NoHandler
  NoClosure = NoClosure
  MaxCalls = 3
  MaxDepth = 2
  CallbackOps = {"enqueue", "requeue", "dequeue"}
  XferOps = {"enqueue", "requeue", "dequeue"}
  AddMayFail = TRUE
PROPERTIES
  SendReturns
