SPECIFICATION Spec
CONSTANTS
  Request = {r1, r2, r3}
  Handler = {h1, h2, h3}
  Closure = {c1}
  NoRequest = NoRequest
  NoHandler = NoHandler
  NoClosure = NoClosure
  MaxCalls = 4
  MaxDepth = 2
  CallbackOps = {"enqueue", "requeue", "dequeue", "once", "getResponse"}
  XferOps = {"dequeue", "once", "getResponse"}
  AddMayFail = FALSE
SYMMETRY ClientSymmetry
INVARIANTS
  UniqueRequests
  FrameHandlersLive
  UnfinishedCoversRunning
  ErrorsFit
  RefsBalanced
