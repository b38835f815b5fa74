SPECIFICATION FairSpec
CONSTANTS
  ContentLength <- MCContentLength
  ContentRange <- MCContentRange
  Document <- MCDocument
  Base = 2
  ULONG_MAX = 3
INVARIANTS MessagesAsSent StreamGoesOn FailureKeepsData CutCoversChunks
PROPERTIES ParseReturns AllParsed
