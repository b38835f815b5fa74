SPECIFICATION FairFeedSpec
CONSTANTS
  Chunk <- MCChunk
  NULL = NULL
  MaxFed = 5
  Document <- MCDocument
  MCModes = {"parse", "stream", "race", "any"}
  CutAnywhere = FALSE
  Junk = {"NUL", "n", "LF"}
INVARIANTS
  CleanHeaders
  NoCarryOver
  RoundTrip
PROPERTIES
  CallsReturn
