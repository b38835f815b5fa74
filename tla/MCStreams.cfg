SPECIFICATION Spec
CONSTANTS
  DefaultSize = 4
  SizeMod = 64
  Junk = "?"
  Nul = "0"
  Byte = {"a", "b"}
  MaxRun = 3
  ZWindow = 4
  DeflateBuffer = 7
  GuessSlack = 3
  InflateRounds = 2
  EnbrotliRounds = 4
  Ring = 4
  Senders <- MCSenders
  MaxBuckets = 2
CHECK_DEADLOCK FALSE
INVARIANTS DecodedIsPrefix FinishedIsComplete FlushDelivers
