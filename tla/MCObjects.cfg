SPECIFICATION Spec
CONSTANTS
  Slots = {1, 2}
  Texts <- MCTexts
  Parts = {"x"}
  MaxObjects = 6
  MaxCalls = 4
INVARIANTS NothingFreedIsUsed ChainsAgree CountsExact SharedOnlyByKin HistoryAsRecorded ReadBackAsWritten
CHECK_DEADLOCK FALSE
