SPECIFICATION FairSpec
CONSTANTS
  Transfer = {t1, t2}
  Kinds <- MCKinds
  MaxRounds = 1
  MaxDue = 2
  MaxCalls = 3
INVARIANTS SleeperWakes
PROPERTIES CallsReturn
