SPECIFICATION FairTransferSpec
CONSTANTS
  Input <- MCInput
  Base = 2
  ULONG_MAX = 3
  MaxFed = 5
  Bucket <- MCBucket
  Following <- MCFollowing
  CutAnywhere = FALSE
  MaxSent = 5
INVARIANTS
  HexlenCovers
  DecodedIsSent
  FollowingKept
PROPERTIES
  UpdateReturns
