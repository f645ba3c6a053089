\* Blocks of 1, 2 and 4 pages.
CONSTANTS
  numSizes = 3
  PoolSizes <- MCPoolSizes
  bytes_reserve = 4
  OURNULL = OURNULL
  Junk = Junk
SPECIFICATION Spec
INVARIANT TypeOK
INVARIANT NoCallFails
INVARIANT CheckSucceeds
PROPERTY BuddyPoolSpec
