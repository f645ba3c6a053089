\* A ring and a bounce buffer of 4 words: commands go in place, through the
\* bounce buffer, wait for room (the one of 4 words for ever), or (5 words)
\* are refused.
CONSTANTS
  w1 = w1
  w2 = w2
  Word <- MCWord
  MIN = 2
  MAX = 6
  BOUNCE_BUFFER_SIZE = 4
  ReserveSizes = {1, 2, 3, 4, 5}
SPECIFICATION FairSpec
INVARIANT TypeOK
INVARIANT ReservedCoversUnpublished
PROPERTY UnreadIntact
PROPERTY SyncDrains
PROPERTY QueueSpec
PROPERTY EveryCommandEnds
