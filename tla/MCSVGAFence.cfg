\* A transfer buffer that one thread syncs while others submit DMA of it, and
\* presents throttled to one; fence numbers wrap around at 6.  Devices with
\* and without SVGA_FIFO_CAP_FENCE.
CONSTANTS
  b1 = b1
  t1 = t1
  Buffer <- MCBuffer
  Thread <- MCThread
  HalfModulus = 3
  Presents = 1
  QueueMax = 3
SPECIFICATION FairSpec
INVARIANT NoFenceNoDMA
INVARIANT PresentsBounded
PROPERTY SyncReturnsEventually
PROPERTY DoorbellHeard
