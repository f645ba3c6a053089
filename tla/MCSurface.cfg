\* Both tasks call at any time, until two calls get in each other's way.
CONSTANTS
  Blocks = {b1, b2}
  Buffers = {m1, m2}
  Clients = {a1}
  GMRIDs = {g1, g2}
  MaxSize = 2
  ScreenSize = 1
  MaxPending = 2
  NULL = NULL
  INVALID = INVALID
  VRAM = VRAM
SPECIFICATION Spec
SYMMETRY Symmetry
INVARIANT DMAHitsItsMemory
INVARIANT NothingElseLost
INVARIANT MapsShowBacking
PROPERTY QuietOnReturn
PROPERTY FlushShowsDrawn
CONSTRAINT NotOverlapped
