\* The owner and the 2D context call at the same time; all memory is VRAM.
CONSTANTS
  Blocks = {b1, b2}
  Buffers = {}
  Clients = {}
  GMRIDs = {}
  MaxSize = 1
  ScreenSize = 1
  MaxPending = 1
  NULL = NULL
  INVALID = INVALID
  VRAM = VRAM
SPECIFICATION Spec
INVARIANT BothTasksView
