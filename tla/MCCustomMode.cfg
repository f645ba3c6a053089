\* Two clients that ask whenever they like, on older systems, where
\* RestoreAllModes runs, and on newer ones.
CONSTANTS
  c1 = c1
  c2 = c2
  small = small
  large = large
  Client <- MCClient
  Size <- MCSize
  DefaultSize = small
  Mode <- MCMode
  SizeOf <- MCSizeOf
  CUSTOM_MODE_ID = 1
SPECIFICATION FairSpec
INVARIANT ModesKept
INVARIANT HardwareMatchesMode
PROPERTY EveryCallReturns
PROPERTY AllModesAgain
