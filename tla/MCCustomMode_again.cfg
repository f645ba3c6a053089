\* A client that asks again at once.
CONSTANTS
  c1 = c1
  c2 = c1
  small = small
  large = large
  Client <- MCClient
  Size <- MCSize
  DefaultSize = small
  Mode <- MCMode
  SizeOf <- MCSizeOf
  CUSTOM_MODE_ID = 1
SPECIFICATION FairSpec
PROPERTY RestoreYields
