\* The surface pool: two words of two bits, then two unmanaged numbers.
CONSTANTS
  h1 = h1
  h2 = h2
  h3 = h3
  h4 = h4
  h5 = h5
  h6 = h6
  INVALID = INVALID
  Holder <- MCHolder
  Words = 2
  Bits = 2
  Limit = 4
  Hinted = TRUE
  Overflow = TRUE
  MaxUnmanaged = 2
SPECIFICATION Spec
PROPERTY PoolSpec
