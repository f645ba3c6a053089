\* The GMR pool: two words of two bits, the last identifier not supported,
\* more holders than identifiers.
CONSTANTS
  h1 = h1
  h2 = h2
  h3 = h3
  h4 = h4
  h5 = h5
  INVALID = INVALID
  Holder <- MCHolder
  Words = 2
  Bits = 2
  Masked <- MCMasked
  Hinted = TRUE
  Overflow = FALSE
  MaxUnmanaged = 0
SPECIFICATION Spec
INVARIANT TypeOK
INVARIANT UniqueIDs
INVARIANT NeverMasked
INVARIANT NoneForgotten
