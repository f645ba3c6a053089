CONSTANTS
  desk = desk
  s1 = s1
  s2 = s2
  small = small
  large = large
  b1 = b1
  b2 = b2
  NONE = NONE
  Surfaces <- MCSurfaces
  Desk = desk
  Modes <- MCModes
  Streams <- MCStreams
  Blits <- MCBlits
SPECIFICATION Spec
SYMMETRY Symmetric
INVARIANT NoStrayCommand
INVARIANT MasterAccounted
INVARIANT OverlayOwned
INVARIANT DestinationAgreed
