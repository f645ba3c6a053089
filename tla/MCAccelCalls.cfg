CONSTANTS
  PAGE = 2
  DPP = 2
  PPNLimit = 95
  MaxDescriptorLength = 8
  MaxGMRPages = 5
  Width = 3
  Height = 3
  FBPitch = 4
  BackingSize = 20
  Haves <- MCHaves
  Counts = {0, 1, 2}
  Descriptors <- MCDescriptors
  Helpers <- MCHelpers
  Regions <- MCRegions
  Scales <- MCScales
  CopyScales <- MCCopyScales
  SourceScales <- MCSourceScales
  Dests <- MCDests
  Requests <- MCRequests
  Surfaces = {7}
SPECIFICATION Spec
INVARIANTS
  CommandsArrive
  GMRDescribesMemory
  OutputShowsBacking
  CopiesArrive
