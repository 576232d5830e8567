CONSTANTS
  CHUNKSIZE = 20
  MAX_HEAP = 76
  Ids = {i1, i2, i3, i4}
  Junk = Junk
  Sizes <- MCSizes
SPECIFICATION Spec
SYMMETRY IdSymmetry
INVARIANTS
  HeapIntact
  TreeIntact
PROPERTIES
  FailureChangesNothing
  OnlyReallocFragments
  AllocatorSpec
