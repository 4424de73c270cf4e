SPECIFICATION LookupSpec
CONSTANTS
  A = A
  B = B
  v1 = v1
  v2 = v2
  MaxEntities = 3
  MaxGeneration = 1
  Component <- TwoTypes
  Value <- TwoValues
  Bundle <- Bundles
SYMMETRY Symmetry
CONSTRAINT Small
CHECK_DEADLOCK FALSE
INVARIANTS
  LookupsExact
  TailExact
  ZeroFlagSound
PROPERTY WritesReachTheirEntity
