SPECIFICATION Spec
CONSTANTS
  Entity = {e1, e2, e3}
  Value = {v1, v2}
  Unit = Unit
  Archetypes = 3
SYMMETRY Symmetry
INVARIANTS
  ChangedAgree
  UnmovedExact
  GrowthReported
