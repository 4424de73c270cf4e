SPECIFICATION Spec
CONSTANTS
  i1 = i1
  i2 = i2
  i3 = i3
  Index = {i1, i2, i3}
  MaxGeneration <- OneReused
  MaxEdges = 3
  Relation = {ChildOf, Likes}
CHECK_DEADLOCK FALSE
INVARIANTS
  IndicesAgree
  EdgesLive
  SubtreeCollected
  DespawnsAll
  AncestorsExact
PROPERTY WalkTerminates
