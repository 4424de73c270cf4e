SPECIFICATION Spec
CONSTANTS
  F = F
  G = G
  H = H
  D = D
  Function <- Functions
  Data <- OneType
  Stages <- SmallStages
CHECK_DEADLOCK FALSE
INVARIANTS
  EachSystemOnce
  ConflictsSeparated
  ConstraintsHold
  RefusesCycles
  RegistrationOrder
