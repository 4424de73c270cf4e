SPECIFICATION Spec
CONSTANTS
  F = F
  G = G
  H = H
  D = D
  Function <- Functions
  Data <- OneType
  Stages <- CopiedStages
CHECK_DEADLOCK FALSE
INVARIANT CopiesOrdered
