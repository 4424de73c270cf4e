SPECIFICATION QuerySpec
CONSTANTS
  A = A
  B = B
  MaxEntities = 4
  MaxGeneration = 1
  Component <- TwoTypes
  Value = {v1}
  Bundle <- NoBundle
  Queries <- AllQueries
  Planned <- AllPlanned
CONSTRAINT Small
CHECK_DEADLOCK FALSE
INVARIANTS
  QueriesExact
  PlansReachPlanned
  FreshPlansExact
  PassesWriteTheirQuery
