SPECIFICATION NotifySpec
CONSTANTS
  A = A
  Z = Z
  S = S
  Unit = Unit
  MaxEntities = 1
  MaxGeneration = 1
  Component = {A}
  SparseComponent = {}
  ZeroSized = {}
  Value = {v1, Unit}
  Bundle = {}
CHECK_DEADLOCK FALSE
PROPERTY RemovalsTold
