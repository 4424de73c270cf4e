SPECIFICATION NotifySpec
CONSTANTS
  A = A
  Z = Z
  S = S
  Unit = Unit
  MaxEntities = 2
  MaxGeneration = 1
  Component = {A, Z}
  SparseComponent = {S}
  ZeroSized = {Z}
  Value = {v1, v2, Unit}
  Bundle <- OneBundle
SYMMETRY ValueSymmetry
VIEW StorageView
CONSTRAINT FewBeside
CHECK_DEADLOCK FALSE
INVARIANTS
  TypeOK
  LocationsMatchRows
  ColumnsAligned
  FreeIndicesExact
  ShortcutsResolve
PROPERTIES
  ImplementsEntityComponents
  EventsExact
