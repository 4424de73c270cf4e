SPECIFICATION SnapshotSpec
CONSTANTS
  A = A
  Z = Z
  S = S
  v1 = v1
  v2 = v2
  MaxEntities = 2
  MaxGeneration = 1
  Component = {A, Z}
  SparseComponent = {S}
  ZeroSized = {Z}
  Value = {v1, v2}
  Bundle <- OneBundle
  Programs <- SomePrograms
CHECK_DEADLOCK FALSE
INVARIANTS
  StorageSound
  SparseSetsAgree
  DisabledHaveComponent
  ToggledExact
PROPERTIES
  ColumnsStayAligned
  SparseOwnersStayLive
  LoadRestoresSaved
