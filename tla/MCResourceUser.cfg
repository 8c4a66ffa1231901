SPECIFICATION Spec
CONSTANTS
  Resource <- MCResource
  Kind <- MCKind
  ScopeLevel <- MCScopeLevel
  SizeMax = 2
  Dimension = 2
  child = child
  User = {parent, child, other}
  Scope <- RelationScope
  Accesses <- RelationAccesses
  MaxAccess = 2
  MaxEntries = 1
INVARIANTS
  UniqueResourcesCover
  SharedWritesSerial
PROPERTY
  DerivedGuardsCovered
SYMMETRY Symmetry
CHECK_DEADLOCK FALSE
