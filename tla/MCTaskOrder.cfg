SPECIFICATION Spec
CONSTANTS
  Task = {1, 2, 3, 4}
  Resource = {"a", "b"}
  Kind <- MCKind
  ScopeLevel <- MCScopeLevel
  SizeMax = 1
  Dimension = 1
  AccessList <- MCAccessList
  IsSerial <- ListSerial
  IsSupersetOf <- MCSuperset
INVARIANTS
  Exclusion
CHECK_DEADLOCK FALSE
