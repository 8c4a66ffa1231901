SPECIFICATION Spec
CONSTANTS
  w1 = w1
  w2 = w2
  Worker = {w1, w2}
  Resource = {"a"}
  Kind <- MCKind
  ScopeLevel <- MCScopeLevel
  SizeMax = 1
  Dimension = 1
  MaxTask = 3
  AccessSeq <- TwiceSeqs
  KeepsFutures = FALSE
SYMMETRY Symmetry
CONSTRAINT TwiceIsShort
INVARIANTS
  PreEventCountsEdges
  PostEventCountsEdges
  ExecutedOnce
  NoUseAfterFree
  RemovedWhenDone
  NothingStranded
  MainGoesOn
PROPERTY
  ImplementsTaskOrder
CHECK_DEADLOCK FALSE
