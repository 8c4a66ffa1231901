SPECIFICATION FairSpec
CONSTANTS
  N = 2
  IdRange = 3
  MaxTask = 3
  Preds <- Chain
INVARIANTS
  OnePlace
  NewTaskNoticed
  SleeperAvailable
PROPERTIES
  NewTasksInitialised
  StopReturns
CHECK_DEADLOCK FALSE
