SPECIFICATION FairSpec
CONSTANTS
  N = 2
  IdRange = 3
  MaxTask = 3
  Preds <- Chain
PROPERTY
  TasksExecuted
CHECK_DEADLOCK FALSE
