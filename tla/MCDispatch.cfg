SPECIFICATION Spec
CONSTANTS
  MaxTask = 6
  Sched <- MixedSched
  Preds <- MixedPreds
  Request = {4, 5}
  Awaited = {5}
  PoolWorker = {"w"}
  NumStreams = 2
INVARIANTS
  OperationsOrdered
  FinishedMeansDone
  StatusIsOwn
  NothingForgotten
  
