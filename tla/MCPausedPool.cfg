SPECIFICATION Spec
CONSTANTS
  MaxTask = 1
  Sched <- PauseSched
  Preds <- PausePreds
  Request = {1}
  Awaited = {}
  PoolWorker = {"w"}
  NumStreams = 1
INVARIANT
  ResumedOnce
