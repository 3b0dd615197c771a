SPECIFICATION FairSpec
CONSTANTS
  Worker = {w1, w2}
  MaxTasks = 4
  Depth = 2
INVARIANTS
  PoolConsistent
  StuckNeedsManyRoots
PROPERTIES
  KeepsContract
  StopReturns
  PromisedTasksEnd
