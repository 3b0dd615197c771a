CONSTANTS
  MaxJobs = 2
  Callers = {c1}
  Waiters = {}
  TimedWaiters = {}
SPECIFICATION Spec
INVARIANTS
  JobsConsistent
  DependenciesSucceeded
  
PROPERTY OutcomesAreFinal
\* Jobs run out at MaxJobs and every thread may then have nothing to do.
CHECK_DEADLOCK FALSE
