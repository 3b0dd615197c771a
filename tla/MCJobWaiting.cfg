CONSTANTS
  MaxJobs = 1
  Callers = {c1}
  Waiters = {w1, w2}
  TimedWaiters = {w2}
SPECIFICATION FairSpec
INVARIANT NoLostWakeup
PROPERTY WaitersReturn
\* Jobs run out at MaxJobs and every thread may then have nothing to do.
CHECK_DEADLOCK FALSE
