SPECIFICATION MCSpec
CONSTANTS
  MaxExecutions = 2
  MaxWrites = 1
  Callers = {"c1", "c2"}
  MaxCalls = 2
INVARIANTS ExecutionConsistent BuildConsistent SucceededRanEveryStep
PROPERTIES
  CancelledNeverSucceeds
  CancelledEnds
  KeepsContract
  CancelEndsBuild
  BuildWaitReturns
\* Everything may have ended.
CHECK_DEADLOCK FALSE
