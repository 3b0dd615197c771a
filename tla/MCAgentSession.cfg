SPECIFICATION SessionSpec
CONSTANTS
  Session = {s1}
  MaxCalls = 3
INVARIANTS
  SessionConsistent
  CancelStopsCalls
  CompletedRanEveryCall
PROPERTIES
  SessionsEnd
CHECK_DEADLOCK FALSE
