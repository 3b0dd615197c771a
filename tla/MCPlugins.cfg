\* The program outlives a broken pipe, as on Windows or in a host that ignores
\* the signal, so that calls to a plugin that has ended are seen.
SPECIFICATION MCSpec
CONSTANTS
  Workers = {"w1", "w2"}
  MaxRequests = 3
  Capacity = 1
  BrokenPipeKills = FALSE
  Plugins = {"waits", "gives", "late", "early"}
  Order <- MCOrder
  Core = {"waits", "gives"}
  Names = {"x", "y", "t"}
  Tools = {"t"}
  Provides <- MCProvides
  WaitsFor <- MCWaitsFor
  MaxOperations = 5
INVARIANTS HostConsistent ManagerConsistent NoneLeftBehind NewestToolStays
PROPERTY CallsReturn
\* The host is gone and the operations are used up at the end.
CHECK_DEADLOCK FALSE
