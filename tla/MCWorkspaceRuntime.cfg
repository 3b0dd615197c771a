SPECIFICATION Spec
CONSTANTS
  BuiltIn = {search}
  Providers = {search, plugin}
  Workers = 2
  MaxChanges = 2
  MaxReloads = 1
INVARIANT RuntimeConsistent
PROPERTY ChangesReachTheIndex
\* The runtime is destroyed in the end.
CHECK_DEADLOCK FALSE
