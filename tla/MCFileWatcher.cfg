SPECIFICATION WatcherSpec
CONSTANTS
  MaxWrites = 5
  MaxStarts = 3
  Capacity = 2
INVARIANT WatcherConsistent
PROPERTY ChangesArrive
\* The bounds are used up at the end.
CHECK_DEADLOCK FALSE
