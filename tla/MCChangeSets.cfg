SPECIFICATION Spec
CONSTANTS
  f = f
  g = g
  a = a
  b = b
  EmptyText = empty
  Absent = Absent
  File = {f, g}
  Text = {a, b, empty}
  Edited <- MCEdited
  Edits <- MCEdits
  MaxChangeSets = 1
  MaxVersion = 2
CHECK_DEADLOCK FALSE
INVARIANT UndoRestores
PROPERTY PreflightPredictsApply
