SPECIFICATION MCSpec
CONSTANTS
  Ids = {c1, c2}
  MaxSessions = 3
  MaxEdits = 2
  MaxChanges = 3
  MaxFailures = 2
  Configurations = {"one", "two", "other"}
  Providers = {"first", "second"}
  ProviderOf <- MCProviderOf
  RunSessions = 2
  RunEdits = 2
  RunChanges = 4
SYMMETRY Interchangeable
INVARIANTS ComponentsConsistent StateSurvives ConfigurationsConsistent
\* The last session ends.
CHECK_DEADLOCK FALSE
