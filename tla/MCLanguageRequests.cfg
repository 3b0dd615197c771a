SPECIFICATION FairSpec
CONSTANTS
  Workers = {"worker"}
  NoThread = "nobody"
  MaxTexts = 2
  MaxOpens = 1
  MaxRequests = 2
  Numbers = {2}
  MaxNotices = 1
  MaxStarts = 2
INVARIANT LanguageConsistent
PROPERTY CallsReturn
\* The bounds are used up at the end.
CHECK_DEADLOCK FALSE
