SPECIFICATION Spec
CONSTANTS
  MaxExecutions = 1
  MaxWrites = 1
INVARIANT SuccessHasAllOutput
CHECK_DEADLOCK FALSE
