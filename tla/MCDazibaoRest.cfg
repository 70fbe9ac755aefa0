SPECIFICATION Spec
CONSTANTS
  MaxValue = 8
  Page = 8
  Inputs <- MCInputs
  RmParts = FALSE
  ShortRests = TRUE
  MaxLen = 28
  MaxOps = 4
PROPERTY EmptiedIsPads
CHECK_DEADLOCK FALSE
