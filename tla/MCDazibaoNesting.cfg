SPECIFICATION Spec
CONSTANTS
  MaxValue = 8
  Page = 8
  Inputs <- MCInputs
  RmParts = FALSE
  ShortRests = FALSE
  MaxLen = 28
  MaxOps = 4
PROPERTY CompactKeepsNesting
CHECK_DEADLOCK FALSE
