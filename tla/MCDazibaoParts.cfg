SPECIFICATION Spec
CONSTANTS
  MaxValue = 8
  Page = 8
  Inputs <- MCInputs
  RmParts = TRUE
  ShortRests = FALSE
  MaxLen = 28
  MaxOps = 4
INVARIANT LongTlvsWhole
CHECK_DEADLOCK FALSE
