\* The date of a dated TLV that add makes.
SPECIFICATION CommandsSpec
CONSTANTS
  MaxValue = 20
  Page = 8
  Inputs = {}
  RmParts = FALSE
  ShortRests = TRUE
  MaxLen = 1000
  MaxOps = 3
  AddCalls <- MCAddCalls
  AltCalls <- MCAltCalls
  Stdin <- MCStdin
  Other <- MCOther
  Now = 9
  Given = {}
PROPERTY DatedNow
CHECK_DEADLOCK FALSE
