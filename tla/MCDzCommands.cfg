\* The commands on a small dazibao; what they make is kept short of nothing by MaxLen.
SPECIFICATION CommandsSpec
CONSTANTS
  MaxValue = 20
  Page = 8
  Inputs = {}
  RmParts = FALSE
  ShortRests = TRUE
  MaxLen = 1000
  MaxOps = 3
  AddCalls <- MCAddCalls
  AltCalls <- MCAltCalls
  Stdin <- MCStdin
  Other <- MCOther
  Now = 9
  Given <- MCGiven
INVARIANTS GuessedText RoomIsEnough ChainWholeUnlessWrapped ExtractGivesBack ListedAreThere
PROPERTIES MadeReadsBack
\* A command may wait for its own lock for ever.
CHECK_DEADLOCK FALSE
