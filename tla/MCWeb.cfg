SPECIFICATION Spec
CONSTANTS
  Buff = 6
  MaxShort = 1
  MaxValue = 3
  PublicFiles <- MCPublic
  Initial <- MCInitial
  Calls <- MCCalls
  Others <- MCOthers
  PageSlots = 2
  MaxCalls = 3
  MaxChanges = 1
  MaxEnds = 1
  MaxLeaves = 1
INVARIANTS TypeOK ParsedAsSent
PROPERTIES ServedAsAsked DeletesWhatIsShown  NewsOnly Answers
CHECK_DEADLOCK FALSE
ACTION_CONSTRAINTS Quiet Few
