SPECIFICATION FullSpec
CONSTANTS
  f2 = f2
  c1 = c1
  c2 = c2
  c3 = c3
  Files = {f1, f2}
  Clients = {c1, c2, c3}
  Slow = {c2}
  Main = Main
  Handler = Handler
  None = None
  ClientMax = 2
  Capacity = 1
  MaxVersion = 2
INVARIANTS TypeOK OneWriter NoneForgotten WritesToClient SlotKept
PROPERTIES NoFalseAlarm Answered Announced ExitsOrWaits
CHECK_DEADLOCK FALSE
