SPECIFICATION Spec
CONSTANTS
  f2 = f2
  c1 = c1
  c2 = c2
  c3 = c3
  Files = {f1}
  Clients = {c1}
  Slow = {}
  Main = Main
  Handler = Handler
  None = None
  ClientMax = 2
  Capacity = 1
  MaxVersion = 2
PROPERTY Exits
CHECK_DEADLOCK FALSE
