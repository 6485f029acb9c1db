SPECIFICATION FairSpec
CONSTANTS
  s1 = s1
  ra = ra
  rb = rb
  x = x
  Clients = {1}
  Strokes = {s1}
  Rooms = {ra}
  Sessions = {x}
  Ops <- DrawErase
  Stuck = {}
  MaxStarts = 3
  MaxUpgrades = 2
INVARIANTS
  NothingDeleted
CHECK_DEADLOCK FALSE
