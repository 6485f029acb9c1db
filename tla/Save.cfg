SPECIFICATION FairSpec
CONSTANTS
  s1 = s1
  ra = ra
  rb = rb
  x = x
  Clients = {1}
  Strokes = {s1}
  Rooms = {ra, rb}
  Sessions = {x}
  Ops <- DrawErase
  Stuck = {rb}
  MaxStarts = 2
  MaxUpgrades = 1
INVARIANTS
  CleanIsSaved
  NeverTorn
PROPERTIES
  FileGrows
  SnapshotsSurvive
  EventuallySaved
CHECK_DEADLOCK FALSE
