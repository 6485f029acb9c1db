SPECIFICATION Spec
CONSTANTS
  a = a
  b = b
  z = z
  Clients = {1, 2}
  Strokes = {a, b, z}
  me = 1
  None = None
  AuthorOf <- TwoOfMine
  MaxHistory = 2
  MaxClock = 5
  MaxRemote = 1
PROPERTIES ErasedIsRecorded
CHECK_DEADLOCK FALSE
