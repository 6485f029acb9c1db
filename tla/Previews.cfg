SPECIFICATION FairSpec
CONSTANTS
  ann = ann
  bob = bob
  a = a
  b = b
  z = z
  Authors = {ann}
  Strokes = {a, b}
  AuthorOf <- AnnAndBob
  Freehand = {a}
  MaxDeltas <- TwoOfA
  MaxConns <- AnnTwice
  MaxJoins = 1
  MaxSent = 1
  Capacity = 1
INVARIANTS
  TypeOK
  NeverTwice
  NoGhost
  FollowsTheDrawing
PROPERTIES
  PreviewsGo
CHECK_DEADLOCK FALSE
