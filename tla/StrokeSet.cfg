SPECIFICATION Spec
CONSTANTS
  s1 = s1
  s2 = s2
  r1 = r1
  r2 = r2
  Clients = {1, 2}
  Strokes = {s1, s2}
  Replicas = {r1, r2}
  MaxCounter = 2
SYMMETRY Symmetry
INVARIANTS
  IndexAgrees
  OrderDoesNotMatter
  ChangesAreReported
  MergeIsJoin
  LoadFoldsDuplicates
CHECK_DEADLOCK FALSE
