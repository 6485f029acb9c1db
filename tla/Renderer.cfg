SPECIFICATION Spec
CONSTANTS
  p = p
  q = q
  r = r
  t = t
  near = near
  far = far
  Strokes = {p, q, r, t}
  Texts = {t}
  Scales = {near, far}
  ChunkSize = 2
  MaxChanges = 5
  MaxFailures = 2
INVARIANTS
  ShowsTheDocument
PROPERTIES
  TessellatesOnce
CHECK_DEADLOCK FALSE
