SPECIFICATION Spec
CONSTANTS
  ann = ann
  bob = bob
  Clients = {ann, bob}
  MaxConns <- Once
  MaxMoves = 1
  MaxPeers = 2
  Capacity = 1
SYMMETRY Symmetry
INVARIANTS
  TypeOK
  SeesTheRoom
CHECK_DEADLOCK FALSE
