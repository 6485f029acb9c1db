SPECIFICATION Spec
CONSTANTS
  ann = ann
  bob = bob
  Clients = {ann, bob}
  MaxConns <- AnnTwice
  MaxMoves = 0
  MaxPeers = 1
  Capacity = 1
INVARIANTS
  FullInTime
CHECK_DEADLOCK FALSE
