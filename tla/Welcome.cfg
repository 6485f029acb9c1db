SPECIFICATION Spec
CONSTANTS
  ann = ann
  bob = bob
  Clients = {ann, bob}
  MaxConns <- AnnTwice
  MaxMoves = 0
  MaxPeers = 2
  Capacity = 1
INVARIANTS
  WelcomeListsEveryone
CHECK_DEADLOCK FALSE
