SPECIFICATION FairSpec
CONSTANTS
  s1 = s1
  Clients = {1, 2}
  Strokes = {s1}
  Author <- OneAuthor
  MaxClock = 2
  MaxConns <- Reconnecting
  Capacity = 1
INVARIANTS
  TypeOK
  ClockCovers
  StampsUnique
  NothingMadeUp
  NothingSlips
  AuthorKnows
  NothingLost
  DrainedKnowsRoom
PROPERTIES
  LocalEditShows
  NeverForgets
  Refines
  EventuallyCaughtUp
  EventuallyDelivered
  Converges
CHECK_DEADLOCK FALSE
