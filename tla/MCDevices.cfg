SPECIFICATION MCSpec
CONSTANTS
  MaxSequence = 5
  Peers = {1, 2}
  Owners = {1, 2}
  Threads = {"t1", "t2"}
  Roles = {0, 1, 3}
  RemoteEvents <- MCEvents
  MaxMs = 1
  MaxLogical = 2
  MaxCrashes = 1
INVARIANTS
  UniqueIds
  ClockCovers
  ListenersFollow
PROPERTY ImplementsSeenSet
