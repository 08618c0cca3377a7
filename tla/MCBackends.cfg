SPECIFICATION Spec
CONSTRAINT UpToLoss
INVARIANTS
  GetsExact
  ReopenExact
  CountersExact
  ScansExact
  PagesAccounted
CHECK_DEADLOCK FALSE
