SPECIFICATION Spec
INVARIANTS
  MapFollowsCatalog
  BusyProtects
  CleanRecreate
  Reopens
  OneWorkspace
PROPERTY DeclaredOpens
CHECK_DEADLOCK FALSE
