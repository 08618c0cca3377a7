SPECIFICATION MCSpec
CONSTANTS
  Key = {1, 2, 3}
  Op = {0, 1}
  Cell = {1, 2, 3, 4}
  Absent = Absent
  Apply <- Count
  Changes <- Increments
  MaxBuffered = 2
  InMemory = FALSE
  PutFails = FALSE
  MaxLog = 4
INVARIANTS
  ViewIsRecoverable
  SizeExact
  FaultsRecoverable
  SyncedSurvive
  CacheExact
  IteratesExact
PROPERTIES
  ImplementsTable
  UsesLog
  MemoryImplementsTable
  IsBoundedMap
CHECK_DEADLOCK FALSE
