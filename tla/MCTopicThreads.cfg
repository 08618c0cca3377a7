SPECIFICATION Spec
CONSTANTS
  Readers = {"r1", "r2"}
  PerSegment = 2
  MaxOffset = 4
  Failures = TRUE
INVARIANTS SegmentFound ReadsRecord
PROPERTY ReadersCatchUp
CHECK_DEADLOCK FALSE
