SPECIFICATION MCSpec
CONSTANTS
  Name = {c1, c2}
  RecordSize = {1, 2}
  HeaderSize = 1
  MaxSegmentBytes = 3
  MaxOffset = 3
  Seeks = "forward"
SYMMETRY Symmetry
INVARIANTS
  RetainsUncommitted
  ReadsSucceed
  SealedSegmentsComplete
  AckedSurvive
  StatsExact
  SeeksHarmless
PROPERTY ImplementsLog
