SPECIFICATION DurableSpec
CONSTANTS
  Name = {c1}
  RecordSize = {1}
  HeaderSize = 1
  MaxSegmentBytes = 2
  MaxOffset = 3
  Seeks = "none"
INVARIANT SyncIsDurable
