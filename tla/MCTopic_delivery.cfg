SPECIFICATION DeliverySpec
CONSTANTS
  Name = {c1, c2}
  RecordSize = {1, 2}
  HeaderSize = 1
  MaxSegmentBytes = 3
  MaxOffset = 2
  Seeks = "none"
INVARIANT AtLeastOnce
PROPERTY ReaderCatchesUp
