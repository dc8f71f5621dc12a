CONSTANTS
  small = small
  large = large
  Payload = {small}
  PayloadSize <- MCPayloadSize
  HeaderSize = 1
  MaxSegmentSize = 1
  MaxPartitionSize = 3
  SegmentTtl = 1
  MaxOffset = 6
  MaxClock = 4
SPECIFICATION FairSpec
INVARIANTS
  DiskContiguous
  IndInv
PROPERTIES
  RetentionTakesOldest
  OperationsFinish
