CONSTANTS
  small = small
  large = large
  Payload = {small}
  PayloadSize <- MCPayloadSize
  HeaderSize = 1
  MaxSegmentSize = 1
  MaxPartitionSize = 0
  SegmentTtl = 1
  MaxOffset = 4
  MaxClock = 3
SPECIFICATION Spec
PROPERTIES
  YoungDataKept
