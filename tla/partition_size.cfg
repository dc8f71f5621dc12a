CONSTANTS
  small = small
  large = large
  Payload <- MCPayload
  PayloadSize <- MCPayloadSize
  HeaderSize = 1
  MaxSegmentSize = 2
  MaxPartitionSize = 4
  SegmentTtl = 0
  MaxOffset = 6
  MaxClock = 0
SPECIFICATION Spec
INVARIANTS
  OrphanIndexes
  DiskBounded
  SegmentsMirrorDisk
  EveryOffsetReadable
PROPERTIES
  SizeRetentionWhenDue
  ImplementsCommitLog
