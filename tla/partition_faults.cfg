\* Removals that fail and a clock that steps back, both limits.
CONSTANTS
  small = small
  large = large
  Payload <- MCPayload
  PayloadSize <- MCPayloadSize
  HeaderSize = 1
  MaxSegmentSize = 1
  MaxPartitionSize = 3
  SegmentTtl = 1
  MaxOffset = 5
  MaxClock = 2
  Faults = {"unlink", "clock_back"}
  MaxFailures = 2
SPECIFICATION SpecFaults
INVARIANTS
  ReadsRight
  LimitEnforced
PROPERTIES
  OffsetsStable
