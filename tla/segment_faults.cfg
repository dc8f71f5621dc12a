\* Killed and short writes, an index that overflows.
CONSTANTS
  Payload <- MCSigned
  BaseOffset = 1
  MaxSize = 6
  IndexCap = 3
  HalfWord = 64
  Faults = {"killed_in_write", "short_write"}
  MaxWords = 7
SPECIFICATION FairSpec
INVARIANTS
  TypeOK
  RemainsHarmless
PROPERTIES
  ScanEnds
