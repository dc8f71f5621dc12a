\* No fault, and an index with room for every record a full segment has.
CONSTANTS
  Payload <- MCPayload
  BaseOffset = 1
  MaxSize = 7
  IndexCap = 4
  HalfWord = 8
  Faults = {}
  MaxWords = 12
SPECIFICATION FairSpec
INVARIANTS
  IndexSynced
  AckedReadable
  ReopenSucceeds
PROPERTIES
  ImplementsCommitLog
