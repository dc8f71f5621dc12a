\* A kill between the write of a message and the update of the commit offset.
CONSTANTS
  Thread = {t1}
  Topic = {news}
  PartitionId = {0}
  IoErrors = FALSE
  MaxOffset = 2
  MaxCrashes = 1
SPECIFICATION Spec
INVARIANT CommitIsLast
CHECK_DEADLOCK FALSE
