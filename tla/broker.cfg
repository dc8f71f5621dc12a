\* Threads against each other, kills, and files that cannot be created or opened.
CONSTANTS
  Thread = {t1, t2}
  Topic = {news}
  PartitionId = {0, 1}
  IoErrors = TRUE
  MaxOffset = 2
  MaxCrashes = 1
SPECIFICATION FairSpec
INVARIANTS
  FourViewsAgree
  CommitIsLastUnlessKilled
  AckedAnswered
  CacheMirrorsFile
PROPERTIES
  OffsetsAnswerOrdered
  HandlersEnd
CHECK_DEADLOCK FALSE
