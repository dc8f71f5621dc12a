\* Two lines, one late call and a kill, retention and refused writes.
CONSTANTS
  Lines = 2
  Starts = {1}
  Limits = {0, 2}
  Retention = TRUE
  IoErrors = TRUE
  MaxLate = 1
  MaxCrashes = 1
SPECIFICATION FairSpec
INVARIANTS
  AtLeastOnce
  FirstTimesInOrder
  GaplessReading
  StopsOnlyBehind
PROPERTIES
  EveryLineAnswered
  AckedConsumed
