CONSTANTS
  MaxKey = 7
  Tables <- MCTables
  Targets <- MCTargets
SPECIFICATION FairSpec
INVARIANTS
  SearchInv
  ProbesInside
  FindsLast
PROPERTIES
  Terminates
