SPECIFICATION FairSpec
CONSTANTS
  MaxTasks = 3
  MaxDeps = 3
INVARIANTS
  TypeOK
  SortedIsTopological
  CycleIsReal
PROPERTIES
  SortReturns
