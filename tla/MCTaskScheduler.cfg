SPECIFICATION Spec
CONSTANTS
  Workers = {w1, w2, w3}
  NoWorker = NoWorker
  NoTask = NoTask
  Unchanged = {3}
  Sorted <- ThreeTasks
INVARIANTS
  TypeOK
  PendingCountExact
  NoLostDispatch
  NoSleepOnWork
  StatsPlausible
PROPERTIES
  StopsOnFailure
  Implements
SYMMETRY Symmetry
