SPECIFICATION FairSpec
CONSTANTS
  Workers = {w1, w2}
  NoWorker = NoWorker
  NoTask = NoTask
  Unchanged = {}
  Sorted <- ThreeTasks
PROPERTIES
  RunEnds
