CONSTANTS
  MaxEdits = 3
  QueueSize = 3
  BatchSize = 2
  OutputMatches = FALSE
SPECIFICATION FairSpec
INVARIANT NoEditForgotten
INVARIANT NoCallbackAfterReturn
PROPERTY InterruptEnds
PROPERTY EditsAreBuilt
