CONSTANTS
  Threads = {t1, t2}
  Abt = abt
  PipeSize = 1
  Scripts <- Blocking
  MaxCalls = 1
  MaxFds = 6
  MaxSignals = 2
SPECIFICATION FairSpec
PROPERTY NoDeadlock
