CONSTANTS
  Sources = {s1}
  Abis = {arm64}
  Manifest = manifest
  Sorted <- MCSorted
  Jobs = 2
  MaxVersion = 2
  MaxUnhashed = 1
  Crashes = TRUE
  Interrupts = TRUE
SPECIFICATION Spec
CONSTRAINT OneVersion
INVARIANT LinkHasObjects
INVARIANT ResourcesAreCurrent
INVARIANT SuccessIsCurrent
INVARIANT CacheIsHonest
INVARIANT CleanRebuildsAll
