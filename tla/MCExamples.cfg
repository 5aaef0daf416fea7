CONSTANTS
  Pointers = {0, 1}
  MaxInputs = 3
  MaxQueued = 3
  MaxWindows = 2
  MaxPending = 2
  MaxWakes = 1
  MaxPointers = 2
  MaxGlFailures = 1
  MaxFailures = 1
  Capacity = 2
  Modulus = 4
  MaxBlocks = 3
SPECIFICATION Spec
INVARIANT TypeOK
INVARIANT TouchesArePaired
INVARIANT FramesHaveTarget
INVARIANT CallbackIsSafe
INVARIANT CaptureIsWhole
PROPERTY SystemIsAnswered
