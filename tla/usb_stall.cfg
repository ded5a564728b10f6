\* A frame that ends too early among complete ones.
CONSTANTS
  End = 7
  Lens = {3, 5}
  NULL = NULL
  EpSize = 3
  Banks = 1
  HdrLen = 1
  MinLen = 2
  Frames <- Truncated
  MaxFrames = 3
  MaxConfigs = 1
SPECIFICATION Spec
INVARIANT OffOnlyWhileFull
