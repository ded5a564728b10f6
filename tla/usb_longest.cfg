\* The sizes of the program, with the longest frame.
CONSTANTS
  End = 295
  Lens = {590}
  NULL = NULL
  EpSize = 64
  Banks = 2
  HdrLen = 24
  MinLen = 42
  Frames <- Longest
  MaxFrames = 1
  MaxConfigs = 1
SPECIFICATION Spec
INVARIANT NoAssertFails
