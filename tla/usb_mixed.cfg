\* Padded frames and ones that fill the ring, among ones to drop; two banks per
\* endpoint.
CONSTANTS
  End = 4
  Lens = {3, 6}
  NULL = NULL
  EpSize = 3
  Banks = 2
  HdrLen = 1
  MinLen = 2
  Frames <- Mixed
  MaxFrames = 2
  MaxConfigs = 1
SPECIFICATION FairSpec
INVARIANTS EchoesInOrder NoAssertFails
PROPERTIES KeepsRules EveryFrameEchoed
