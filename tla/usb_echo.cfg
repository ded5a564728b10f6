\* Three complete frames on a ring of 8 words; one bank per endpoint.
CONSTANTS
  End = 7
  Lens = {2, 3, 5}
  NULL = NULL
  EpSize = 3
  Banks = 1
  HdrLen = 1
  MinLen = 2
  Frames <- Complete
  MaxFrames = 3
  MaxConfigs = 1
SPECIFICATION FairSpec
INVARIANTS TypeOK EchoesInOrder NeverSleepsOnInput OffOnlyWhileFull
PROPERTIES KeepsRules EveryFrameEchoed
