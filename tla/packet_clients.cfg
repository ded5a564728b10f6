\* A ring of 8 words; packets take 2, 3 or 4 of them.
CONSTANTS
  End = 7
  Lens = {1, 3, 5}
  NULL = NULL
  ShrinkLast = FALSE
SPECIFICATION Spec
INVARIANTS TypeOK RingIntact NoAssertFails
PROPERTIES HeldWordsStable ImplementsQueue
