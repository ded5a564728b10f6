\* The last packet may be made smaller.
CONSTANTS
  End = 7
  Lens = {1, 3, 5}
  NULL = NULL
  ShrinkLast = TRUE
SPECIFICATION Spec
INVARIANT ReadersOnEntries
