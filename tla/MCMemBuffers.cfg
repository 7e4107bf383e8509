SPECIFICATION Spec
CONSTANTS
  B = 2
  M = 16
  N = 5
  Contents <- MCContents
  Sizes = {0, 3, 6, 11, 15}
INVARIANTS OverrunNeedsWrap ReadsAreExact
CHECK_DEADLOCK FALSE
