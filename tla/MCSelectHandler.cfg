SPECIFICATION FairLoopSpec
CONSTANTS
  Socks = {s1, s2}
  Numbers = {n1, n2}
  Server = server
  None = none
  SetSize = 64
INVARIANT RoundsAreSafe
PROPERTY CloseIsReported
CHECK_DEADLOCK FALSE
