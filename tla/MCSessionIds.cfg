SPECIFICATION Spec
CONSTANTS
  IdMod = 2
  Addrs = {a1, a2, a3}
  Socks = {k1, k2, k3}
  None = none
INVARIANTS TableIsTheLiving OpeningKnowsItsSession WrongByReplacementOnly
CHECK_DEADLOCK FALSE
