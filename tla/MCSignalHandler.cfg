SPECIFICATION FairSpec
CONSTANTS
  Pushers = {p1, p2}
  Callers = {c1, c2}
  Worker = w
  MaxSignals = 2
INVARIANTS EachSignalOnce NoWakeupIsLost FlagMeansRunner OneSignalAfterStop RunOnceBlocksOnlyIfRobbed
PROPERTY ExecutedOrStopped
CHECK_DEADLOCK FALSE
