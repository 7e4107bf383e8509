SPECIFICATION FairSpec
CONSTANTS
  MaxSessions = 3
  MaxFds = 4
INVARIANTS NoLeak LosesOnlyReused
PROPERTY NumbersComeBack
CHECK_DEADLOCK FALSE
