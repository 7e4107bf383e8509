SPECIFICATION FairSpec
CONSTANTS
  MaxSessions = 1
  MaxChunks = 2
  Addrs = {a1}
  Accounts <- MCAccounts
  Logins <- MCLogins
  SendMayFail = TRUE
INVARIANT RelayedInOrder
PROPERTIES HangUpEndsSession ConnectResolves QueuedIsWritten
CHECK_DEADLOCK FALSE
