SPECIFICATION Spec
CONSTANTS
  MaxSessions = 1
  MaxChunks = 0
  Addrs = {a1}
  Accounts <- MCAccounts
  Logins <- MCAccounts
  SendMayFail = FALSE
INVARIANT AddressFamilyIsKnown
CHECK_DEADLOCK FALSE
