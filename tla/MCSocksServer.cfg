SPECIFICATION Spec
CONSTANTS
  MaxSessions = 2
  MaxChunks = 1
  Addrs = {a1, a2}
  Accounts <- MCAccounts
  Logins <- MCLogins
  SendMayFail = TRUE
INVARIANTS TypeOK AuthenticatedBeforeConnect UsersAreAlive ConnectionsOfTheLiving SettledBetweenEvents StaleOnlyAfterFailedSend ClientStreamInOrder RefusalsNeverDelivered
PROPERTIES NeverBackwards ImplementsService
SYMMETRY AddrSymmetry
CHECK_DEADLOCK FALSE
