SPECIFICATION PortalSpec
CONSTANTS
  Certs = {k1}
  SessionTime = 1
  MaxTime = 1
  NoEntry = NoEntry
  Uids <- MCUids
  Requests = {r1, r2}
  Sessions = {s1}
  Identities <- MCTwoUsers
  Nobody = Nobody
  Absent = Absent
  NotAKey = NotAKey
  Faulty = FALSE
PROPERTIES DeleteClosesSession
CHECK_DEADLOCK FALSE
