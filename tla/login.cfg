SPECIFICATION LoginSpec
CONSTANTS
  Uids <- MCUids
  Certs = {k1}
  SessionTime = 1
  MaxTime = 0
  NoEntry = NoEntry
  Requests = {r1, r2}
  Sessions = {s1, s2}
  Identities <- MCVisitors
  Nobody = Nobody
  Absent = Absent
  NotAKey = NotAKey
  Faulty = TRUE
  Procs = {p1}
  Keys = {k1}
  Malformed = Malformed
  LocalKeys <- MCLocal
  Homes <- MCUids
  SecureHomes <- MCSecure
  UseFed = TRUE
  AttrOrders <- MCKeyFirst
  Residue = {"garbage"}
  MaxCalls = 1
INVARIANTS KeyWasBrought
PROPERTIES PagesEnd CallsEnd
CHECK_DEADLOCK FALSE
