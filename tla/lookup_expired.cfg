SPECIFICATION LookupSpec
CONSTANTS
  Uids = {u1}
  Certs = {k1}
  SessionTime = 1
  MaxTime = 1
  NoEntry = NoEntry
  Procs = {p1}
  Keys = {k1}
  Malformed = Malformed
  LocalKeys = {}
  Homes = {u1}
  SecureHomes = {u1}
  UseFed = TRUE
  AttrOrders <- MCSlapd
  Residue = {"zero", "garbage", "previous"}
  MaxCalls = 2
INVARIANTS AcceptedWhileOpen
CHECK_DEADLOCK FALSE
