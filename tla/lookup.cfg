SPECIFICATION LookupSpec
CONSTANTS
  Uids = {u1, u2}
  Certs = {k1}
  SessionTime = 1
  MaxTime = 0
  NoEntry = NoEntry
  Procs = {p1, p2}
  Keys = {k1}
  Malformed = Malformed
  LocalKeys = {}
  Homes = {u1}
  SecureHomes = {u1}
  UseFed = TRUE
  AttrOrders <- MCKeyFirst
  Residue = {"garbage", "previous"}
  MaxCalls = 2
SYMMETRY MCSymmetry
INVARIANTS LookupTypeOK LinesHaveLiveWriter KeyProvenance OpenSessionFound FoundKeyIsAccepted
CHECK_DEADLOCK FALSE
