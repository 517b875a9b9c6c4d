SPECIFICATION PortalSpec
CONSTANTS
  Certs = {k1}
  SessionTime = 1
  MaxTime = 1
  NoEntry = NoEntry
  Uids <- MCUids
  Requests = {r1, r2, r3}
  Sessions = {s1, s2}
  Identities <- MCOneUser
  Nobody = Nobody
  Absent = Absent
  NotAKey = NotAKey
  Faulty = TRUE
INVARIANTS PortalTypeOK OkCoversRequest GrantedWasRequested RefusedOnlyByRace
PROPERTIES DirSpec EarlierOnlyIfOvertaken
SYMMETRY MCSymmetry
CHECK_DEADLOCK FALSE
