SPECIFICATION Spec
CONSTANTS
  Conns = {c1, c2, c3}
  NoConn = NoConn
  Listeners = {l1}
  max_startups_begin = 1
  max_startups_rate = 30
  max_startups = 2
  Proto1 = TRUE
INVARIANTS TypeOK StartupsCounted UsedKeyAges
PROPERTIES SlotsReturn SighupSeen
CHECK_DEADLOCK FALSE
