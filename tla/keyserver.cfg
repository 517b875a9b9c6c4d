SPECIFICATION Spec
CONSTANTS
  Uids = {"u1"}
  Conns = {c1}
  Day = 3
  Limit = 1
  MaxFails = 1
  MaxSent = 2
  NoRow = NoRow
INVARIANTS AllAnswered
PROPERTIES RemovedWhenOver OldSessionsGo ServerEnds
CHECK_DEADLOCK FALSE
