SPECIFICATION TimeoutSpec
CONSTANTS
  IntBits = 8
  FirstTime = 10
  LastTime = 69
  SessionTime = 30
  UrnPrefixes <- MCPrefixes
INVARIANTS OpenUntilDeadline
CHECK_DEADLOCK FALSE
