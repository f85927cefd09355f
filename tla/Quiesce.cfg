SPECIFICATION Spec
CONSTANTS
  p1 = p1 p2 = p2 a1 = a1
  NoPid = NoPid
  Pids <- MCPids
  Settings <- MCSettings
  AtIds = {a1}
  Sweeps = 2
  Attempts = 2
  Confirmations = 2
  MaxBirths = 3
  MaxForeign = 1
  MaxFaults = 1
INVARIANTS ForeignSpared ReleasedQuiet
CHECK_DEADLOCK FALSE
