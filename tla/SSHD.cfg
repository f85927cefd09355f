SPECIFICATION FairSpec
CONSTANTS
  p1 = p1 p2 = p2 u1 = u1 u2 = u2
  NoProc = NoProc
  Procs <- MCProcs Users <- MCUsers
  Grants = 2 Faults = 2 SyncFaults = 1 OutsideEdits = 1 OutsideReloads = 1
INVARIANTS
  ExceptionTracked
  RemovalSurvives
  ReloadsAreChecked
PROPERTIES
  CleanupConverges
