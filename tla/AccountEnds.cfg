SPECIFICATION FairSpec
CONSTANTS
  MaxGen = 1
  Lifetime = 1
  Quarantine = 1
  Wants <- FullInvite
  MaxFaults = 2
  MaxForeign = 0
PROPERTIES ExpiryCompletes RecoveryCompletesUnlessHalfPromoted
