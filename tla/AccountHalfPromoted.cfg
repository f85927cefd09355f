SPECIFICATION OperatorSpec
CONSTANTS
  MaxGen = 1
  Lifetime = 1
  Quarantine = 1
  Wants <- FullInvite
  MaxFaults = 1
  MaxForeign = 0
PROPERTIES RecoveryCompletes
