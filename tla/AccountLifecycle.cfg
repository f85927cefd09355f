SPECIFICATION Spec
CONSTANTS
  MaxGen = 2
  Lifetime = 1
  Quarantine = 1
  Wants <- TwoInvites
  MaxFaults = 2
  MaxForeign = 2
INVARIANTS UsableIsWitnessed GrantsNeverInherited QuarantineIsFinalized
PROPERTIES DeletionIsPrepared DeletionIsIntended QuarantineIsHeld RowReleasedLast ImplementsTenancy
