CONSTANTS
  u1 = u1
  u2 = u2
  g1 = g1
  Users = {u1, u2}
  MaxUID = 2
  Gens = {g1}
  NoGen = NoGen
  Quarantine = 1
  MaxTime = 2
  MaxLosses = 1
  MaxMissed = 1
  Readers = {"check", "inspect"}
  RecordInputs <- MCRecordInputs
  LegacyRows <- MCLegacyRows
SYMMETRY Symmetry
SPECIFICATION Spec
INVARIANTS
  IdentityNeverReused
  PublishedCovered
  CheckIntegrityNoFalseAlarm
PROPERTIES
  DeletionRowsFinal
