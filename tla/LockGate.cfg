SPECIFICATION Spec
CONSTANTS
  Names = {"ann", "bob"}
  Procs <- GateProcs
  Role <- GateRole
  User <- GateUser
  Existing = {"ann"}
  MaxKills = 1
INVARIANTS AccountsKeepTheirCommand
CHECK_DEADLOCK FALSE
