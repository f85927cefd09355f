SPECIFICATION FairSpec
CONSTANTS
  Names = {"ann", "bob"}
  Procs <- ReuseProcs
  Role <- ReuseRole
  User <- ReuseUser
  Existing = {"ann"}
  MaxKills = 1
PROPERTIES LegacyIntentHonored CommandsEnd
CHECK_DEADLOCK FALSE
