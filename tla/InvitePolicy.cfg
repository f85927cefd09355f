SPECIFICATION LoginSpec
CONSTANTS
  Acct = "acct"
  Other = "other"
  Groups = {"acct", "staff"}
  Addrs = {"lan", "wan"}
  NoAddr = "none"
  Patterns = {"acct", "other", "any", "lan", "mine"}
  AcctPattern = "acct"
  Who <- MCWho
  From <- MCFrom
  Qualified = {"lan", "mine"}
  Confs <- MCConfs
  Edits <- MCEdits
  GroupLists <- MCGroupLists
  SudoHosts <- MCSudoHosts
  MaxEdits = 1
  MaxLines = 2
  MaxTokens = 5
  MaxRules = 2
INVARIANTS VerifiedLogsIn ExceptionConfined SudoProofSound
CHECK_DEADLOCK FALSE
