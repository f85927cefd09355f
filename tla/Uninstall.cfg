SPECIFICATION Spec
CONSTANTS
  n1 = n1 n2 = n2
  Names <- MCNames
  Leftovers <- MCLeftovers
  OptionSets <- MCOptions
  MaxId = 2
  MaxFaults = 1
  MaxOutside = 1
INVARIANTS NothingStranded
PROPERTIES DeletesOnlyConfirmed AuthorizedUninstallFinishes GrantKeepsTaskOrRow RowNamesWhatIsLeft
CHECK_DEADLOCK FALSE
