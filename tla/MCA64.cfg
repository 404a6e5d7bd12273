SPECIFICATION Spec
CONSTANTS
  Opcodes <- IndexedRows
  PageSize = 4096
  Probes <- MCProbes
  Home <- MCHome
  Places <- MCPlaces
INVARIANTS
  MovedReferencesLand
  MovedKeepsMeaning
  ReencodingKeepsMeaning
  WidenedBranchesAgree
CHECK_DEADLOCK FALSE
