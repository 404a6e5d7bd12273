SPECIFICATION Spec
CONSTANTS
  Opcodes <- IndexedRows
  PageSize = 4096
  Probes <- MCProbes
  Home <- MCHome
  Places <- MCPlaces
INVARIANTS
  MovedLiteralLoadsKeepTheirRegister
CHECK_DEADLOCK FALSE
