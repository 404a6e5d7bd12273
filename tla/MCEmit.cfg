SPECIFICATION EmitSpec
CONSTANTS
  Plans <- MCPlans
  Modes <- Mode
  Bases = {0, 8}
  Placements <- MCPlacements
  Containers = {TRUE, FALSE}
  SymAddr <- MCSymAddr
  NeedsReloc <- MCNeedsReloc
  Relocatable = FALSE
  PageSize = 8
  PageRange = 16
  WidenedSize = 8
  WidenedRange = 16
  MAX_LAYOUT_ITERATIONS = 2
INVARIANTS
  LayoutIsConsistent
  NoNeedlessWidening
  ReferencesLand
  EncodeErrorsAreBoundary
  UntouchedRoundTrips
PROPERTY
  Terminates
