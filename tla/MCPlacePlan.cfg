SPECIFICATION PlaceSpec
CONSTANTS
  Modes <- Mode
  Bases = {0}
  Containers = {TRUE}
  Placements <- MCPlacements
  SymAddr <- MCSymAddr
  NeedsReloc <- MCNeedsReloc
  Relocatable = FALSE
  PageSize = 8
  PageRange = 32
  WidenedSize = 8
  WidenedRange = 32
  MAX_LAYOUT_ITERATIONS = 3
  Pools <- MCPools
  Plans <- MCPlans
  DataSizes = {0, 5, 8}
  Lifted = {TRUE}
  MaxCalls = 4
INVARIANTS
  SpansAccounted
  PoolRestored
  PlacedReferencesLand
