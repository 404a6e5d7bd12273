SPECIFICATION Spec
CONSTANTS
  MaxU64 = 31
  ExtentLists <- MCExtentLists
  Requests <- MCRequests
  CarveSizes <- MCCarveSizes
  CarveAligns <- MCCarveAligns
  MaxCarves = 3
  PAGE = 8
  GapAddress = 6
  GapOffset = 2
INVARIANTS
  TypeOK
  PlanIsBestFit
  RefusalsAreGenuine
  CarvesDisjoint
  CarvesInsideReservation
  GrowCoversRequest
