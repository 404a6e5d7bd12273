SPECIFICATION Spec
CONSTANTS
  PAGE = 64
  TargetMod = 4096
  I32MAX = 8
  Images <- MCImages
  Targets <- MCTargets
  Slots <- MCSlots
  NewImports <- MCNewImports
  Addends = {3, 300}
  Needs = {16, 100}
  MaxCalls = 4
  MaxCommits = 2
INVARIANTS
  FixupsDelivered
  AddressesFollow
  LinkeditIntact
CHECK_DEADLOCK FALSE
