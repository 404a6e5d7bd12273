SPECIFICATION CommitSpec
CONSTANTS
  Inputs <- MCInputs
  SymbolIds = {1, 2, 3, 4, 5, 6}
  PageSize = 4
  NewTargets <- MCNewTargets
  FarBase = 41
  Delta = 8
  Carved = {5}
  VectorRegisters = {"q1"}
INVARIANT MacroRedirectsTakeEffect
