SPECIFICATION Spec
CONSTANTS
  PAGE = 64
  Names <- NameSet
  HashOf <- Hashes
  Inputs <- InputFiles
  Libraries = {"lib", "lib2"}
  ExportNames = {"f", "new"}
  BodyLens = {3}
  TextEdits <- AnyEdits
  WrapperLen = 10
  HEADROOM = 2
  MaxCalls = 3
  MaxSessions = 2
INVARIANTS
  SegmentsLoadable
  FileRegionsDisjoint
  AppendedCommitNeverPanics
PROPERTIES
  LoaderSeesThePlan
CHECK_DEADLOCK FALSE
