SPECIFICATION Spec
CONSTANTS
  PAGE = 64
  Names <- NameSet
  HashOf <- Hashes
  Inputs <- InputFiles
  Libraries = {"lib", "lib2"}
  ExportNames = {"f", "new"}
  BodyLens = {1, 3}
  TextEdits <- GrowingEdits
  WrapperLen = 10
  HEADROOM = 2
  MaxCalls = 1
  MaxSessions = 2
INVARIANT
  EntriesForwarded
CHECK_DEADLOCK FALSE
