SPECIFICATION Spec
CONSTANTS
  MaxU64 = 1023
  Formats = {"Elf", "Macho"}
  Stricts = {TRUE, FALSE}
  LoadEnd = 40
  ElfPage = 16
  ExtraLen = 4
  TextBase = 64
  TextEnd = 128
  MaxVaddrEnd = 160
  FreeRegions <- MCFreeRegions
  PaddingRegions <- MCPaddingRegions
  GapBase = 80
  PAGE = 16
  GAP = 32
  CtorAddr = 80
  REACH = 64
  WrapperLen = 4
  Names <- TwoNames
  Bodies <- MCBodies
  Blobs <- MCBlobs
  Reservations <- MCReservations
  MaxCalls = 3
INVARIANTS
  ItemsIntact
  PayloadClearOfInput
  AddressesFollowItems
  WritableFirstDisjoint
  ElfInitialisersChain
