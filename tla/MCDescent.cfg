SPECIFICATION Spec
CONSTANTS
  Programs <- MCPrograms
  EntryLists <- MCEntryLists
  Tails = {0, 3}
INVARIANTS
  FindsExactlyReachable
  ListingTilesBuffer
PROPERTY Terminates
