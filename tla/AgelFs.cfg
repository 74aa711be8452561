SPECIFICATION FsSpec
CONSTANTS
  a = a
  c = c
  Data = Data
  Entries <- MCEntries
  PerSector = 2
  Blocks <- MCBlocks
  EntryBlocks = 2
  BlockBytes = 2
  MaxRequest = 2
  Names <- MCNames
  Roots <- MCRoots
  Paths <- MCPaths
  Moves <- MCMoves
  Offsets <- MCOffsets
  MaxStops = 1
INVARIANTS BlocksAreAccounted StaysATree
PROPERTIES ImplementsFiles
CONSTRAINT Followed
