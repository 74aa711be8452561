SPECIFICATION ProcSpec
CONSTANTS
  Slots <- MCSlots
  Pipes <- MCPipes
  Descriptors <- MCDescriptors
  PipeBytes = 1
  Frames <- MCFrames
  MaxStarted = 3
INVARIANTS PipesAreExact StoppedOnlyStuck FramesOwnedOnce
PROPERTY NobodyWaitsForEver
CHECK_DEADLOCK FALSE
