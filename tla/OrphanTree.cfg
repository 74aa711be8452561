SPECIFICATION ProcSpec
CONSTANTS
  Slots <- MCSlots
  Pipes = {}
  Descriptors = {0, 1}
  PipeBytes = 1
  Frames <- MCMoreFrames
  MaxStarted = 4
INVARIANT OrphanIsItsOwnRoot
CHECK_DEADLOCK FALSE
