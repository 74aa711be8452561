CONSTANTS
  NSlots = 7
  Installed = {1, 4, 6}
  MaxId = 10
  MaxIndex = 7
  DestArgs = {0, 2}
  RightsArgs <- MCRights
  Badges = {7}
  NFrames = 2
  NPages = 2
  MemRights <- MCMemRights
SPECIFICATION KernSpec
INVARIANTS MemTypeOK DerivationForest RevocationIsExact FrameOwnership WritableXorExecutable
PROPERTIES AuthorityNeverGrows NoForgedMemory ExposureNeverGrows
CHECK_DEADLOCK FALSE
