CONSTANTS
  NSlots = 8
  Installed = {1, 2, 3, 4, 6}
  MaxId = 9
  MaxIndex = 8
  DestArgs = {5, 7}
  RightsArgs <- MCRights
  Badges = {7}
  NFrames = 2
  NPages = 1
  MemRights <- MCMemRights
  QueueLimit = 2
  MaxSends = 3
  MaxClock = 1
  Subjects = {1, 2, 3, 4, 5, 6, 7}
  Sources = {1, 2, 3, 4, 5, 7, 8, 9}
  Profiles <- MCProfiles
SPECIFICATION AgreeSpec
INVARIANTS ImplementationsAgree EndpointInOrder
CHECK_DEADLOCK FALSE
