CONSTANTS
  ask = ask
  tell = tell
  Instances <- MCInstances
  RequestIds <- MCRequestIds
  Prompts <- MCPrompts
  HistoryLimit = 1
  EventLimit = 4
  MaxRevision = 5
  MaxCapability = 2
SPECIFICATION WorldSpec
INVARIANTS NumbersAreFinal LaunchedOnce InDoubtIsJournaled
PROPERTIES RestoreEndsAuthority ImplementsLedger
CHECK_DEADLOCK FALSE
CONSTRAINT FewNumbers
