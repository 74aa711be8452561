SPECIFICATION RecSpec
CONSTANTS
  MaxSaves = 5
  MaxFaultySaves = 3
  Budget = 2
  FaultSets <- MCFaultSets
  Commands <- MCAllCommands
INVARIANTS SavedSurvives BudgetHonoured
PROPERTIES TrustedKept HealthIsEvidence RollsBack
