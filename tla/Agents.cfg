SPECIFICATION AgentsSpec
CONSTANTS
  Agents <- MCAgentIds
  Limit = 13
  MaxMessages = 3
  MaxTurns = 2
  Requests <- MCRequests
  FirstAgents <- MCFirst
  Roles <- MCRoles
INVARIANTS NoLostWakeup BoundedWait DeliveredOnceInOrder FailedTurnsLeaveNothing EscalationDelivered
