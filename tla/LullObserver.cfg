\* The same service without a fault.
CONSTANTS
  PerAgent = 2
  PerBacklog = 3
  MinReplicas = 1
  MaxReplicas = 3
  AgentCap = 6
  MaxAgents = 8
  Cooldown = 3
  MaxFaults = 0
SPECIFICATION ObservedSpec
PROPERTY LullOutlasted
