\* Three orchestrators at most, for six agents by admission and eight with the harness; one fault.
CONSTANTS
  PerAgent = 2
  PerBacklog = 3
  MinReplicas = 1
  MaxReplicas = 3
  AgentCap = 6
  MaxAgents = 8
  Cooldown = 3
  MaxFaults = 1
SPECIFICATION FairSpec
INVARIANTS
  TypeOK
  LeastThatCarries
PROPERTY Settles
