SPECIFICATION FairSpec
CONSTANTS
  a1 = a1
  a2 = a2
  a3 = a3
  j1 = j1
  j2 = j2
  s1 = s1
  Agents = {a1, a2, a3}
  Workers = {j1, s1}
  MaxPlan = 1
  PlanLen <- OneOneNone
  PoolTier <- Pools
  WorkerId <- DistinctIds
  NTiers = 2
  MaxPerTier = 1
  MaxInfra = 1
  MaxTotal = 3
  MaxActive = 3
  Flags <- NormalFlags
  Batch = 1
  MaxFaults = 1
  NoOwner = NoOwner
  Idle = Idle
CHECK_DEADLOCK FALSE
PROPERTIES
  AgentsEnd
  ImplementsPlan
