SPECIFICATION Spec
CONSTANTS
  a1 = a1
  a2 = a2
  a3 = a3
  j1 = j1
  j2 = j2
  s1 = s1
  Agents = {a1}
  Workers = {j1, j2, s1}
  MaxPlan = 1
  PlanLen <- OneTaskEach
  PoolTier <- Pools
  WorkerId <- SharedIds
  NTiers = 2
  MaxPerTier = 1
  MaxInfra = 2
  MaxTotal = 4
  MaxActive = 2
  Flags <- NormalFlags
  Batch = 1
  MaxFaults = 2
  NoOwner = NoOwner
  Idle = Idle
CHECK_DEADLOCK FALSE
INVARIANTS
  FenceExact
