SPECIFICATION Spec
CONSTANTS
  a1 = a1
  a2 = a2
  a3 = a3
  j1 = j1
  j2 = j2
  s1 = s1
  Agents = {a1, a2}
  Workers = {j1, j2, s1}
  MaxPlan = 1
  PlanLen <- OneTaskEach
  PoolTier <- Pools
  WorkerId <- DistinctIds
  NTiers = 2
  MaxPerTier = 2
  MaxInfra = 1
  MaxTotal = 4
  MaxActive = 1
  Flags <- AllFlags
  Batch = 2
  MaxFaults = 1
  NoOwner = NoOwner
  Idle = Idle
SYMMETRY JuniorSymmetry
CHECK_DEADLOCK FALSE
INVARIANTS
  OneCommitPerTask
  PromotionPaid
  FenceExact
