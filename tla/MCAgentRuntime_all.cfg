SPECIFICATION RuntimeFairSpec
CONSTANTS
  a1 = a1
  w1 = w1
  w2 = w2
  Agents = {a1}
  Workers = {w1, w2}
  MaxPlan = 2
  PlanLen <- TwoTasks
  PoolTier <- OnePool
  WorkerId <- OwnIds
  NTiers = 1
  MaxPerTier = 1
  MaxInfra = 2
  MaxTotal = 4
  MaxActive = 1
  Flags <- Normal
  Batch = 1
  MaxFaults = 1
  NoOwner = NoOwner
  Idle = Idle
  SideEffects <- FirstTask
  NoAction = NoAction
CHECK_DEADLOCK FALSE
INVARIANTS
  ContextIsBacked
  DoneOnceOrFlagged
  PriorIsPlanPrefix
PROPERTIES
  ImplementsQueue
  ImplementsLedger
