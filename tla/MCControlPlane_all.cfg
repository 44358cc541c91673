SPECIFICATION ControlFairSpec
CONSTANTS
  a1 = a1
  a2 = a2
  a3 = a3
  o1 = o1
  o2 = o2
  w1 = w1
  w2 = w2
  Tiers = {1, 2, 3}
  Processes <- MCProcesses
  Threads = {a1, a2, a3, o1, o2, w1, w2}
  Home <- MCHome
  PoolMax <- MCPoolMax
  Nobody = Nobody
  MaxActive = 2
  Count <- MCCount
  Role <- MCRole
  PoolTier <- MCPoolTier
  Scenarios <- MCScenarios
CHECK_DEADLOCK FALSE
INVARIANTS
  AdmittedWithinLimit
  CostKnown
  TwoAreAmple
  StarvedOnlyCold
PROPERTIES
  PromotionClimbs
  LadderFollowed
  CallsEnd
