SPECIFICATION FairSpec
CONSTANTS
  c = c
  u = u
  r = r
  basic = basic
  pro = pro
  w1 = w1
  a1 = a1
  Rarities = {c, u, r}
  Common = c
  One = 80
  Lower <- MCLower
  Upper <- MCUpper
  MaxDelta = 6
  Iterations = 2
  Bump = 1
  MaxBumps = 2
  Concession = 60
  Rank <- MCRank
  Micros = 12
  Tiers <- MCTiers
  Markets <- MCMarkets
  Budget <- MCBudget
  Threshold = 15
  Noise = 20
  Seed <- MCSeed
  Workers = {w1}
  Admins = {a1}
  PoolSize = 2
  MaxVersions <- MCVersions
INVARIANTS OneActiveVersion SearchFindsTheEdge CapCanBeMet DrawsFollowWeights
PROPERTIES RebalancesEnd
