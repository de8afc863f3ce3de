SPECIFICATION FairSpec
CONSTANTS
  alice = alice
  bob = bob
  Users = {alice, bob}
  Keys = {k1}
  Conns = {c1}
  Drawers = {d1}
  Origins = {"timer","admin"}
  Rank <- MCRank
  Stock = 1
  MaxWindows = 1
  MaxDraws = 1
  MaxRestarts = 0
  LockOutlives = TRUE
  RedisFails = FALSE
PROPERTIES OwnLockOnly EveryWindowIsDrawn
