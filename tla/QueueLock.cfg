SPECIFICATION Spec
CONSTANTS
  alice = alice
  bob = bob
  Users = {alice}
  Keys = {k1}
  Conns = {c1}
  Drawers = {d1, d2}
  Origins = {"timer", "monitor", "admin"}
  Rank <- MCRank
  Stock = 1
  MaxWindows = 1
  MaxDraws = 1
  MaxRestarts = 1
  LockOutlives = FALSE
  RedisFails = TRUE
INVARIANTS OneDrawAtATime
