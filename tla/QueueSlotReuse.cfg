SPECIFICATION Spec
CONSTANTS
  alice = alice
  bob = bob
  Users = {alice}
  Keys = {k1, k2}
  Conns = {c1, c2}
  Drawers = {d1}
  Origins = {"timer"}
  Rank <- MCRank
  Stock = 2
  MaxWindows = 1
  MaxDraws = 0
  MaxRestarts = 0
  LockOutlives = FALSE
  RedisFails = FALSE
INVARIANTS SlotIsSingleUse
