SPECIFICATION Spec
CONSTANTS
  alice = alice
  bob = bob
  k1 = k1
  k2 = k2
  d1 = d1
  d2 = d2
  Users = {alice, bob}
  Drops = {d1, d2}
  Keys = {k1, k2}
  Sales <- MCSales
  Conns = {r1, r2}
  NumSeeds = 2
  Stock <- MCStock
  Prices = {1}
  FirstPrice = 1
  StartingFunds = 2
  MaxPacks = 1
  MaxArrivals = 2
  MaxUpdates = 0
INVARIANTS AuditIsAChain
CHECK_DEADLOCK FALSE
