SPECIFICATION FairSpec
CONSTANTS
  alice = alice
  bob = bob
  k1 = k1
  k2 = k2
  d1 = d1
  d2 = d2
  Users = {alice, bob}
  Drops = {d1, d2}
  Keys = {k1, k2}
  Sales <- MCSales
  Conns = {r1, r2}
  NumSeeds = 2
  Stock <- MCStock
  Prices = {1, 2}
  FirstPrice = 1
  StartingFunds = 2
  MaxPacks = 1
  MaxArrivals = 2
  MaxUpdates = 1
INVARIANTS StockAccounted BalanceMatchesLedger PackLimit SeedsAreSpent
PROPERTIES PaidPriceOnSale AnswersAgree EveryRequestEnds
CHECK_DEADLOCK FALSE
