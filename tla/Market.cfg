SPECIFICATION FairSpec
CONSTANTS
  alice = alice
  bob = bob
  c1 = c1
  c2 = c2
  Users = {alice, bob}
  Platform = Platform
  Cards = {c1, c2}
  Keys = {k1}
  Requests = {r1, r2}
  Settler = Settler
  Prices = {40}
  Values = {40}
  FirstOwner <- MCFirstOwner
  FirstValue <- MCFirstValue
  StartingFunds <- MCStartingFunds
  MaxListings = 2
  MaxAuctions = 1
  NoOne = NoOne
INVARIANTS OneMarketPerCard EachSaleOnce BooksBalance ConfirmedIsBooked
PROPERTIES OwnersAreBought EveryPurchaseEnds
CHECK_DEADLOCK FALSE
