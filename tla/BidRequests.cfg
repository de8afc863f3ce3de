SPECIFICATION FairSpec
CONSTANTS
  k1 = k1
  k2 = k2
  k3 = k3
  k4 = k4
  NumUsers = 4
  NumAuctions = 2
  Platform = 4
  Seller <- MCSeller
  Keys = {k1, k2, k3, k4}
  Bid <- MCBid
  StartingFunds = 200
  Requests = {r1, r2}
  Settler = settler
  NoOne = NoOne
PROPERTIES OnlyReplacedBidsReturn BidsImplementEscrow EveryBidEnds
