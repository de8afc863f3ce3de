SPECIFICATION Spec
CONSTANTS
  NumUsers = 4
  Platform = 4
  NumCards = 1
  NumAuctions = 1
  FirstOwner <- MCFirstOwner
  StartingBalance = 2300
  Keys = {k1, k2}
  NoKey = NoKey
  BidAmounts = {100, 200, 2100, 2205}
  Durations = {60, 300}
  MarketValues = {0, 700}
  TimeSteps = {30}
  MaxTime = 372
  AntiSnipeSeconds = 12
  MaxExtensions = 6
  AntiSnipeTrigger = 30
  SealedWindow = 60
  SealedMinDuration = 96
  SettlementLimit = 100
  PairThreshold = 3
  LadderThreshold = 8
INVARIANTS MoneyConserved SealedBidsBeatOpenBid SalesAreFair ShortAuctionsStayOpen
PROPERTIES EndgameIsBlind
CHECK_DEADLOCK FALSE
