SPECIFICATION FairSpec
CONSTANTS
  NumUsers = 4
  Platform = 4
  NumCards = 2
  NumAuctions = 2
  FirstOwner <- MCFirstOwner
  StartingBalance = 250
  Keys = {k1, k2}
  NoKey = NoKey
  BidAmounts = {100, 200}
  Durations = {120}
  MarketValues = {0}
  TimeSteps = {60}
  MaxTime = 180
  AntiSnipeSeconds = 12
  MaxExtensions = 1
  AntiSnipeTrigger = 60
  SealedWindow = 60
  SealedMinDuration = 120
  SettlementLimit = 2
  PairThreshold = 2
  LadderThreshold = 8
INVARIANTS HeldMatchesPledges SettlementNeverAborts RepeatedPairsAreFlagged
PROPERTIES SettledIsFinal EveryAuctionSettles ImplementsEscrow
CHECK_DEADLOCK FALSE
