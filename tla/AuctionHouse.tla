---------------------------- MODULE AuctionHouse ----------------------------
(***************************************************************************)
(* The auction service with the balances, cards and tables it works on.    *)
(* Every action is one database transaction that commits; a request the    *)
(* code rejects with an error is rolled back whole and is no step.         *)
(*                                                                         *)
(* A row is a function value: available[u] and held[u] are the two columns *)
(* of the balances table, auction[a] is a row of auctions ("FREE" while    *)
(* the id is unused), sealed[a][u] and sealedKey[a][u] the row of          *)
(* sealed_bids for (a, u) (0 and NoKey when there is none), bids the rows  *)
(* of bids without their amount, settlement[a] the row of                  *)
(* auction_settlements, flags[a] the integrity flags raised for a.         *)
(*                                                                         *)
(* A definition whose name ends in Bug is not part of the model: it is a   *)
(* plausible mistake in the definition that follows it, kept to see which  *)
(* property notices.                                                       *)
(***************************************************************************)
EXTENDS Money, Totals, FiniteSets

CONSTANTS
  NumUsers,          \* users 1..NumUsers, compared like bidder ids on a tie
  Platform,          \* the user credited with the fees
  NumCards,
  NumAuctions,       \* bound on auctions ever created
  FirstOwner,        \* who owns which card at first
  StartingBalance,   \* cents a registered user starts with
  Keys, NoKey,       \* idempotency keys a client may send
  BidAmounts,        \* cents, the amounts users bid
  Durations,         \* seconds, the auction lengths sellers choose
  MarketValues,      \* cents, the prices the price worker gives a card
  TimeSteps,         \* seconds that may pass between two transactions
  MaxTime,           \* bound on the clock
  AntiSnipeSeconds, MaxExtensions, AntiSnipeTrigger,
  SealedWindow, SealedMinDuration,
  SettlementLimit,   \* rows one settlement tick fetches
  PairThreshold,     \* settlements of one seller and winner that raise a flag
  LadderThreshold    \* open bids of one bidder that raise a flag

NoUser    == 0
NoAuction == 0
Users     == 1..NumUsers
Cards     == 1..NumCards
Auctions  == 1..NumAuctions

ASSUME SizesAssumption ==
  /\ NumUsers \in Nat /\ NumCards \in Nat \ {0} /\ NumAuctions \in Nat
  /\ Platform \in Users
  /\ FirstOwner \in [Cards -> Users]
  /\ StartingBalance \in Nat
  /\ SettlementLimit \in Nat /\ PairThreshold \in Nat \ {0} /\ LadderThreshold \in Nat

ASSUME KeysAssumption == NoKey \notin Keys

ASSUME MoneyAssumption ==
  /\ BidAmounts \subseteq Nat
  /\ MarketValues \subseteq Nat

ASSUME TimeAssumption ==
  /\ Durations \subseteq Nat \ {0}
  /\ TimeSteps \subseteq Nat \ {0}
  /\ MaxTime \in Nat
  /\ AntiSnipeSeconds \in Nat /\ MaxExtensions \in Nat /\ AntiSnipeTrigger \in Nat
  /\ SealedWindow \in Nat /\ SealedMinDuration \in Nat

VARIABLES
  clock, available, held, owner, market, auction, sealed, sealedKey, bids,
  settlement, flags

balances == <<available, held>>
vars == <<clock, available, held, owner, market, auction, sealed, sealedKey,
          bids, settlement, flags>>

Statuses     == {"FREE", "LIVE", "CLOSING", "SEALED_ENDGAME", "CLOSED", "SETTLED"}
OpenStatuses == {"LIVE", "CLOSING"}
LiveStatuses == OpenStatuses \cup {"SEALED_ENDGAME"}

AuctionRow ==
  [status : Statuses, card : Cards, seller : Users, start : Nat, end : Nat,
   ext : Nat, current : Nat, leader : Users \cup {NoUser}, sealedPhase : BOOLEAN]

SettlementRow ==
  [winner : Users \cup {NoUser}, gross : Nat, fee : Nat, maxBid : Nat]

FlagTypes == {"REPEATED_SELLER_WINNER_PAIR", "LOW_CLOSE_WITHOUT_COMPETITION",
              "SEALED_ENDGAME_LOW_COMPETITION", "MICRO_BID_LADDER"}

FreeAuction ==
  [status |-> "FREE", card |-> 1, seller |-> Platform, start |-> 0, end |-> 0,
   ext |-> 0, current |-> 0, leader |-> NoUser, sealedPhase |-> FALSE]

NoSettlement == [winner |-> NoUser, gross |-> 0, fee |-> 0, maxBid |-> 0]

NotInMarket == [state |-> "NONE", auction |-> NoAuction]

\* Every registered user holds the starting balance, the platform user nothing.
Init ==
  /\ clock = 0
  /\ available = [u \in Users |-> IF u = Platform THEN 0 ELSE StartingBalance]
  /\ held = [u \in Users |-> 0]
  /\ owner = FirstOwner
  /\ market = [c \in Cards |-> NotInMarket]
  /\ auction = [a \in Auctions |-> FreeAuction]
  /\ sealed = [a \in Auctions |-> [u \in Users |-> 0]]
  /\ sealedKey = [a \in Auctions |-> [u \in Users |-> NoKey]]
  /\ bids = {}
  /\ settlement = [a \in Auctions |-> NoSettlement]
  /\ flags = [a \in Auctions |-> {}]

-----------------------------------------------------------------------------
(* Time and the two phases of an auction *)

Tick ==
  \E d \in TimeSteps :
    /\ clock + d <= MaxTime
    /\ clock' = clock + d
    /\ UNCHANGED <<balances, owner, market, auction, sealed, sealedKey, bids,
                   settlement, flags>>

ExtendedDurationBug(row) == row.end - row.start

\* The duration chosen at creation, recovered from the row as the code does.
OriginalDuration(row) == row.end - row.start - row.ext * AntiSnipeSeconds

SealedEligible(row) == OriginalDuration(row) >= SealedMinDuration

InSealedWindow(row) == SealedEligible(row) /\ row.end - clock <= SealedWindow

Seal(row) == [row EXCEPT !.status = "SEALED_ENDGAME", !.sealedPhase = TRUE]

ClosingNotPromotedBug(row) ==
  IF row.status = "LIVE" /\ InSealedWindow(row) THEN Seal(row) ELSE row

Promoted(row) ==
  IF row.status \in OpenStatuses /\ InSealedWindow(row) THEN Seal(row) ELSE row

\* A read of the auction list or of one auction seals what is due.
DueForSealing(a) ==
  /\ auction[a].status \in OpenStatuses
  /\ auction[a].end > clock
  /\ InSealedWindow(auction[a])

SealAll(S) ==
  /\ S # {}
  /\ auction' = [a \in Auctions |-> IF a \in S THEN Seal(auction[a]) ELSE auction[a]]
  /\ UNCHANGED <<clock, balances, owner, market, sealed, sealedKey, bids,
                 settlement, flags>>

GetLiveAuctions == SealAll({a \in Auctions : DueForSealing(a)})

GetAuctionSnapshot(a) == SealAll({b \in {a} : DueForSealing(b)})

-----------------------------------------------------------------------------
(* Creating an auction *)

CanAuction(u, c) == owner[c] = u /\ market[c].state = "NONE"

CreateAuction(u, c, d) ==
  /\ CanAuction(u, c)
  /\ clock + d + MaxExtensions * AntiSnipeSeconds <= MaxTime  \* bound of the model
  /\ \E a \in Auctions :
       /\ auction[a].status = "FREE"
       /\ \A b \in 1..(a - 1) : auction[b].status # "FREE"
       /\ auction' = [auction EXCEPT ![a] =
            [FreeAuction EXCEPT !.status = "LIVE", !.card = c, !.seller = u,
                                !.start = clock, !.end = clock + d]]
       /\ market' = [market EXCEPT ![c] = [state |-> "IN_AUCTION", auction |-> a]]
  /\ UNCHANGED <<clock, balances, owner, sealed, sealedKey, bids, settlement, flags>>

-----------------------------------------------------------------------------
(* Placing a bid *)

\* The pair (bidder, key) is unique in bids and in sealed_bids, over all auctions.
KeyUsed(u, k) ==
  \/ \E b \in bids : b.bidder = u /\ b.key = k
  \/ \E a \in Auctions : sealedKey[a][u] = k

\* A bid of twice the current bid and three times the market value must be
\* confirmed; without a market value the first condition alone decides.
RequiresConfirmation(amount, current, value) ==
  /\ amount >= 2 * (IF current > 0 THEN current ELSE Unit)
  /\ value > 0 => amount >= 3 * value

\* The row returned by the UPDATE that seals an auction lacks the joined
\* market value, so a bid that seals the auction sees none.
MarketValueSeen(a, value) ==
  IF Promoted(auction[a]) = auction[a] THEN value ELSE 0

AsksConfirmation(a, amount, value) ==
  RequiresConfirmation(amount, auction[a].current, MarketValueSeen(a, value))

EqualBidAdmittedBug(u, a, amount, k) ==
  /\ ~KeyUsed(u, k)
  /\ auction[a].status \in LiveStatuses
  /\ auction[a].seller # u
  /\ auction[a].end > clock
  /\ amount >= AtLeast(Unit, auction[a].current)

BidAdmitted(u, a, amount, k) ==
  /\ ~KeyUsed(u, k)
  /\ auction[a].status \in LiveStatuses
  /\ auction[a].seller # u
  /\ auction[a].end > clock
  /\ amount >= MinimumBidFor(auction[a].current)

\* Answered with a request to confirm: only the sealing is committed.
AskConfirmation(u, a, amount, k, value) ==
  /\ BidAdmitted(u, a, amount, k)
  /\ AsksConfirmation(a, amount, value)
  /\ auction' = [auction EXCEPT ![a] = Promoted(@)]
  /\ UNCHANGED <<clock, balances, owner, market, sealed, sealedKey, bids,
                 settlement, flags>>

HiddenCommitmentOnlyBug(a, u) == sealed[a][u]

\* What the bidder already has held for the auction when a sealed bid arrives.
CurrentCommitment(a, u) ==
  IF sealed[a][u] > 0 THEN sealed[a][u]
  ELSE IF auction[a].leader = u THEN auction[a].current ELSE 0

\* delta cents move from available to held, or back if it is negative; the
\* balance row is read for update and the request fails unless it covers them.
FundsCover(u, delta) ==
  IF delta >= 0 THEN available[u] >= delta ELSE held[u] >= -delta

PlaceSealedBid(u, a, amount, k) ==
  LET delta == amount - CurrentCommitment(a, u) IN
  /\ Promoted(auction[a]).status = "SEALED_ENDGAME"
  /\ FundsCover(u, delta)
  /\ available' = [available EXCEPT ![u] = @ - delta]
  /\ held' = [held EXCEPT ![u] = @ + delta]
  /\ auction' = [auction EXCEPT ![a] = Promoted(@)]
  /\ sealed' = [sealed EXCEPT ![a][u] = amount]
  /\ sealedKey' = [sealedKey EXCEPT ![a][u] = k]
  /\ UNCHANGED <<clock, owner, market, bids, settlement, flags>>

\* A bid inside the trigger window pushes the end back, a limited number of
\* times; where a sealed phase follows, the window lies before that phase.
AntiSnipeThreshold(row) ==
  IF SealedEligible(row) THEN SealedWindow + AntiSnipeTrigger ELSE AntiSnipeTrigger

Extends(row) ==
  /\ row.end - clock <= AntiSnipeThreshold(row)
  /\ row.ext < MaxExtensions

WithOpenBid(row, u, amount) ==
  LET led == [row EXCEPT !.current = amount, !.leader = u] IN
  IF Extends(row)
  THEN [led EXCEPT !.end = @ + AntiSnipeSeconds, !.ext = @ + 1, !.status = "CLOSING"]
  ELSE led

\* The bidder pays the raise when already leading; otherwise the whole
\* amount is held and the displaced leader gets the old bid back.
PlaceOpenBid(u, a, amount, k) ==
  LET old   == auction[a].current
      loser == auction[a].leader
      need  == IF loser = u THEN amount - old ELSE amount
  IN
  /\ Promoted(auction[a]).status \in OpenStatuses
  /\ FundsCover(u, need)
  /\ loser \notin {u, NoUser} => held[loser] >= old
  /\ available' = [v \in Users |->
       CASE v = u -> available[v] - need
         [] v = loser /\ v # u -> available[v] + old
         [] OTHER -> available[v]]
  /\ held' = [v \in Users |->
       CASE v = u -> held[v] + need
         [] v = loser /\ v # u -> held[v] - old
         [] OTHER -> held[v]]
  /\ auction' = [auction EXCEPT ![a] = WithOpenBid(@, u, amount)]
  /\ bids' = bids \cup {[auction |-> a, bidder |-> u, key |-> k]}
  /\ UNCHANGED <<clock, owner, market, sealed, sealedKey, settlement, flags>>

PlaceBid(u, a, amount, k, confirm, value) ==
  \/ ~confirm /\ AskConfirmation(u, a, amount, k, value)
  \/ /\ BidAdmitted(u, a, amount, k)
     /\ AsksConfirmation(a, amount, value) => confirm
     /\ PlaceSealedBid(u, a, amount, k) \/ PlaceOpenBid(u, a, amount, k)

-----------------------------------------------------------------------------
(* Settlement: the worker closes what has expired and settles what is      *)
(* closed, all in one transaction                                          *)

EndgameNeverExpiresBug(a) == auction[a].status \in OpenStatuses /\ auction[a].end <= clock

Expired(a) == auction[a].status \in LiveStatuses /\ auction[a].end <= clock

Closed(a) == auction[a].status = "CLOSED" \/ Expired(a)

\* The oldest SettlementLimit closed auctions.
Batches ==
  LET due == {a \in Auctions : Closed(a)} IN
  {B \in SUBSET due :
     /\ Cardinality(B) = AtMost(SettlementLimit, Cardinality(due))
     /\ \A a \in B, b \in due \ B : auction[a].end <= auction[b].end}

\* Bidders with a sealed bid, and the open leader if without one.
Candidates(a) ==
  {u \in Users : sealed[a][u] > 0 \/ auction[a].leader = u}

CandidateMax(a, u) ==
  IF sealed[a][u] > 0 THEN sealed[a][u] ELSE auction[a].current

LowestFirstBug(a, S) ==
  CHOOSE w \in S : \A u \in S :
    \/ CandidateMax(a, w) < CandidateMax(a, u)
    \/ CandidateMax(a, w) = CandidateMax(a, u) /\ w <= u

\* The first of S in the order the candidates are sorted in.
TopOf(a, S) ==
  CHOOSE w \in S : \A u \in S :
    \/ CandidateMax(a, w) > CandidateMax(a, u)
    \/ CandidateMax(a, w) = CandidateMax(a, u) /\ w <= u

Winner(a) == IF Candidates(a) = {} THEN NoUser ELSE TopOf(a, Candidates(a))

UncappedPriceBug(a) ==
  LET w    == Winner(a)
      rest == Candidates(a) \ {w}
      next == CandidateMax(a, TopOf(a, rest))
  IN  IF rest # {} THEN next + MinIncrement(next) ELSE MinimumBidFor(auction[a].current)

ClearingPrice(a) ==
  LET w    == Winner(a)
      rest == Candidates(a) \ {w}
      next == CandidateMax(a, TopOf(a, rest))
      cur  == auction[a].current
  IN
  CASE rest # {} -> AtMost(CandidateMax(a, w), next + MinIncrement(next))
    [] rest = {} /\ w = auction[a].leader /\ cur > 0 -> cur
    [] OTHER -> AtMost(CandidateMax(a, w), MinimumBidFor(cur))

\* What each user has held for the auction, as the settlement reads it back.
HeldMax(a) == CandidateMax(a, Winner(a))

SealedLosersOnlyBug(a, u) ==
  IF u \notin Candidates(a) \/ u = Winner(a) THEN 0 ELSE sealed[a][u]

LosingRelease(a, u) ==
  IF u \notin Candidates(a) \/ u = Winner(a) THEN 0
  ELSE IF sealed[a][u] > 0 THEN sealed[a][u]
  ELSE auction[a].current

ExcessStaysHeldBug(a) == 0

ExcessHold(a) ==
  IF HeldMax(a) > ClearingPrice(a) THEN HeldMax(a) - ClearingPrice(a) ELSE 0

TradeFeeNetBug(a) == ClearingPrice(a) - TradeFee(ClearingPrice(a))

SellerNet(a) == ClearingPrice(a) - AuctionFee(ClearingPrice(a))

\* Taken from u's held column, and added to u's available column, by settling a.
Drawn(a, u) ==
  IF Winner(a) = NoUser THEN 0
  ELSE LosingRelease(a, u)
       + (IF u = Winner(a) THEN ExcessHold(a) + ClearingPrice(a) ELSE 0)

Credited(a, u) ==
  IF Winner(a) = NoUser THEN 0
  ELSE LosingRelease(a, u)
       + (IF u = Winner(a) THEN ExcessHold(a) ELSE 0)
       + (IF u = auction[a].seller THEN SellerNet(a) ELSE 0)
       + (IF u = Platform THEN AuctionFee(ClearingPrice(a)) ELSE 0)

DrawnBy(B, u) == Total([a \in Auctions |-> IF a \in B THEN Drawn(a, u) ELSE 0], NumAuctions)

CreditedBy(B, u) ==
  Total([a \in Auctions |-> IF a \in B THEN Credited(a, u) ELSE 0], NumAuctions)

SettlementOf(a) ==
  [winner |-> Winner(a), gross |-> ClearingPrice(a),
   fee |-> AuctionFee(ClearingPrice(a)), maxBid |-> HeldMax(a)]

\* Distinct open bidders plus distinct sealed bidders: one who bid in both
\* phases is counted twice, as in the code.
BidderCount(a) ==
  Cardinality({b.bidder : b \in {x \in bids : x.auction = a}})
  + Cardinality({u \in Users : sealed[a][u] > 0})

CommittedPairsOnlyBug(B, a) ==
  1 + Cardinality({b \in Auctions :
        auction[b].seller = auction[a].seller /\ settlement[b].winner = Winner(a)})

\* Sales of a's seller to a's winner up to and including a.
PairCount(B, a) ==
  Cardinality({b \in Auctions :
    /\ auction[b].seller = auction[a].seller
    /\ \/ settlement[b].winner = Winner(a)
       \/ /\ b \in B /\ Winner(b) = Winner(a)
          /\ \/ auction[b].end < auction[a].end
             \/ auction[b].end = auction[a].end /\ b <= a})

\* The flags of a sale; value is the market value of the card, 0 if none.
IntegrityFlags(B, a, value) ==
  {f \in FlagTypes :
    \/ /\ f = "REPEATED_SELLER_WINNER_PAIR"
       /\ PairCount(B, a) >= PairThreshold
    \/ /\ f = "LOW_CLOSE_WITHOUT_COMPETITION"
       /\ value > 0
       /\ 100 * ClearingPrice(a) < 65 * value
       /\ BidderCount(a) <= 1
    \/ /\ f = "SEALED_ENDGAME_LOW_COMPETITION"
       /\ auction[a].sealedPhase
       /\ BidderCount(a) <= 2
    \/ /\ f = "MICRO_BID_LADDER"
       /\ \E u \in Users :
            Cardinality({b \in bids : b.auction = a /\ b.bidder = u}) >= LadderThreshold}

SettledIsReclosedBug(B, a) ==
  a \notin B /\ auction[a].status # "FREE" /\ auction[a].end <= clock

\* What closes but has to wait for a later batch.
IsClosedOnly(B, a) == a \notin B /\ Expired(a)

\* The transaction aborts unless every held column covers what is drawn.
Settle(B, value) ==
  LET sold == {a \in B : Winner(a) # NoUser} IN
  /\ \A u \in Users : held[u] >= DrawnBy(B, u)
  /\ available' = [u \in Users |-> available[u] + CreditedBy(B, u)]
  /\ held' = [u \in Users |-> held[u] - DrawnBy(B, u)]
  /\ auction' = [a \in Auctions |->
       CASE a \in B -> [auction[a] EXCEPT !.status = "SETTLED"]
         [] IsClosedOnly(B, a) -> [auction[a] EXCEPT !.status = "CLOSED"]
         [] OTHER -> auction[a]]
  /\ owner' = [c \in Cards |->
       IF \E a \in sold : auction[a].card = c
       THEN Winner(CHOOSE a \in sold : auction[a].card = c)
       ELSE owner[c]]
  /\ market' = [c \in Cards |->
       IF \E a \in B : auction[a].card = c THEN NotInMarket ELSE market[c]]
  /\ settlement' = [a \in Auctions |->
       IF a \in sold THEN SettlementOf(a) ELSE settlement[a]]
  /\ flags' = [a \in Auctions |->
       IF a \in sold THEN IntegrityFlags(B, a, value[auction[a].card]) ELSE flags[a]]
  /\ UNCHANGED <<clock, sealed, sealedKey, bids>>

SettlementTick ==
  /\ \E a \in Auctions : Closed(a)
  /\ \E B \in Batches, value \in [Cards -> MarketValues] : Settle(B, value)

-----------------------------------------------------------------------------
Next ==
  \/ Tick
  \/ GetLiveAuctions
  \/ \E a \in Auctions : GetAuctionSnapshot(a)
  \/ \E u \in Users, c \in Cards, d \in Durations : CreateAuction(u, c, d)
  \/ \E u \in Users, a \in Auctions, amount \in BidAmounts, k \in Keys,
        confirm \in BOOLEAN, value \in MarketValues :
       PlaceBid(u, a, amount, k, confirm, value)
  \/ SettlementTick

Spec == Init /\ [][Next]_vars

\* Time passes and the settlement worker runs every five seconds; nobody is
\* obliged to bid, to create an auction or to look at one.
Fairness == WF_vars(Tick) /\ WF_vars(SettlementTick)

FairSpec == Spec /\ Fairness

-----------------------------------------------------------------------------
(* Properties *)

TypeOK ==
  /\ clock \in Nat
  /\ available \in [Users -> Nat]
  /\ held \in [Users -> Nat]
  /\ owner \in [Cards -> Users]
  /\ market \in [Cards -> [state : {"NONE", "IN_AUCTION"},
                           auction : Auctions \cup {NoAuction}]]
  /\ auction \in [Auctions -> AuctionRow]
  /\ sealed \in [Auctions -> [Users -> Nat]]
  /\ sealedKey \in [Auctions -> [Users -> Keys \cup {NoKey}]]
  /\ bids \subseteq [auction : Auctions, bidder : Users, key : Keys]
  /\ settlement \in [Auctions -> SettlementRow]
  /\ flags \in [Auctions -> SUBSET FlagTypes]

Unsettled(a) == auction[a].status \in LiveStatuses \cup {"CLOSED"}

\* What the tables say u has at stake in a: a sealed maximum counts instead of
\* the open bid it replaces; a settled auction holds nothing.
Pledge(a, u) ==
  CASE ~Unsettled(a) -> 0
    [] Unsettled(a) /\ sealed[a][u] > 0 -> sealed[a][u]
    [] Unsettled(a) /\ sealed[a][u] = 0 /\ auction[a].leader = u -> auction[a].current
    [] OTHER -> 0

\* The held column of every user is exactly what the auctions not yet settled
\* say they have pledged: over raises, outbidding, sealed replacements in both
\* directions and settlements, no cent stays held that no auction accounts
\* for, and none is released twice.
HeldMatchesPledges ==
  \A u \in Users : held[u] = Total([a \in Auctions |-> Pledge(a, u)], NumAuctions)

\* Bids and settlements move money between users and columns, fees included,
\* and neither create nor destroy a cent: rounding a fee is paid by the seller.
MoneyConserved ==
  Total([u \in Users |-> available[u] + held[u]], NumUsers)
    = (NumUsers - 1) * StartingBalance

\* "Held balance underflow" cannot abort the settlement transaction: at any
\* moment all unsettled auctions together could be settled out of the held
\* columns, so one auction can never block the settlement of the others.
SettlementNeverAborts ==
  \A u \in Users : held[u] >= DrawnBy({a \in Auctions : Unsettled(a)}, u)

\* Hidden maxima exist only in auctions whose open phase is over, and each
\* beats the visible price, which stopped moving when the phase began.
SealedBidsBeatOpenBid ==
  \A a \in Auctions, u \in Users : sealed[a][u] > 0 =>
    /\ auction[a].status \notin OpenStatuses \cup {"FREE"}
    /\ sealed[a][u] >= MinimumBidFor(auction[a].current)

\* The sale at second price: the winner pays no more than the maximum he gave,
\* no less than the visible price, and no loser had offered more; the seller
\* never buys his own card.
SalesAreFair ==
  \A a \in Auctions : settlement[a].winner # NoUser =>
    LET s == settlement[a]
        others == {u \in Users : sealed[a][u] > 0 \/ auction[a].leader = u} \ {s.winner}
    IN
    /\ s.gross <= s.maxBid
    /\ s.gross >= AtLeast(Unit, auction[a].current)
    /\ \A u \in others :
         s.gross >= IF sealed[a][u] > 0 THEN sealed[a][u] ELSE auction[a].current
    /\ s.winner # auction[a].seller
    /\ s.fee <= s.gross

\* An auction too short for a sealed phase never gets one, however often late
\* bids extend it.
ShortAuctionsStayOpen ==
  \A a \in Auctions : auction[a].sealedPhase =>
    \E d \in Durations, n \in 0..MaxExtensions :
      /\ d >= SealedMinDuration
      /\ auction[a].end - auction[a].start = d + n * AntiSnipeSeconds

\* In the last minute of an auction long enough for a sealed phase no visible
\* bid is taken, whether or not anybody looked at the auction to seal it.
EndgameIsBlind ==
  [][\A a \in Auctions :
       /\ auction'[a].current # auction[a].current
       /\ auction[a].end - auction[a].start - auction[a].ext * AntiSnipeSeconds
            >= SealedMinDuration
       => auction[a].end - clock > SealedWindow]_vars

\* A settled auction is done: no later tick, bid or read touches the row, its
\* sale or its flags, so nobody is paid twice.
SettledIsFinal ==
  [][\A a \in Auctions : auction[a].status = "SETTLED" =>
       /\ auction'[a] = auction[a]
       /\ settlement'[a] = settlement[a]
       /\ flags'[a] = flags[a]
       /\ sealed'[a] = sealed[a]]_vars

\* From the PairThreshold-th sale of one seller to one winner on, every further
\* sale is flagged, also when one tick settles several of them.
RepeatedPairsAreFlagged ==
  \A s, w \in Users :
    LET sales == {a \in Auctions : auction[a].seller = s /\ settlement[a].winner = w}
        flagged == {a \in sales : "REPEATED_SELLER_WINNER_PAIR" \in flags[a]}
        expected == Cardinality(sales) - PairThreshold + 1
    IN  Cardinality(flagged) = AtLeast(0, expected)

\* Extensions are bounded and the settlement worker keeps running, so every
\* auction is settled in the end.
EveryAuctionSettles ==
  \A a \in Auctions :
    auction[a].status \in LiveStatuses ~> auction[a].status = "SETTLED"

=============================================================================
