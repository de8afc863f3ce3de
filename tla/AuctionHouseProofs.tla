------------------------- MODULE AuctionHouseProofs -------------------------
(***************************************************************************)
(* Proofs about the auction service, for any number of users, cards and    *)
(* auctions and any amounts, durations and time constants.                 *)
(***************************************************************************)
EXTENDS AuctionRefinement, ArithmeticProofs

-----------------------------------------------------------------------------
(* Winners and prices *)

LEMMA TopOfIsTop ==
  ASSUME TypeOK, NEW a \in Auctions, NEW C, C \subseteq Users, C # {}
  PROVE  /\ TopOf(a, C) \in C
         /\ \A u \in C : CandidateMax(a, u) <= CandidateMax(a, TopOf(a, C))
<1> DEFINE f == [u \in Users |-> CandidateMax(a, u)]
<1>1. \A u \in Users : CandidateMax(a, u) \in Nat
  BY DEF TypeOK, CandidateMax, AuctionRow
<1>2. \E w \in C : \A u \in C : f[w] > f[u] \/ (f[w] = f[u] /\ w <= u)
  <2>1. \A u \in 1..NumUsers : f[u] \in Nat
    BY <1>1 DEF Users
  <2>2. NumUsers \in Nat /\ C \subseteq 1..NumUsers
    BY SizesAssumption DEF Users
  <2> HIDE DEF f
  <2> QED BY <2>1, <2>2, TopExists
<1>3. \E w \in C : \A u \in C :
        \/ CandidateMax(a, w) > CandidateMax(a, u)
        \/ CandidateMax(a, w) = CandidateMax(a, u) /\ w <= u
  <2>1. \A u \in C : f[u] = CandidateMax(a, u)
    OBVIOUS
  <2> HIDE DEF f
  <2> QED BY <1>2, <2>1
<1>4. /\ TopOf(a, C) \in C
      /\ \A u \in C :
           \/ CandidateMax(a, TopOf(a, C)) > CandidateMax(a, u)
           \/ CandidateMax(a, TopOf(a, C)) = CandidateMax(a, u) /\ TopOf(a, C) <= u
  BY <1>3 DEF TopOf
<1> HIDE DEF f
<1> QED BY <1>1, <1>4

\* The winner is a candidate nobody outbids, and there is none only when
\* nobody has anything in the auction.
LEMMA WinnerIsTop ==
  ASSUME TypeOK, NEW a \in Auctions
  PROVE  /\ Winner(a) \in Users \cup {NoUser}
         /\ Winner(a) = NoUser <=> Candidates(a) = {}
         /\ Winner(a) # NoUser =>
              /\ Winner(a) \in Users
              /\ Winner(a) \in Candidates(a)
              /\ \A u \in Candidates(a) : CandidateMax(a, u) <= HeldMax(a)
<1>1. Candidates(a) \subseteq Users /\ NoUser \notin Users
  BY DEF Candidates, NoUser, Users
<1>2. CASE Candidates(a) = {}
  BY <1>2 DEF Winner
<1>3. CASE Candidates(a) # {}
  <2>1. Winner(a) = TopOf(a, Candidates(a))
    BY <1>3 DEF Winner
  <2>2. /\ TopOf(a, Candidates(a)) \in Candidates(a)
        /\ \A u \in Candidates(a) :
             CandidateMax(a, u) <= CandidateMax(a, TopOf(a, Candidates(a)))
    BY <1>1, <1>3, TopOfIsTop
  <2> QED BY <1>1, <1>3, <2>1, <2>2 DEF HeldMax
<1> QED BY <1>2, <1>3

\* Second price: never above the winner's maximum unless he alone is in it,
\* leads, and his maximum is below the visible price.
LEMMA ClearingPriceBounds ==
  ASSUME TypeOK, NEW a \in Auctions, Winner(a) # NoUser
  PROVE  /\ HeldMax(a) \in Nat
         /\ ClearingPrice(a) \in Nat
         /\ auction[a].current <= HeldMax(a) => ClearingPrice(a) <= HeldMax(a)
<1> DEFINE w == Winner(a)
           rest == Candidates(a) \ {w}
           next == CandidateMax(a, TopOf(a, rest))
           cur == auction[a].current
<1>1. \A u \in Users : CandidateMax(a, u) \in Nat
  BY DEF TypeOK, CandidateMax, AuctionRow
<1>2. HeldMax(a) \in Nat
  BY <1>1, WinnerIsTop DEF HeldMax
<1>3. cur \in Nat /\ MinimumBidFor(cur) \in Nat
  BY MinimumBidGrows DEF TypeOK, AuctionRow
<1>4. CASE rest # {}
  <2>1. rest \subseteq Users
    BY DEF Candidates
  <2>2. next \in Nat /\ MinIncrement(next) \in Nat
    BY <1>1, <1>4, <2>1, TopOfIsTop, IncrementType
  <2>3. ClearingPrice(a) = AtMost(HeldMax(a), next + MinIncrement(next))
    BY <1>4 DEF ClearingPrice, HeldMax
  <2> QED BY <1>2, <2>2, <2>3 DEF AtMost
<1>5. CASE rest = {} /\ w = auction[a].leader /\ cur > 0
  <2>1. ClearingPrice(a) = cur
    BY <1>5 DEF ClearingPrice
  <2> QED BY <1>2, <1>3, <2>1
<1>6. CASE rest = {} /\ ~(w = auction[a].leader /\ cur > 0)
  <2>1. ClearingPrice(a) = AtMost(HeldMax(a), MinimumBidFor(cur))
    BY <1>6 DEF ClearingPrice, HeldMax
  <2> QED BY <1>2, <1>3, <2>1 DEF AtMost
<1> QED BY <1>4, <1>5, <1>6

LEMMA SettlementAmounts ==
  ASSUME TypeOK, NEW a \in Auctions
  PROVE  \A u \in Users : Drawn(a, u) \in Nat /\ Credited(a, u) \in Nat
<1> SUFFICES ASSUME NEW u \in Users
             PROVE  Drawn(a, u) \in Nat /\ Credited(a, u) \in Nat
  OBVIOUS
<1>1. CASE Winner(a) = NoUser
  BY <1>1 DEF Drawn, Credited
<1>2. CASE Winner(a) # NoUser
  <2>1. LosingRelease(a, u) \in Nat
    BY DEF LosingRelease, TypeOK, AuctionRow
  <2>2. ClearingPrice(a) \in Nat /\ HeldMax(a) \in Nat
    BY <1>2, ClearingPriceBounds
  <2>3. ExcessHold(a) \in Nat
    BY <2>2 DEF ExcessHold
  <2>4. AuctionFee(ClearingPrice(a)) \in Nat /\ SellerNet(a) \in Nat
    BY <2>2, AuctionFeeBound DEF SellerNet
  <2> QED BY <1>2, <2>1, <2>2, <2>3, <2>4 DEF Drawn, Credited
<1> QED BY <1>1, <1>2

LEMMA BatchAmounts ==
  ASSUME TypeOK, NEW B \in SUBSET Auctions, NEW u \in Users
  PROVE  DrawnBy(B, u) \in Nat /\ CreditedBy(B, u) \in Nat
<1> DEFINE d == [a \in Auctions |-> IF a \in B THEN Drawn(a, u) ELSE 0]
           c == [a \in Auctions |-> IF a \in B THEN Credited(a, u) ELSE 0]
<1>1. \A i \in 1..NumAuctions : /\ d[i] \in Int /\ d[i] >= 0
                                /\ c[i] \in Int /\ c[i] >= 0
  BY SettlementAmounts DEF Auctions
<1>2. NumAuctions \in Nat
  BY SizesAssumption
<1>3. DrawnBy(B, u) = Total(d, NumAuctions) /\ CreditedBy(B, u) = Total(c, NumAuctions)
  BY DEF DrawnBy, CreditedBy
<1> HIDE DEF d, c
<1>4. /\ Total(d, NumAuctions) \in Int /\ Total(d, NumAuctions) >= 0
      /\ Total(c, NumAuctions) \in Int /\ Total(c, NumAuctions) >= 0
  BY <1>1, <1>2, TotalType
<1> QED BY <1>3, <1>4

-----------------------------------------------------------------------------
(* Type correctness, one lemma per action with something to prove *)

\* Rows stay rows when a field is given a value of its type.
LEMMA RowUpdates ==
  ASSUME NEW row \in AuctionRow
  PROVE  /\ \A s \in Statuses : [row EXCEPT !.status = s] \in AuctionRow
         /\ \A n \in Nat, u \in Users :
              [row EXCEPT !.current = n, !.leader = u] \in AuctionRow
         /\ \A e, x \in Nat, s \in Statuses :
              [row EXCEPT !.end = e, !.ext = x, !.status = s] \in AuctionRow
         /\ \A s \in Statuses : [row EXCEPT !.status = s, !.sealedPhase = TRUE] \in AuctionRow
<1>1. \A s \in Statuses : [row EXCEPT !.status = s] \in AuctionRow
  BY DEF AuctionRow
<1>2. \A n \in Nat, u \in Users : [row EXCEPT !.current = n, !.leader = u] \in AuctionRow
  BY DEF AuctionRow
<1>3. \A e, x \in Nat, s \in Statuses :
        [row EXCEPT !.end = e, !.ext = x, !.status = s] \in AuctionRow
  BY DEF AuctionRow
<1>4. \A s \in Statuses : [row EXCEPT !.status = s, !.sealedPhase = TRUE] \in AuctionRow
  BY DEF AuctionRow
<1> QED BY <1>1, <1>2, <1>3, <1>4

LEMMA SealType ==
  ASSUME TypeOK, NEW a \in Auctions
  PROVE  /\ Seal(auction[a]) \in AuctionRow
         /\ Promoted(auction[a]) \in AuctionRow
<1>1. auction[a] \in AuctionRow
  BY DEF TypeOK
<1>2. "SEALED_ENDGAME" \in Statuses
  BY DEF Statuses
<1>3. Seal(auction[a]) \in AuctionRow
  BY <1>1, <1>2, RowUpdates DEF Seal
<1> QED BY <1>1, <1>3 DEF Promoted

LEMMA SealAllType ==
  ASSUME TypeOK, NEW S, SealAll(S)
  PROVE  TypeOK'
<1>1. auction' \in [Auctions -> AuctionRow]
  BY SealType DEF SealAll, TypeOK
<1> QED BY <1>1 DEF SealAll, TypeOK, balances

LEMMA CreateType ==
  ASSUME TypeOK, NEW u \in Users, NEW c \in Cards, NEW d \in Durations,
         CreateAuction(u, c, d)
  PROVE  TypeOK'
<1>1. PICK a \in Auctions :
        /\ auction' = [auction EXCEPT ![a] =
             [FreeAuction EXCEPT !.status = "LIVE", !.card = c, !.seller = u,
                                 !.start = clock, !.end = clock + d]]
        /\ market' = [market EXCEPT ![c] = [state |-> "IN_AUCTION", auction |-> a]]
  BY DEF CreateAuction
<1>2. clock + d \in Nat
  BY TimeAssumption DEF TypeOK
<1>3. auction' \in [Auctions -> AuctionRow]
  BY <1>1, <1>2 DEF TypeOK, AuctionRow, FreeAuction, Statuses, NoUser
<1>4. market' \in [Cards -> [state : {"NONE", "IN_AUCTION"},
                             auction : Auctions \cup {NoAuction}]]
  BY <1>1 DEF TypeOK
<1> QED BY <1>3, <1>4 DEF CreateAuction, TypeOK, balances

LEMMA SealedBidType ==
  ASSUME TypeOK, NEW u \in Users, NEW a \in Auctions, NEW amount \in BidAmounts,
         NEW k \in Keys, PlaceSealedBid(u, a, amount, k)
  PROVE  TypeOK'
<1> DEFINE delta == amount - CurrentCommitment(a, u)
<1>1. CurrentCommitment(a, u) \in Nat
  BY DEF CurrentCommitment, TypeOK, AuctionRow
<1>2. amount \in Nat /\ delta \in Int
  BY <1>1, MoneyAssumption
<1>3. available[u] - delta \in Nat /\ held[u] + delta \in Nat
  BY <1>2 DEF PlaceSealedBid, FundsCover, TypeOK
<1>4. available' \in [Users -> Nat] /\ held' \in [Users -> Nat]
  <2> HIDE DEF delta
  <2>1. available' = [available EXCEPT ![u] = @ - delta] /\ held' = [held EXCEPT ![u] = @ + delta]
    BY DEF PlaceSealedBid, delta
  <2> QED BY <1>3, <2>1 DEF TypeOK
<1>5. auction' \in [Auctions -> AuctionRow]
  BY SealType DEF PlaceSealedBid, TypeOK
<1>6. /\ sealed' \in [Auctions -> [Users -> Nat]]
      /\ sealedKey' \in [Auctions -> [Users -> Keys \cup {NoKey}]]
  BY <1>2 DEF PlaceSealedBid, TypeOK
<1> QED BY <1>4, <1>5, <1>6 DEF PlaceSealedBid, TypeOK

LEMMA OpenBidType ==
  ASSUME TypeOK, NEW u \in Users, NEW a \in Auctions, NEW amount \in BidAmounts,
         NEW k \in Keys, BidAdmitted(u, a, amount, k), PlaceOpenBid(u, a, amount, k)
  PROVE  TypeOK'
<1> DEFINE old == auction[a].current
           loser == auction[a].leader
           need == IF loser = u THEN amount - old ELSE amount
<1>1. amount \in Nat /\ old \in Nat /\ amount >= old
  BY MoneyAssumption, MinimumBidGrows DEF BidAdmitted, TypeOK, AuctionRow, Unit
<1>2. need \in Nat /\ need <= available[u]
  <2>1. need \in Nat
    BY <1>1
  <2>2. FundsCover(u, need)
    BY DEF PlaceOpenBid
  <2> HIDE DEF need
  <2> QED BY <2>1, <2>2 DEF FundsCover
<1>3. available' \in [Users -> Nat] /\ held' \in [Users -> Nat]
  <2>1. ASSUME NEW v \in Users PROVE available'[v] \in Nat /\ held'[v] \in Nat
    <3>1. CASE v = u
      BY <1>1, <1>2, <3>1 DEF PlaceOpenBid, TypeOK
    <3>2. CASE v # u /\ v = loser
      <4>1. loser \notin {u, NoUser}
        BY <3>2 DEF NoUser, Users
      <4>2. held[v] >= old
        BY <3>2, <4>1 DEF PlaceOpenBid
      <4>3. available'[v] = available[v] + old /\ held'[v] = held[v] - old
        BY <3>2 DEF PlaceOpenBid
      <4>4. available[v] \in Nat /\ held[v] \in Nat
        BY DEF TypeOK
      <4> QED BY <1>1, <4>2, <4>3, <4>4
    <3>3. CASE v # u /\ v # loser
      BY <3>3 DEF PlaceOpenBid, TypeOK
    <3> QED BY <3>1, <3>2, <3>3
  <2>2. /\ available' = [v \in Users |-> available'[v]]
        /\ held' = [v \in Users |-> held'[v]]
    BY DEF PlaceOpenBid
  <2> QED BY <2>1, <2>2
<1>4. WithOpenBid(auction[a], u, amount) \in AuctionRow
  <2> DEFINE led == [auction[a] EXCEPT !.current = amount, !.leader = u]
  <2>1. led \in AuctionRow
    <3>1. auction[a] \in AuctionRow
      BY DEF TypeOK
    <3> QED BY <1>1, <3>1, RowUpdates
  <2> HIDE DEF led
  <2>2. [led EXCEPT !.end = @ + AntiSnipeSeconds, !.ext = @ + 1, !.status = "CLOSING"]
          \in AuctionRow
    <3>1. led.end + AntiSnipeSeconds \in Nat /\ led.ext + 1 \in Nat
      BY <2>1, TimeAssumption DEF AuctionRow
    <3>2. "CLOSING" \in Statuses
      BY DEF Statuses
    <3>3. \A e, x \in Nat :
            [led EXCEPT !.end = e, !.ext = x, !.status = "CLOSING"] \in AuctionRow
      BY <2>1, <3>2, RowUpdates
    <3> QED BY <3>1, <3>3
  <2> QED BY <2>1, <2>2 DEF WithOpenBid, led
<1>5. auction' \in [Auctions -> AuctionRow]
  BY <1>4 DEF PlaceOpenBid, TypeOK
<1>6. bids' \subseteq [auction : Auctions, bidder : Users, key : Keys]
  BY DEF PlaceOpenBid, TypeOK
<1> QED BY <1>3, <1>5, <1>6 DEF PlaceOpenBid, TypeOK

LEMMA SettleType ==
  ASSUME TypeOK, NEW B \in SUBSET Auctions, NEW value, Settle(B, value)
  PROVE  TypeOK'
<1>1. available' \in [Users -> Nat] /\ held' \in [Users -> Nat]
  <2>1. ASSUME NEW u \in Users
        PROVE  available[u] + CreditedBy(B, u) \in Nat /\ held[u] - DrawnBy(B, u) \in Nat
    <3>1. DrawnBy(B, u) \in Nat /\ CreditedBy(B, u) \in Nat
      BY BatchAmounts
    <3>2. held[u] >= DrawnBy(B, u)
      BY DEF Settle
    <3>3. available[u] \in Nat /\ held[u] \in Nat
      BY DEF TypeOK
    <3> QED BY <3>1, <3>2, <3>3
  <2> QED BY <2>1 DEF Settle
<1>2. auction' \in [Auctions -> AuctionRow]
  <2>1. \A a \in Auctions : /\ [auction[a] EXCEPT !.status = "SETTLED"] \in AuctionRow
                            /\ [auction[a] EXCEPT !.status = "CLOSED"] \in AuctionRow
    <3>1. "SETTLED" \in Statuses /\ "CLOSED" \in Statuses
      BY DEF Statuses
    <3>2. \A a \in Auctions : auction[a] \in AuctionRow
      BY DEF TypeOK
    <3> QED BY <3>1, <3>2, RowUpdates
  <2>2. \A a \in Auctions : auction[a] \in AuctionRow
    BY DEF TypeOK
  <2>3. auction' = [a \in Auctions |->
          CASE a \in B -> [auction[a] EXCEPT !.status = "SETTLED"]
            [] IsClosedOnly(B, a) -> [auction[a] EXCEPT !.status = "CLOSED"]
            [] OTHER -> auction[a]]
    BY DEF Settle
  <2>4. ASSUME NEW a \in Auctions PROVE auction'[a] \in AuctionRow
    <3>1. CASE a \in B
      BY <2>1, <2>3, <3>1 DEF IsClosedOnly
    <3>2. CASE IsClosedOnly(B, a)
      BY <2>1, <2>3, <3>2 DEF IsClosedOnly
    <3>3. CASE a \notin B /\ ~IsClosedOnly(B, a)
      BY <2>2, <2>3, <3>3
    <3> QED BY <3>1, <3>2, <3>3
  <2> QED BY <2>3, <2>4
<1>3. owner' \in [Cards -> Users]
  <2>1. \A a \in Auctions : Winner(a) # NoUser => Winner(a) \in Users
    BY WinnerIsTop
  <2>2. ASSUME NEW c \in Cards PROVE owner'[c] \in Users
    BY <2>1 DEF Settle, TypeOK
  <2> QED BY <2>2 DEF Settle
<1>4. market' \in [Cards -> [state : {"NONE", "IN_AUCTION"},
                             auction : Auctions \cup {NoAuction}]]
  BY DEF Settle, TypeOK, NotInMarket
<1>5. settlement' \in [Auctions -> SettlementRow]
  <2>1. ASSUME NEW a \in Auctions, Winner(a) # NoUser
        PROVE  SettlementOf(a) \in SettlementRow
    <3>1. Winner(a) \in Users
      BY <2>1, WinnerIsTop
    <3>2. ClearingPrice(a) \in Nat /\ HeldMax(a) \in Nat
      BY <2>1, ClearingPriceBounds
    <3>3. AuctionFee(ClearingPrice(a)) \in Nat
      BY <3>2, AuctionFeeBound
    <3> QED BY <3>1, <3>2, <3>3 DEF SettlementOf, SettlementRow
  <2> QED BY <2>1 DEF Settle, TypeOK
<1>6. flags' \in [Auctions -> SUBSET FlagTypes]
  <2>1. \A a \in Auctions : \A v : IntegrityFlags(B, a, v) \in SUBSET FlagTypes
    BY DEF IntegrityFlags
  <2> QED BY <2>1 DEF Settle, TypeOK
<1> QED BY <1>1, <1>2, <1>3, <1>4, <1>5, <1>6 DEF Settle, TypeOK

LEMMA BidType ==
  ASSUME TypeOK, NEW u \in Users, NEW a \in Auctions, NEW amount \in BidAmounts,
         NEW k \in Keys, NEW confirm, NEW value,
         PlaceBid(u, a, amount, k, confirm, value)
  PROVE  TypeOK'
<1>1. CASE AskConfirmation(u, a, amount, k, value)
  <2>1. auction' \in [Auctions -> AuctionRow]
    BY <1>1, SealType DEF AskConfirmation, TypeOK
  <2> QED BY <1>1, <2>1 DEF AskConfirmation, TypeOK, balances
<1>2. CASE PlaceSealedBid(u, a, amount, k)
  BY <1>2, SealedBidType
<1>3. CASE BidAdmitted(u, a, amount, k) /\ PlaceOpenBid(u, a, amount, k)
  BY <1>3, OpenBidType
<1> QED BY <1>1, <1>2, <1>3 DEF PlaceBid

LEMMA InitType == Init => TypeOK
BY SizesAssumption DEF Init, TypeOK, AuctionRow, FreeAuction, Statuses, NoUser,
   NoSettlement, SettlementRow, NotInMarket, Cards

LEMMA NextType == TypeOK /\ [Next]_vars => TypeOK'
<1> SUFFICES ASSUME TypeOK, [Next]_vars PROVE TypeOK'
  OBVIOUS
<1>1. CASE Tick
  BY <1>1, TimeAssumption DEF Tick, TypeOK, balances
<1>2. CASE GetLiveAuctions
  BY <1>2, SealAllType DEF GetLiveAuctions
<1>3. ASSUME NEW a \in Auctions, GetAuctionSnapshot(a) PROVE TypeOK'
  BY <1>3, SealAllType DEF GetAuctionSnapshot
<1>4. ASSUME NEW u \in Users, NEW c \in Cards, NEW d \in Durations, CreateAuction(u, c, d)
      PROVE  TypeOK'
  BY <1>4, CreateType
<1>5. ASSUME NEW u \in Users, NEW a \in Auctions, NEW amount \in BidAmounts, NEW k \in Keys,
             NEW confirm \in BOOLEAN, NEW value \in MarketValues,
             PlaceBid(u, a, amount, k, confirm, value)
      PROVE  TypeOK'
  BY <1>5, BidType
<1>6. CASE SettlementTick
  <2>1. PICK B \in Batches, value \in [Cards -> MarketValues] : Settle(B, value)
    BY <1>6 DEF SettlementTick
  <2>2. B \in SUBSET Auctions
    BY DEF Batches
  <2> QED BY <2>1, <2>2, SettleType
<1>7. CASE UNCHANGED vars
  BY <1>7 DEF vars, TypeOK
<1> QED BY <1>1, <1>2, <1>3, <1>4, <1>5, <1>6, <1>7 DEF Next

\* Every reachable state is well typed: no balance column is ever negative,
\* no price or end of an auction leaves the naturals, the winner of a sale is
\* a user.  For any number of users, cards and auctions.
THEOREM TypeCorrect == Spec => []TypeOK
<1>1. Init => TypeOK
  BY InitType
<1>2. TypeOK /\ [Next]_vars => TypeOK'
  BY NextType
<1> QED BY <1>1, <1>2, PTL DEF Spec

-----------------------------------------------------------------------------
(* Hidden maxima *)

LEMMA SealFacts ==
  ASSUME TypeOK, NEW a \in Auctions
  PROVE  /\ Seal(auction[a]).current = auction[a].current
         /\ Seal(auction[a]).leader = auction[a].leader
         /\ Seal(auction[a]).seller = auction[a].seller
         /\ Seal(auction[a]).card = auction[a].card
         /\ Seal(auction[a]).status = "SEALED_ENDGAME"
BY DEF TypeOK, AuctionRow, Seal

LEMMA PromotedFacts ==
  ASSUME TypeOK, NEW a \in Auctions
  PROVE  /\ Promoted(auction[a]).current = auction[a].current
         /\ Promoted(auction[a]).leader = auction[a].leader
         /\ Promoted(auction[a]).seller = auction[a].seller
         /\ Promoted(auction[a]).card = auction[a].card
         /\ \/ Promoted(auction[a]).status = auction[a].status
            \/ /\ auction[a].status \in OpenStatuses
               /\ Promoted(auction[a]).status = "SEALED_ENDGAME"
<1>1. CASE auction[a].status \in OpenStatuses /\ InSealedWindow(auction[a])
  <2>1. Promoted(auction[a]) = Seal(auction[a])
    BY <1>1 DEF Promoted
  <2> QED BY <1>1, <2>1, SealFacts
<1>2. CASE ~(auction[a].status \in OpenStatuses /\ InSealedWindow(auction[a]))
  <2>1. Promoted(auction[a]) = auction[a]
    BY <1>2 DEF Promoted
  <2> QED BY <2>1
<1> QED BY <1>1, <1>2

\* A bid that stays visible keeps the auction in its open phase.
LEMMA OpenBidFacts ==
  ASSUME TypeOK, NEW a \in Auctions, NEW u, NEW amount
  PROVE  LET row == WithOpenBid(auction[a], u, amount) IN
         /\ row.current = amount
         /\ row.leader = u
         /\ auction[a].status \in OpenStatuses => row.status \in OpenStatuses
BY DEF TypeOK, AuctionRow, WithOpenBid, OpenStatuses

LEMMA SealedInit == Init => SealedBidsBeatOpenBid
BY DEF Init, SealedBidsBeatOpenBid

LEMMA SealAllKeepsSealed ==
  ASSUME TypeOK, SealedBidsBeatOpenBid, NEW S, SealAll(S)
  PROVE  SealedBidsBeatOpenBid'
<1> SUFFICES ASSUME NEW a \in Auctions, NEW u \in Users, sealed'[a][u] > 0
             PROVE  /\ auction'[a].status \notin OpenStatuses \cup {"FREE"}
                    /\ sealed'[a][u] >= MinimumBidFor(auction'[a].current)
  BY DEF SealedBidsBeatOpenBid
<1>1. sealed'[a][u] = sealed[a][u]
  BY DEF SealAll
<1>2. auction'[a] = auction[a] \/ auction'[a] = Seal(auction[a])
  BY DEF SealAll, TypeOK
<1> QED BY <1>1, <1>2, SealFacts DEF SealedBidsBeatOpenBid, OpenStatuses

LEMMA CreateKeepsSealed ==
  ASSUME TypeOK, SealedBidsBeatOpenBid, NEW u, NEW c, NEW d, CreateAuction(u, c, d)
  PROVE  SealedBidsBeatOpenBid'
<1>1. PICK a \in Auctions :
        /\ auction[a].status = "FREE"
        /\ auction' = [auction EXCEPT ![a] =
             [FreeAuction EXCEPT !.status = "LIVE", !.card = c, !.seller = u,
                                 !.start = clock, !.end = clock + d]]
  BY DEF CreateAuction
<1>2. \A v \in Users : ~(sealed[a][v] > 0)
  BY <1>1 DEF SealedBidsBeatOpenBid
<1>3. sealed' = sealed
  BY DEF CreateAuction
<1>4. \A b \in Auctions \ {a} : auction'[b] = auction[b]
  BY <1>1 DEF TypeOK
<1> QED BY <1>2, <1>3, <1>4 DEF SealedBidsBeatOpenBid

LEMMA BidKeepsSealed ==
  ASSUME TypeOK, SealedBidsBeatOpenBid,
         NEW u \in Users, NEW a \in Auctions, NEW amount \in BidAmounts,
         NEW k \in Keys, NEW confirm, NEW value,
         PlaceBid(u, a, amount, k, confirm, value)
  PROVE  SealedBidsBeatOpenBid'
<1> SUFFICES ASSUME NEW b \in Auctions, NEW v \in Users, sealed'[b][v] > 0
             PROVE  /\ auction'[b].status \notin OpenStatuses \cup {"FREE"}
                    /\ sealed'[b][v] >= MinimumBidFor(auction'[b].current)
  BY DEF SealedBidsBeatOpenBid
<1>1. CASE AskConfirmation(u, a, amount, k, value)
  <2>1. sealed'[b][v] = sealed[b][v]
    BY <1>1 DEF AskConfirmation
  <2>2. auction'[b] = auction[b] \/ (b = a /\ auction'[b] = Promoted(auction[b]))
    BY <1>1 DEF AskConfirmation, TypeOK
  <2> QED BY <2>1, <2>2, PromotedFacts DEF SealedBidsBeatOpenBid, OpenStatuses
<1>2. CASE BidAdmitted(u, a, amount, k) /\ PlaceSealedBid(u, a, amount, k)
  <2>1. CASE b = a
    <3>1. auction'[a] = Promoted(auction[a])
      BY <1>2 DEF PlaceSealedBid, TypeOK
    <3>2. auction'[a].status = "SEALED_ENDGAME" /\ auction'[a].current = auction[a].current
      BY <1>2, <3>1, PromotedFacts DEF PlaceSealedBid
    <3>3. sealed'[a][v] = IF v = u THEN amount ELSE sealed[a][v]
      BY <1>2 DEF PlaceSealedBid, TypeOK
    <3>4. amount >= MinimumBidFor(auction[a].current)
      BY <1>2 DEF BidAdmitted
    <3> QED BY <2>1, <3>2, <3>3, <3>4 DEF SealedBidsBeatOpenBid, OpenStatuses
  <2>2. CASE b # a
    <3>1. auction'[b] = auction[b] /\ sealed'[b][v] = sealed[b][v]
      BY <1>2, <2>2 DEF PlaceSealedBid, TypeOK
    <3> QED BY <3>1 DEF SealedBidsBeatOpenBid
  <2> QED BY <2>1, <2>2
<1>3. CASE BidAdmitted(u, a, amount, k) /\ PlaceOpenBid(u, a, amount, k)
  <2>1. sealed'[b][v] = sealed[b][v]
    BY <1>3 DEF PlaceOpenBid
  <2>2. auction[a].status \in OpenStatuses
    BY <1>3, PromotedFacts DEF PlaceOpenBid, OpenStatuses
  <2>3. b # a
    BY <2>1, <2>2 DEF SealedBidsBeatOpenBid
  <2>4. auction'[b] = auction[b]
    BY <1>3, <2>3 DEF PlaceOpenBid, TypeOK
  <2> QED BY <2>1, <2>4 DEF SealedBidsBeatOpenBid
<1> QED BY <1>1, <1>2, <1>3 DEF PlaceBid

LEMMA SettleKeepsSealed ==
  ASSUME TypeOK, SealedBidsBeatOpenBid, NEW B, NEW value, Settle(B, value)
  PROVE  SealedBidsBeatOpenBid'
<1> SUFFICES ASSUME NEW a \in Auctions, NEW u \in Users, sealed'[a][u] > 0
             PROVE  /\ auction'[a].status \notin OpenStatuses \cup {"FREE"}
                    /\ sealed'[a][u] >= MinimumBidFor(auction'[a].current)
  BY DEF SealedBidsBeatOpenBid
<1>1. sealed'[a][u] = sealed[a][u]
  BY DEF Settle
<1>2. \/ auction'[a] = [auction[a] EXCEPT !.status = "SETTLED"]
      \/ auction'[a] = [auction[a] EXCEPT !.status = "CLOSED"]
      \/ auction'[a] = auction[a]
  BY DEF Settle
<1>3. /\ auction[a].status \notin OpenStatuses \cup {"FREE"}
      /\ sealed[a][u] >= MinimumBidFor(auction[a].current)
  BY <1>1 DEF SealedBidsBeatOpenBid
<1>4. auction[a] \in AuctionRow
  BY DEF TypeOK
<1>5. auction'[a].current = auction[a].current
  BY <1>2, <1>4 DEF AuctionRow
<1>6. auction'[a].status \in {"SETTLED", "CLOSED", auction[a].status}
  BY <1>2, <1>4 DEF AuctionRow
<1> QED BY <1>1, <1>3, <1>5, <1>6 DEF OpenStatuses

LEMMA SealedNext ==
  TypeOK /\ SealedBidsBeatOpenBid /\ [Next]_vars => SealedBidsBeatOpenBid'
<1> SUFFICES ASSUME TypeOK, SealedBidsBeatOpenBid, [Next]_vars
             PROVE  SealedBidsBeatOpenBid'
  OBVIOUS
<1>1. CASE Tick
  BY <1>1 DEF Tick, SealedBidsBeatOpenBid
<1>2. CASE GetLiveAuctions
  BY <1>2, SealAllKeepsSealed DEF GetLiveAuctions
<1>3. ASSUME NEW a \in Auctions, GetAuctionSnapshot(a) PROVE SealedBidsBeatOpenBid'
  BY <1>3, SealAllKeepsSealed DEF GetAuctionSnapshot
<1>4. ASSUME NEW u \in Users, NEW c \in Cards, NEW d \in Durations, CreateAuction(u, c, d)
      PROVE  SealedBidsBeatOpenBid'
  BY <1>4, CreateKeepsSealed
<1>5. ASSUME NEW u \in Users, NEW a \in Auctions, NEW amount \in BidAmounts, NEW k \in Keys,
             NEW confirm \in BOOLEAN, NEW value \in MarketValues,
             PlaceBid(u, a, amount, k, confirm, value)
      PROVE  SealedBidsBeatOpenBid'
  BY <1>5, BidKeepsSealed
<1>6. CASE SettlementTick
  BY <1>6, SettleKeepsSealed DEF SettlementTick
<1>7. CASE UNCHANGED vars
  BY <1>7 DEF vars, SealedBidsBeatOpenBid
<1> QED BY <1>1, <1>2, <1>3, <1>4, <1>5, <1>6, <1>7 DEF Next

\* A hidden maximum exists only once the open phase is over, and it beats the
\* visible price at which that phase stopped.
THEOREM SealedBidsCorrect == Spec => []SealedBidsBeatOpenBid
<1>1. Init => TypeOK /\ SealedBidsBeatOpenBid
  BY InitType, SealedInit
<1>2. TypeOK /\ SealedBidsBeatOpenBid /\ [Next]_vars => (TypeOK /\ SealedBidsBeatOpenBid)'
  BY NextType, SealedNext
<1> QED BY <1>1, <1>2, PTL DEF Spec

-----------------------------------------------------------------------------
(* What a step may do to one auction *)

\* The row of auction a and what hangs off it: hidden maxima, sale, flags.
RestKept(a) ==
  sealed'[a] = sealed[a] /\ settlement'[a] = settlement[a] /\ flags'[a] = flags[a]

RowKept(a) == auction'[a] = auction[a] /\ RestKept(a)

RowSealed(a) ==
  /\ auction[a].status \in OpenStatuses /\ InSealedWindow(auction[a])
  /\ auction'[a] = Seal(auction[a])
  /\ RestKept(a)

RowOpened(a) ==
  /\ auction[a].status = "FREE"
  /\ \E u \in Users, c \in Cards, d \in Durations :
       auction'[a] = [FreeAuction EXCEPT !.status = "LIVE", !.card = c, !.seller = u,
                                         !.start = clock, !.end = clock + d]
  /\ RestKept(a)

RowHiddenBid(a) ==
  \E u \in Users, amount \in BidAmounts, k \in Keys :
    /\ BidAdmitted(u, a, amount, k)
    /\ auction'[a] = Promoted(auction[a])
    /\ sealed'[a] = [sealed[a] EXCEPT ![u] = amount]
    /\ settlement'[a] = settlement[a] /\ flags'[a] = flags[a]

RowOpenBid(a) ==
  \E u \in Users, amount \in BidAmounts, k \in Keys :
    /\ BidAdmitted(u, a, amount, k)
    /\ auction[a].status \in OpenStatuses /\ ~InSealedWindow(auction[a])
    /\ auction'[a] = WithOpenBid(auction[a], u, amount)
    /\ RestKept(a)

RowClosed(a) ==
  /\ Expired(a)
  /\ auction'[a] = [auction[a] EXCEPT !.status = "CLOSED"]
  /\ RestKept(a)

RowSettled(a) ==
  /\ Closed(a)
  /\ auction'[a] = [auction[a] EXCEPT !.status = "SETTLED"]
  /\ sealed'[a] = sealed[a]
  /\ settlement'[a] = IF Winner(a) # NoUser THEN SettlementOf(a) ELSE settlement[a]

LEMMA SealAllSteps ==
  ASSUME TypeOK, NEW S, SealAll(S), \A b \in S : DueForSealing(b), NEW a \in Auctions
  PROVE  RowKept(a) \/ RowSealed(a)
<1>1. RestKept(a)
  BY DEF SealAll, RestKept
<1>2. auction'[a] = IF a \in S THEN Seal(auction[a]) ELSE auction[a]
  BY DEF SealAll
<1>3. CASE a \in S
  BY <1>1, <1>2, <1>3 DEF RowSealed, DueForSealing
<1>4. CASE a \notin S
  BY <1>1, <1>2, <1>4 DEF RowKept
<1> QED BY <1>3, <1>4

LEMMA CreateSteps ==
  ASSUME TypeOK, NEW u \in Users, NEW c \in Cards, NEW d \in Durations,
         CreateAuction(u, c, d), NEW a \in Auctions
  PROVE  RowKept(a) \/ RowOpened(a)
<1>1. PICK b \in Auctions :
        /\ auction[b].status = "FREE"
        /\ auction' = [auction EXCEPT ![b] =
             [FreeAuction EXCEPT !.status = "LIVE", !.card = c, !.seller = u,
                                 !.start = clock, !.end = clock + d]]
  BY DEF CreateAuction
<1>2. RestKept(a)
  BY DEF CreateAuction, RestKept
<1>3. CASE a = b
  BY <1>1, <1>2, <1>3 DEF RowOpened, TypeOK
<1>4. CASE a # b
  BY <1>1, <1>2, <1>4 DEF RowKept, TypeOK
<1> QED BY <1>3, <1>4

LEMMA PromotedSteps ==
  ASSUME TypeOK, NEW a \in Auctions, auction'[a] = Promoted(auction[a]), RestKept(a)
  PROVE  RowKept(a) \/ RowSealed(a)
BY DEF Promoted, RowKept, RowSealed

LEMMA BidSteps ==
  ASSUME TypeOK, NEW u \in Users, NEW b \in Auctions, NEW amount \in BidAmounts,
         NEW k \in Keys, NEW confirm, NEW value,
         PlaceBid(u, b, amount, k, confirm, value), NEW a \in Auctions
  PROVE  RowKept(a) \/ RowSealed(a) \/ RowHiddenBid(a) \/ RowOpenBid(a)
<1>1. CASE AskConfirmation(u, b, amount, k, value)
  <2>1. RestKept(a)
    BY <1>1 DEF AskConfirmation, RestKept
  <2>2. auction'[a] = IF a = b THEN Promoted(auction[a]) ELSE auction[a]
    BY <1>1 DEF AskConfirmation, TypeOK
  <2> QED BY <2>1, <2>2, PromotedSteps DEF RowKept
<1>2. CASE BidAdmitted(u, b, amount, k) /\ PlaceSealedBid(u, b, amount, k)
  <2>1. settlement'[a] = settlement[a] /\ flags'[a] = flags[a]
    BY <1>2 DEF PlaceSealedBid
  <2>2. CASE a = b
    <3>1. auction'[a] = Promoted(auction[a])
      BY <1>2, <2>2 DEF PlaceSealedBid, TypeOK
    <3>2. sealed'[a] = [sealed[a] EXCEPT ![u] = amount]
      BY <1>2, <2>2 DEF PlaceSealedBid, TypeOK
    <3> QED BY <1>2, <2>1, <2>2, <3>1, <3>2 DEF RowHiddenBid
  <2>3. CASE a # b
    <3>1. auction'[a] = auction[a] /\ sealed'[a] = sealed[a]
      BY <1>2, <2>3 DEF PlaceSealedBid, TypeOK
    <3> QED BY <2>1, <3>1 DEF RowKept, RestKept
  <2> QED BY <2>2, <2>3
<1>3. CASE BidAdmitted(u, b, amount, k) /\ PlaceOpenBid(u, b, amount, k)
  <2>1. RestKept(a)
    BY <1>3 DEF PlaceOpenBid, RestKept
  <2>2. auction'[a] = IF a = b THEN WithOpenBid(auction[a], u, amount) ELSE auction[a]
    BY <1>3 DEF PlaceOpenBid, TypeOK
  <2>3. Promoted(auction[b]).status \in OpenStatuses
    BY <1>3 DEF PlaceOpenBid
  <2>4. auction[b].status \in OpenStatuses
    BY <2>3, PromotedFacts DEF OpenStatuses
  <2>5. ~InSealedWindow(auction[b])
    <3>1. SUFFICES ASSUME InSealedWindow(auction[b]) PROVE FALSE
      OBVIOUS
    <3>2. Promoted(auction[b]) = Seal(auction[b])
      BY <2>4, <3>1 DEF Promoted
    <3> QED BY <2>3, <3>2, SealFacts DEF OpenStatuses
  <2> QED BY <1>3, <2>1, <2>2, <2>4, <2>5 DEF RowOpenBid, RowKept
<1> QED BY <1>1, <1>2, <1>3 DEF PlaceBid

LEMMA SettleSteps ==
  ASSUME TypeOK, NEW B \in Batches, NEW value, Settle(B, value), NEW a \in Auctions
  PROVE  RowKept(a) \/ RowClosed(a) \/ RowSettled(a)
<1>1. sealed'[a] = sealed[a]
  BY DEF Settle
<1>2. CASE a \in B
  <2>1. Closed(a)
    BY <1>2 DEF Batches
  <2>2. auction'[a] = [auction[a] EXCEPT !.status = "SETTLED"]
    BY <1>2 DEF Settle, IsClosedOnly
  <2>3. settlement'[a] = IF Winner(a) # NoUser THEN SettlementOf(a) ELSE settlement[a]
    BY <1>2 DEF Settle
  <2> QED BY <1>1, <2>1, <2>2, <2>3 DEF RowSettled
<1>3. CASE a \notin B
  <2>1. settlement'[a] = settlement[a] /\ flags'[a] = flags[a]
    BY <1>3 DEF Settle
  <2>2. auction'[a] = IF Expired(a) THEN [auction[a] EXCEPT !.status = "CLOSED"]
                      ELSE auction[a]
    BY <1>3 DEF Settle, IsClosedOnly
  <2> QED BY <1>1, <2>1, <2>2 DEF RowClosed, RowKept, RestKept
<1> QED BY <1>2, <1>3

\* Every step leaves an auction alone or takes it one of these ways.
LEMMA RowSteps ==
  ASSUME TypeOK, [Next]_vars, NEW a \in Auctions
  PROVE  \/ RowKept(a) \/ RowSealed(a) \/ RowOpened(a) \/ RowHiddenBid(a)
         \/ RowOpenBid(a) \/ RowClosed(a) \/ RowSettled(a)
<1>1. CASE Tick \/ UNCHANGED vars
  BY <1>1 DEF Tick, vars, RowKept, RestKept
<1>2. CASE GetLiveAuctions
  <2>1. \A b \in {x \in Auctions : DueForSealing(x)} : DueForSealing(b)
    OBVIOUS
  <2> QED BY <1>2, <2>1, SealAllSteps DEF GetLiveAuctions
<1>3. ASSUME NEW b \in Auctions, GetAuctionSnapshot(b)
      PROVE  RowKept(a) \/ RowSealed(a)
  <2>1. \A x \in {y \in {b} : DueForSealing(y)} : DueForSealing(x)
    OBVIOUS
  <2> QED BY <1>3, <2>1, SealAllSteps DEF GetAuctionSnapshot
<1>4. ASSUME NEW u \in Users, NEW c \in Cards, NEW d \in Durations, CreateAuction(u, c, d)
      PROVE  RowKept(a) \/ RowOpened(a)
  BY <1>4, CreateSteps
<1>5. ASSUME NEW u \in Users, NEW b \in Auctions, NEW amount \in BidAmounts, NEW k \in Keys,
             NEW confirm \in BOOLEAN, NEW value \in MarketValues,
             PlaceBid(u, b, amount, k, confirm, value)
      PROVE  RowKept(a) \/ RowSealed(a) \/ RowHiddenBid(a) \/ RowOpenBid(a)
  BY <1>5, BidSteps
<1>6. CASE SettlementTick
  <2>1. PICK B \in Batches, value \in [Cards -> MarketValues] : Settle(B, value)
    BY <1>6 DEF SettlementTick
  <2> QED BY <2>1, SettleSteps
<1> QED BY <1>1, <1>2, <1>3, <1>4, <1>5, <1>6 DEF Next

-----------------------------------------------------------------------------
(* A settled auction is final *)

LEMMA SettledStays ==
  ASSUME TypeOK, [Next]_vars, NEW a \in Auctions, auction[a].status = "SETTLED"
  PROVE  RowKept(a)
BY RowSteps
   DEF RowSealed, RowOpened, RowHiddenBid, RowOpenBid, RowClosed, RowSettled, BidAdmitted,
       Expired, Closed, LiveStatuses, OpenStatuses

\* Whatever runs after the settlement of an auction, another tick included,
\* changes neither the row nor the sale, its flags or its hidden maxima.
THEOREM SettledCorrect == Spec => SettledIsFinal
<1>1. TypeOK /\ [Next]_vars =>
        \A a \in Auctions : auction[a].status = "SETTLED" =>
          /\ auction'[a] = auction[a]
          /\ settlement'[a] = settlement[a]
          /\ flags'[a] = flags[a]
          /\ sealed'[a] = sealed[a]
  BY SettledStays DEF RowKept, RestKept
<1> QED BY <1>1, TypeCorrect, PTL DEF Spec, SettledIsFinal

-----------------------------------------------------------------------------
(* The length of an auction *)

\* An unused row is untouched.  The length of an auction is one a seller chose
\* plus the extensions, never more than allowed, and only an auction chosen
\* long enough gets a sealed phase.
RowsShaped ==
  \A a \in Auctions :
    /\ auction[a].status = "FREE" => auction[a] = FreeAuction
    /\ auction[a].status # "FREE" =>
         /\ auction[a].ext <= MaxExtensions
         /\ \E d \in Durations :
              /\ auction[a].end = auction[a].start + d + auction[a].ext * AntiSnipeSeconds
              /\ auction[a].sealedPhase => d >= SealedMinDuration

\* The duration computed back from a row is the one chosen at creation.
LEMMA DurationRecovered ==
  ASSUME TypeOK, NEW a \in Auctions, NEW d \in Durations,
         auction[a].end = auction[a].start + d + auction[a].ext * AntiSnipeSeconds
  PROVE  OriginalDuration(auction[a]) = d
<1> DEFINE added == auction[a].ext * AntiSnipeSeconds
<1>1. /\ d \in Nat /\ auction[a].end \in Nat /\ auction[a].start \in Nat
      /\ auction[a].ext \in Nat /\ AntiSnipeSeconds \in Nat
  BY TimeAssumption DEF TypeOK, AuctionRow
<1>2. added \in Nat
  BY <1>1
<1>3. /\ auction[a].end = auction[a].start + d + added
      /\ OriginalDuration(auction[a]) = auction[a].end - auction[a].start - added
  BY DEF OriginalDuration
<1> HIDE DEF added
<1> QED BY <1>1, <1>2, <1>3

\* The part of the invariant that says how the row of a used auction looks.
Shaped(row) ==
  /\ row.ext <= MaxExtensions
  /\ \E d \in Durations :
       /\ row.end = row.start + d + row.ext * AntiSnipeSeconds
       /\ row.sealedPhase => d >= SealedMinDuration

LEMMA SealShaped ==
  ASSUME TypeOK, NEW a \in Auctions, Shaped(auction[a]), InSealedWindow(auction[a])
  PROVE  Shaped(Seal(auction[a]))
<1>1. PICK d \in Durations :
        auction[a].end = auction[a].start + d + auction[a].ext * AntiSnipeSeconds
  BY DEF Shaped
<1>2. d >= SealedMinDuration
  BY <1>1, DurationRecovered DEF InSealedWindow, SealedEligible
<1>3. /\ Seal(auction[a]).ext = auction[a].ext
      /\ Seal(auction[a]).start = auction[a].start
      /\ Seal(auction[a]).end = auction[a].end
  BY DEF Seal, TypeOK, AuctionRow
<1> QED BY <1>1, <1>2, <1>3 DEF Shaped

LEMMA StatusShaped ==
  ASSUME TypeOK, NEW a \in Auctions, Shaped(auction[a]), NEW s
  PROVE  Shaped([auction[a] EXCEPT !.status = s])
<1> DEFINE row == [auction[a] EXCEPT !.status = s]
<1>1. /\ row.ext = auction[a].ext /\ row.start = auction[a].start
      /\ row.end = auction[a].end /\ row.sealedPhase = auction[a].sealedPhase
  BY DEF TypeOK, AuctionRow
<1> HIDE DEF row
<1>2. Shaped(row)
  BY <1>1 DEF Shaped
<1> QED BY <1>2 DEF row

\* A late bid pushes the end back by exactly what the extension counts for.
LEMMA OpenBidShaped ==
  ASSUME TypeOK, NEW a \in Auctions, Shaped(auction[a]), NEW u, NEW amount
  PROVE  Shaped(WithOpenBid(auction[a], u, amount))
<1> DEFINE led == [auction[a] EXCEPT !.current = amount, !.leader = u]
           late == [led EXCEPT !.end = @ + AntiSnipeSeconds, !.ext = @ + 1,
                               !.status = "CLOSING"]
<1>1. /\ led.ext = auction[a].ext /\ led.start = auction[a].start
      /\ led.end = auction[a].end /\ led.sealedPhase = auction[a].sealedPhase
  BY DEF TypeOK, AuctionRow
<1>2. /\ late.ext = auction[a].ext + 1 /\ late.start = auction[a].start
      /\ late.end = auction[a].end + AntiSnipeSeconds
      /\ late.sealedPhase = auction[a].sealedPhase
  BY DEF TypeOK, AuctionRow
<1>3. WithOpenBid(auction[a], u, amount) = IF Extends(auction[a]) THEN late ELSE led
  BY DEF WithOpenBid
<1> HIDE DEF led, late
<1>4. Shaped(led)
  BY <1>1 DEF Shaped
<1>5. ASSUME Extends(auction[a]) PROVE Shaped(late)
  <2>1. PICK d \in Durations :
          /\ auction[a].end = auction[a].start + d + auction[a].ext * AntiSnipeSeconds
          /\ auction[a].sealedPhase => d >= SealedMinDuration
    BY DEF Shaped
  <2>2. /\ auction[a].ext \in Nat /\ MaxExtensions \in Nat /\ AntiSnipeSeconds \in Nat
        /\ auction[a].start \in Nat /\ d \in Nat
    BY TimeAssumption DEF TypeOK, AuctionRow
  <2>3. late.ext <= MaxExtensions
    BY <1>2, <1>5, <2>2 DEF Extends
  <2>4. late.end = late.start + d + late.ext * AntiSnipeSeconds
    <3> DEFINE x == auction[a].ext
    <3>1. (x + 1) * AntiSnipeSeconds = x * AntiSnipeSeconds + AntiSnipeSeconds
      BY <2>2
    <3>2. x * AntiSnipeSeconds \in Nat
      BY <2>2
    <3> QED BY <1>2, <2>1, <2>2, <3>1, <3>2
  <2> QED BY <1>2, <2>1, <2>3, <2>4 DEF Shaped
<1> QED BY <1>3, <1>4, <1>5

LEMMA ShapedInit == Init => RowsShaped
BY DEF Init, RowsShaped, FreeAuction

LEMMA ShapedNext == TypeOK /\ RowsShaped /\ [Next]_vars => RowsShaped'
<1> SUFFICES ASSUME TypeOK, RowsShaped, [Next]_vars, NEW a \in Auctions
             PROVE  /\ auction'[a].status = "FREE" => auction'[a] = FreeAuction
                    /\ auction'[a].status # "FREE" => Shaped(auction'[a])
  BY DEF RowsShaped, Shaped
<1>1. /\ auction[a].status = "FREE" => auction[a] = FreeAuction
      /\ auction[a].status # "FREE" => Shaped(auction[a])
  BY DEF RowsShaped, Shaped
<1>2. auction[a] \in AuctionRow
  BY DEF TypeOK
<1>3. CASE RowKept(a)
  BY <1>1, <1>3 DEF RowKept
<1>4. CASE RowSealed(a)
  <2>1. auction[a].status # "FREE"
    BY <1>4 DEF RowSealed, OpenStatuses
  <2> QED BY <1>1, <1>4, <2>1, SealShaped, SealFacts DEF RowSealed
<1>5. CASE RowOpened(a)
  <2>1. PICK u \in Users, c \in Cards, d \in Durations :
          auction'[a] = [FreeAuction EXCEPT !.status = "LIVE", !.card = c, !.seller = u,
                                            !.start = clock, !.end = clock + d]
    BY <1>5 DEF RowOpened
  <2>2. /\ auction'[a].status = "LIVE" /\ auction'[a].ext = 0
        /\ auction'[a].start = clock /\ auction'[a].end = clock + d
        /\ auction'[a].sealedPhase = FALSE
    BY <2>1 DEF FreeAuction
  <2>3. clock \in Nat /\ d \in Nat /\ MaxExtensions \in Nat /\ AntiSnipeSeconds \in Nat
    BY TimeAssumption DEF TypeOK
  <2>4. clock + d = clock + d + 0 * AntiSnipeSeconds
    BY <2>3
  <2>5. Shaped(auction'[a])
    BY <2>2, <2>3, <2>4 DEF Shaped
  <2> QED BY <2>2, <2>5
<1>6. CASE RowHiddenBid(a)
  <2>1. auction'[a] = Promoted(auction[a]) /\ auction[a].status \in LiveStatuses
    BY <1>6 DEF RowHiddenBid, BidAdmitted
  <2>2. auction[a].status # "FREE"
    BY <2>1 DEF LiveStatuses, OpenStatuses
  <2> QED BY <1>1, <2>1, <2>2, SealShaped, SealFacts DEF Promoted
<1>7. CASE RowOpenBid(a)
  <2>1. PICK u, amount : auction'[a] = WithOpenBid(auction[a], u, amount)
    BY <1>7 DEF RowOpenBid
  <2>2. auction[a].status \in OpenStatuses
    BY <1>7 DEF RowOpenBid
  <2>3. auction'[a].status # "FREE" /\ auction[a].status # "FREE"
    BY <2>1, <2>2, OpenBidFacts DEF OpenStatuses
  <2> QED BY <1>1, <2>1, <2>3, OpenBidShaped
<1>8. CASE RowClosed(a)
  <2>1. auction[a].status # "FREE" /\ auction'[a].status = "CLOSED"
    BY <1>2, <1>8 DEF RowClosed, Expired, LiveStatuses, OpenStatuses, AuctionRow
  <2> QED BY <1>1, <1>8, <2>1, StatusShaped DEF RowClosed
<1>9. CASE RowSettled(a)
  <2>1. auction[a].status # "FREE" /\ auction'[a].status = "SETTLED"
    BY <1>2, <1>9 DEF RowSettled, Closed, Expired, LiveStatuses, OpenStatuses, AuctionRow
  <2> QED BY <1>1, <1>9, <2>1, StatusShaped DEF RowSettled
<1> QED BY <1>3, <1>4, <1>5, <1>6, <1>7, <1>8, <1>9, RowSteps

LEMMA RowsAlwaysShaped == Spec => [](TypeOK /\ RowsShaped)
<1>1. Init => TypeOK /\ RowsShaped
  BY InitType, ShapedInit
<1>2. TypeOK /\ RowsShaped /\ [Next]_vars => (TypeOK /\ RowsShaped)'
  BY NextType, ShapedNext
<1> QED BY <1>1, <1>2, PTL DEF Spec

\* Extensions never turn an auction that was too short into one with a sealed
\* phase, whatever lengths, windows and extension limits are configured.
THEOREM ShortAuctionsCorrect == Spec => []ShortAuctionsStayOpen
<1>1. TypeOK /\ RowsShaped => ShortAuctionsStayOpen
  <2> SUFFICES ASSUME TypeOK, RowsShaped, NEW a \in Auctions, auction[a].sealedPhase
               PROVE  \E d \in Durations, n \in 0..MaxExtensions :
                        /\ d >= SealedMinDuration
                        /\ auction[a].end - auction[a].start = d + n * AntiSnipeSeconds
    BY DEF ShortAuctionsStayOpen
  <2>1. auction[a].status # "FREE"
    BY DEF RowsShaped, FreeAuction
  <2>2. PICK d \in Durations :
          /\ auction[a].end = auction[a].start + d + auction[a].ext * AntiSnipeSeconds
          /\ d >= SealedMinDuration
    BY <2>1 DEF RowsShaped
  <2>3. /\ auction[a].ext \in 0..MaxExtensions /\ AntiSnipeSeconds \in Nat
        /\ auction[a].start \in Nat /\ d \in Nat
    BY <2>1, TimeAssumption DEF RowsShaped, TypeOK, AuctionRow
  <2> DEFINE added == auction[a].ext * AntiSnipeSeconds
  <2>4. added \in Nat
    BY <2>3
  <2>5. auction[a].end - auction[a].start = d + added
    <3>1. auction[a].end = auction[a].start + d + added
      BY <2>2
    <3> HIDE DEF added
    <3> QED BY <2>3, <2>4, <3>1
  <2> QED BY <2>2, <2>3, <2>5
<1> QED BY <1>1, RowsAlwaysShaped, PTL

\* In the sealed window of an auction that has one, no step changes the
\* visible price: a bid seals the auction first, also when nobody had read it.
THEOREM EndgameCorrect == Spec => EndgameIsBlind
<1>1. ASSUME TypeOK, RowsShaped, [Next]_vars, NEW a \in Auctions,
             auction'[a].current # auction[a].current,
             auction[a].end - auction[a].start - auction[a].ext * AntiSnipeSeconds
               >= SealedMinDuration
      PROVE  auction[a].end - clock > SealedWindow
  <2>1. auction[a] \in AuctionRow
    BY <1>1 DEF TypeOK
  <2>2. ~RowKept(a)
    BY <1>1 DEF RowKept
  <2>3. ~RowSealed(a)
    BY <1>1, SealFacts DEF RowSealed
  <2>4. ~RowOpened(a)
    <3>1. SUFFICES ASSUME RowOpened(a) PROVE FALSE
      OBVIOUS
    <3>2. auction'[a].current = FreeAuction.current
      BY <3>1 DEF RowOpened, FreeAuction
    <3>3. auction[a].current = FreeAuction.current
      BY <1>1, <3>1 DEF RowOpened, RowsShaped
    <3> QED
      BY <1>1, <3>2, <3>3
  <2>5. ~RowHiddenBid(a)
    BY <1>1, PromotedFacts DEF RowHiddenBid
  <2>6. ~RowClosed(a) /\ ~RowSettled(a)
    BY <1>1, <2>1 DEF RowClosed, RowSettled, AuctionRow
  <2>7. ~InSealedWindow(auction[a])
    BY <1>1, <2>2, <2>3, <2>4, <2>5, <2>6, RowSteps DEF RowOpenBid
  <2>8. ~(auction[a].end - clock <= SealedWindow)
    BY <1>1, <2>7 DEF InSealedWindow, SealedEligible, OriginalDuration
  <2>9. auction[a].end \in Nat /\ clock \in Nat /\ SealedWindow \in Nat
    BY <1>1, TimeAssumption DEF TypeOK, AuctionRow
  <2> QED BY <2>8, <2>9
<1>2. TypeOK /\ RowsShaped /\ [Next]_vars =>
        [\A a \in Auctions :
           /\ auction'[a].current # auction[a].current
           /\ auction[a].end - auction[a].start - auction[a].ext * AntiSnipeSeconds
                >= SealedMinDuration
           => auction[a].end - clock > SealedWindow]_vars
  BY <1>1
<1> QED BY <1>2, RowsAlwaysShaped, PTL DEF Spec, EndgameIsBlind

-----------------------------------------------------------------------------
(* A sale is fair *)

\* Sale s of the auction in row, with the hidden maxima in hidden.
Fair(s, row, hidden) ==
  /\ s.gross <= s.maxBid
  /\ s.gross >= AtLeast(Unit, row.current)
  /\ \A u \in {v \in Users : hidden[v] > 0 \/ row.leader = v} \ {s.winner} :
       s.gross >= IF hidden[u] > 0 THEN hidden[u] ELSE row.current
  /\ s.winner # row.seller
  /\ s.fee <= s.gross

\* The inductive invariant.  The seller has neither the lead nor a hidden
\* maximum, so a sale cannot find him as the winner; a leading bid is at least
\* one unit, so the price is, too; and a row with a sale is settled, so what
\* the sale was computed from has not moved since.
SalesInv ==
  \A a \in Auctions :
    /\ auction[a].leader # auction[a].seller
    /\ sealed[a][auction[a].seller] = 0
    /\ auction[a].leader # NoUser => auction[a].current >= Unit
    /\ settlement[a].winner # NoUser =>
         /\ auction[a].status = "SETTLED"
         /\ Fair(settlement[a], auction[a], sealed[a])

LEMMA MinimumBidBeats ==
  ASSUME NEW x \in Nat
  PROVE  /\ MinimumBidFor(x) \in Nat
         /\ MinimumBidFor(x) >= AtLeast(Unit, x)
         /\ AtLeast(Unit, x) \in Nat
BY MinimumBidGrows DEF AtLeast, Unit

\* Nobody is a candidate with less than the visible price, or than one unit.
LEMMA CandidatesPay ==
  ASSUME TypeOK, SealedBidsBeatOpenBid, SalesInv, NEW a \in Auctions, NEW u \in Candidates(a)
  PROVE  /\ CandidateMax(a, u) \in Nat
         /\ CandidateMax(a, u) >= AtLeast(Unit, auction[a].current)
<1>1. u \in Users /\ (sealed[a][u] > 0 \/ auction[a].leader = u)
  BY DEF Candidates
<1>2. auction[a].current \in Nat /\ sealed[a][u] \in Nat /\ u # NoUser
  <2>1. auction[a].current \in Nat /\ sealed[a][u] \in Nat
    BY <1>1 DEF TypeOK, AuctionRow
  <2>2. u # NoUser
    BY <1>1 DEF Users, NoUser
  <2> QED BY <2>1, <2>2
<1>3. CASE sealed[a][u] > 0
  <2>1. sealed[a][u] >= MinimumBidFor(auction[a].current)
    BY <1>1, <1>3 DEF SealedBidsBeatOpenBid
  <2>2. CandidateMax(a, u) = sealed[a][u]
    BY <1>3 DEF CandidateMax
  <2>3. /\ MinimumBidFor(auction[a].current) \in Nat
        /\ MinimumBidFor(auction[a].current) >= AtLeast(Unit, auction[a].current)
        /\ AtLeast(Unit, auction[a].current) \in Nat
    BY <1>2, MinimumBidBeats
  <2> QED BY <1>2, <2>1, <2>2, <2>3
<1>4. CASE ~(sealed[a][u] > 0)
  <2>1. CandidateMax(a, u) = auction[a].current
    BY <1>4 DEF CandidateMax
  <2>2. auction[a].current >= Unit
    BY <1>1, <1>2, <1>4 DEF SalesInv
  <2> QED BY <1>2, <2>1, <2>2 DEF AtLeast, Unit
<1> QED BY <1>3, <1>4

\* The sale a settlement computes is fair to the seller, the losers and the winner.
LEMMA SettlementIsFair ==
  ASSUME TypeOK, SealedBidsBeatOpenBid, SalesInv, NEW a \in Auctions, Winner(a) # NoUser
  PROVE  Fair(SettlementOf(a), auction[a], sealed[a])
<1> DEFINE w == Winner(a)
           rest == Candidates(a) \ {w}
           next == CandidateMax(a, TopOf(a, rest))
           cur == auction[a].current
           low == AtLeast(Unit, cur)
           price == ClearingPrice(a)
           top == HeldMax(a)
<1>1. /\ w \in Users /\ w \in Candidates(a)
      /\ \A u \in Candidates(a) : CandidateMax(a, u) <= top
  BY WinnerIsTop
<1>2. cur \in Nat /\ low \in Nat
  BY MinimumBidBeats DEF TypeOK, AuctionRow
<1>3. top \in Nat /\ top >= low
  BY <1>1, CandidatesPay DEF HeldMax
<1>4. /\ price \in Nat /\ price <= top /\ price >= low
      /\ \A u \in rest : price >= CandidateMax(a, u)
  <2>1. CASE rest # {}
    <3>1. rest \subseteq Users
      BY DEF Candidates
    <3>2. /\ TopOf(a, rest) \in rest
          /\ \A u \in rest : CandidateMax(a, u) <= next
      BY <2>1, <3>1, TopOfIsTop
    <3>3. next \in Nat /\ next >= low /\ next <= top
      BY <1>1, <3>2, CandidatesPay
    <3>4. MinIncrement(next) \in Nat
      BY <3>3, IncrementType
    <3>5. price = AtMost(top, next + MinIncrement(next))
      BY <2>1 DEF ClearingPrice, HeldMax
    <3>6. \A u \in rest : CandidateMax(a, u) \in Nat
      BY CandidatesPay
    <3> HIDE DEF rest, next, low, price, top
    <3>7. price \in Nat /\ price <= top /\ price >= low /\ price >= next
      BY <1>2, <1>3, <3>3, <3>4, <3>5 DEF AtMost
    <3> QED BY <3>2, <3>3, <3>6, <3>7
  <2>2. CASE rest = {} /\ w = auction[a].leader /\ cur > 0
    <3>1. price = cur
      BY <2>2 DEF ClearingPrice
    <3>2. cur >= Unit
      BY <1>1, <2>2 DEF SalesInv, Users, NoUser
    <3>3. cur >= low /\ low >= cur
      BY <1>2, <3>2 DEF AtLeast, Unit
    <3> QED BY <1>2, <1>3, <2>2, <3>1, <3>3
  <2>3. CASE rest = {} /\ ~(w = auction[a].leader /\ cur > 0)
    <3>1. price = AtMost(top, MinimumBidFor(cur))
      BY <2>3 DEF ClearingPrice, HeldMax
    <3>2. MinimumBidFor(cur) \in Nat /\ MinimumBidFor(cur) >= low
      BY <1>2, MinimumBidBeats
    <3> HIDE DEF rest, low, price, top, cur
    <3> QED BY <1>2, <1>3, <2>3, <3>1, <3>2 DEF AtMost
  <2> QED BY <2>1, <2>2, <2>3
<1>5. w # auction[a].seller
  BY <1>1 DEF Candidates, SalesInv
<1>6. AuctionFee(price) <= price
  BY <1>4, AuctionFeeBound
<1>7. \A u \in {v \in Users : sealed[a][v] > 0 \/ auction[a].leader = v} \ {w} :
        price >= IF sealed[a][u] > 0 THEN sealed[a][u] ELSE cur
  BY <1>4 DEF Candidates, CandidateMax
<1>8. /\ SettlementOf(a).winner = w /\ SettlementOf(a).gross = price
      /\ SettlementOf(a).fee = AuctionFee(price) /\ SettlementOf(a).maxBid = top
  BY DEF SettlementOf
<1> HIDE DEF w, price, top
<1> QED BY <1>4, <1>5, <1>6, <1>7, <1>8 DEF Fair

LEMMA SalesInit == Init => SalesInv
BY SizesAssumption DEF Init, SalesInv, FreeAuction, NoSettlement, Users, NoUser

\* What a sale is judged by depends on three columns of the row only.
LEMMA FairStays ==
  ASSUME NEW s, NEW row, NEW next, NEW hidden, Fair(s, row, hidden),
         next.current = row.current, next.leader = row.leader, next.seller = row.seller
  PROVE  Fair(s, next, hidden)
BY DEF Fair

LEMMA SalesNext ==
  TypeOK /\ SealedBidsBeatOpenBid /\ SalesInv /\ [Next]_vars => SalesInv'
<1> SUFFICES ASSUME TypeOK, SealedBidsBeatOpenBid, SalesInv, [Next]_vars, NEW a \in Auctions
             PROVE  /\ auction'[a].leader # auction'[a].seller
                    /\ sealed'[a][auction'[a].seller] = 0
                    /\ auction'[a].leader # NoUser => auction'[a].current >= Unit
                    /\ settlement'[a].winner # NoUser =>
                         /\ auction'[a].status = "SETTLED"
                         /\ Fair(settlement'[a], auction'[a], sealed'[a])
  BY DEF SalesInv
<1>1. /\ auction[a].leader # auction[a].seller
      /\ sealed[a][auction[a].seller] = 0
      /\ auction[a].leader # NoUser => auction[a].current >= Unit
      /\ settlement[a].winner # NoUser =>
           /\ auction[a].status = "SETTLED"
           /\ Fair(settlement[a], auction[a], sealed[a])
  BY DEF SalesInv
<1>2. auction[a] \in AuctionRow
  BY DEF TypeOK
<1>3. CASE RowKept(a)
  BY <1>1, <1>3 DEF RowKept, RestKept
<1>4. CASE RowSealed(a)
  <2>1. settlement[a].winner = NoUser
    BY <1>1, <1>4 DEF RowSealed, OpenStatuses
  <2> QED BY <1>1, <1>4, <2>1, SealFacts DEF RowSealed, RestKept
<1>5. CASE RowOpened(a)
  <2>1. settlement'[a].winner = NoUser
    BY <1>1, <1>5 DEF RowOpened, RestKept
  <2>2. PICK u \in Users, c \in Cards, d \in Durations :
          auction'[a] = [FreeAuction EXCEPT !.status = "LIVE", !.card = c, !.seller = u,
                                            !.start = clock, !.end = clock + d]
    BY <1>5 DEF RowOpened
  <2>3. auction'[a].leader = NoUser /\ auction'[a].seller = u
    BY <2>2 DEF FreeAuction
  <2>4. sealed'[a][u] = 0
    BY <1>5 DEF RowOpened, RestKept, SealedBidsBeatOpenBid, TypeOK
  <2> QED BY <2>1, <2>3, <2>4 DEF Users, NoUser
<1>6. CASE RowHiddenBid(a)
  <2>1. PICK u \in Users, amount \in BidAmounts, k \in Keys :
          /\ BidAdmitted(u, a, amount, k)
          /\ auction'[a] = Promoted(auction[a])
          /\ sealed'[a] = [sealed[a] EXCEPT ![u] = amount]
          /\ settlement'[a] = settlement[a]
    BY <1>6 DEF RowHiddenBid
  <2>2. settlement[a].winner = NoUser /\ auction[a].seller # u
    BY <1>1, <2>1 DEF BidAdmitted, LiveStatuses, OpenStatuses
  <2>3. sealed'[a][auction[a].seller] = sealed[a][auction[a].seller]
    BY <1>2, <2>1, <2>2 DEF TypeOK
  <2> QED BY <1>1, <2>1, <2>2, <2>3, PromotedFacts
<1>7. CASE RowOpenBid(a)
  <2>1. PICK u \in Users, amount \in BidAmounts, k \in Keys :
          /\ BidAdmitted(u, a, amount, k)
          /\ auction'[a] = WithOpenBid(auction[a], u, amount)
    BY <1>7 DEF RowOpenBid
  <2>2. settlement[a].winner = NoUser /\ auction[a].seller # u
    BY <1>1, <2>1 DEF BidAdmitted, LiveStatuses, OpenStatuses
  <2>3. /\ auction'[a].current = amount /\ auction'[a].leader = u
        /\ auction'[a].seller = auction[a].seller
    BY <1>2, <2>1 DEF WithOpenBid, AuctionRow
  <2>4. amount >= Unit
    <3>1. amount \in Nat /\ auction[a].current \in Nat
      BY <1>2, MoneyAssumption DEF AuctionRow
    <3>2. amount >= MinimumBidFor(auction[a].current)
      BY <2>1 DEF BidAdmitted
    <3> QED BY <3>1, <3>2, MinimumBidGrows DEF Unit
  <2> QED BY <1>1, <1>7, <2>2, <2>3, <2>4 DEF RowOpenBid, RestKept
<1>8. CASE RowClosed(a)
  <2>1. settlement[a].winner = NoUser
    BY <1>1, <1>8 DEF RowClosed, Expired, LiveStatuses, OpenStatuses
  <2>2. /\ auction'[a].leader = auction[a].leader /\ auction'[a].seller = auction[a].seller
        /\ auction'[a].current = auction[a].current
    BY <1>2, <1>8 DEF RowClosed, AuctionRow
  <2> QED BY <1>1, <1>8, <2>1, <2>2 DEF RowClosed, RestKept
<1>9. CASE RowSettled(a)
  <2>1. settlement[a].winner = NoUser
    BY <1>1, <1>9 DEF RowSettled, Closed, Expired, LiveStatuses, OpenStatuses
  <2>2. /\ auction'[a].leader = auction[a].leader /\ auction'[a].seller = auction[a].seller
        /\ auction'[a].current = auction[a].current /\ auction'[a].status = "SETTLED"
    BY <1>2, <1>9 DEF RowSettled, AuctionRow
  <2>3. sealed'[a] = sealed[a]
    BY <1>9 DEF RowSettled
  <2>4. ASSUME settlement'[a].winner # NoUser
        PROVE  Fair(settlement'[a], auction'[a], sealed'[a])
    <3>1. Winner(a) # NoUser /\ settlement'[a] = SettlementOf(a)
      BY <1>9, <2>1, <2>4 DEF RowSettled
    <3>2. Fair(settlement'[a], auction[a], sealed'[a])
      BY <2>3, <3>1, SettlementIsFair
    <3> QED BY <2>2, <3>2, FairStays
  <2> QED BY <1>1, <2>2, <2>3, <2>4
<1> QED BY <1>3, <1>4, <1>5, <1>6, <1>7, <1>8, <1>9, RowSteps

\* Every recorded sale, as long as it is recorded: the price lies between the
\* winner's maximum and what every loser had offered, the visible price and
\* one unit; the fee does not exceed it; the seller has not bought from himself.
THEOREM SalesCorrect == Spec => []SalesAreFair
<1>1. Init => TypeOK /\ SealedBidsBeatOpenBid /\ SalesInv
  BY InitType, SealedInit, SalesInit
<1>2. /\ TypeOK /\ SealedBidsBeatOpenBid /\ SalesInv /\ [Next]_vars
      => (TypeOK /\ SealedBidsBeatOpenBid /\ SalesInv)'
  BY NextType, SealedNext, SalesNext
<1>3. SalesInv => SalesAreFair
  BY DEF SalesInv, SalesAreFair, Fair
<1> QED BY <1>1, <1>2, <1>3, PTL DEF Spec

-----------------------------------------------------------------------------
(* Repeated sales of one seller to one winner *)

\* The order in which a batch is settled: by end, then by id.
Before(end, b, a) == end[b] < end[a] \/ (end[b] = end[a] /\ b <= a)

\* A non-empty set of auctions has one that is settled last.
LEMMA LastExists ==
  ASSUME NEW n \in Nat, NEW end, \A i \in 1..n : end[i] \in Nat,
         NEW C, C \subseteq 1..n, C # {}
  PROVE  \E z \in C : \A b \in C : Before(end, b, z)
<1> DEFINE f == [i \in 1..n |-> end[n + 1 - i]]
           D == {i \in 1..n : n + 1 - i \in C}
<1>1. \A i \in 1..n : n + 1 - i \in 1..n /\ n + 1 - (n + 1 - i) = i
  OBVIOUS
<1>2. \A i \in 1..n : f[i] \in Nat
  BY <1>1
<1>3. D \subseteq 1..n /\ D # {}
  <2>1. PICK c \in C : c \in 1..n
    OBVIOUS
  <2>2. n + 1 - c \in D
    BY <1>1, <2>1
  <2> QED BY <2>2
<1>4. \E w \in D : \A u \in D : f[w] > f[u] \/ (f[w] = f[u] /\ w <= u)
  <2> HIDE DEF f, D
  <2> QED BY <1>2, <1>3, TopExists
<1>5. PICK w \in D : \A u \in D : f[w] > f[u] \/ (f[w] = f[u] /\ w <= u)
  BY <1>4
<1> DEFINE z == n + 1 - w
<1>6. z \in C /\ w \in 1..n
  OBVIOUS
<1>7. ASSUME NEW b \in C PROVE Before(end, b, z)
  <2> DEFINE u == n + 1 - b
  <2>1. b \in 1..n /\ u \in 1..n /\ n + 1 - u = b
    BY <1>1
  <2>2. u \in D
    BY <2>1
  <2>3. f[w] > f[u] \/ (f[w] = f[u] /\ w <= u)
    BY <1>5, <2>2
  <2>4. f[w] = end[z] /\ f[u] = end[b]
    BY <1>6, <2>1
  <2>5. end[z] \in Nat /\ end[b] \in Nat
    BY <1>6, <2>1
  <2>6. w <= u => b <= z
    BY <1>6, <2>1
  <2> HIDE DEF f, z, u
  <2> QED BY <2>3, <2>4, <2>5, <2>6 DEF Before
<1> QED BY <1>6, <1>7

\* The position of a among the auctions of N, counted from 1.
Position(end, N, a) == Cardinality({b \in N : Before(end, b, a)})

LEMMA PositionType ==
  ASSUME NEW end, NEW N, N \subseteq Auctions
  PROVE  /\ IsFiniteSet(N) /\ Cardinality(N) \in Nat
         /\ \A a : Position(end, N, a) \in Nat
<1>1. IsFiniteSet(Auctions)
  BY SizesAssumption, FS_Interval DEF Auctions
<1>2. IsFiniteSet(N)
  BY <1>1, FS_Subset
<1>3. \A a : IsFiniteSet({b \in N : Before(end, b, a)})
  BY <1>2, FS_Subset
<1> QED BY <1>2, <1>3, FS_CardinalityType DEF Position

\* The auctions of N at position k or later.
PositionFrom(end, N, k) == {a \in N : Position(end, N, a) >= k}

\* Positions count up one by one, so those from k on are as many as are left.
LEMMA PositionsFrom ==
  ASSUME NEW end, \A a \in Auctions : end[a] \in Nat,
         NEW N, N \subseteq Auctions, NEW k \in Nat, k > 0
  PROVE  Cardinality(PositionFrom(end, N, k)) = AtLeast(0, Cardinality(N) - k + 1)
<1> DEFINE From(M) == {a \in M : Position(end, M, a) >= k}
           S == {m \in Nat : \A M \in SUBSET Auctions :
                   Cardinality(M) = m => Cardinality(From(M)) = AtLeast(0, m - k + 1)}
<1>1. 0 \in S
  <2>1. ASSUME NEW M \in SUBSET Auctions, Cardinality(M) = 0
        PROVE  Cardinality(From(M)) = AtLeast(0, 0 - k + 1)
    <3>1. M = {}
      BY <2>1, PositionType, FS_EmptySet
    <3>2. From(M) = {}
      BY <3>1
    <3> HIDE DEF From
    <3> QED BY <3>2, FS_EmptySet DEF AtLeast
  <2> HIDE DEF From
  <2> QED BY <2>1
<1>2. ASSUME NEW m \in Nat, m \in S PROVE m + 1 \in S
  <2>1. ASSUME NEW M \in SUBSET Auctions, Cardinality(M) = m + 1
        PROVE  Cardinality(From(M)) = AtLeast(0, (m + 1) - k + 1)
    <3>1. IsFiniteSet(M) /\ M # {}
      <4>1. IsFiniteSet(M)
        BY PositionType
      <4>2. m + 1 # 0
        OBVIOUS
      <4> QED BY <2>1, <4>1, <4>2, FS_EmptySet
    <3>2. PICK z \in M : \A b \in M : Before(end, b, z)
      BY <3>1, LastExists, SizesAssumption DEF Auctions
    <3> DEFINE L == M \ {z}
    <3>3. L \in SUBSET Auctions /\ Cardinality(L) = m
      <4>1. Cardinality(L) = Cardinality(M) - 1
        BY <3>1, FS_RemoveElement
      <4>2. Cardinality(L) = (m + 1) - 1
        BY <2>1, <4>1
      <4> QED BY <4>2
    <3>4. Cardinality(From(L)) = AtLeast(0, m - k + 1)
      <4> HIDE DEF From, L
      <4> QED BY <1>2, <3>3
    <3>5. Position(end, M, z) = m + 1
      <4>1. {b \in M : Before(end, b, z)} = M
        BY <3>2
      <4> QED BY <2>1, <4>1 DEF Position
    <3>6. ASSUME NEW a \in L PROVE Position(end, M, a) = Position(end, L, a)
      <4>1. ~Before(end, z, a)
        <5>1. Before(end, a, z) /\ a # z /\ a \in Auctions /\ z \in Auctions
          BY <3>2
        <5>2. end[a] \in Nat /\ end[z] \in Nat
          BY <5>1
        <5> QED BY <5>1, <5>2 DEF Before, Auctions
      <4>2. {b \in M : Before(end, b, a)} = {b \in L : Before(end, b, a)}
        BY <4>1
      <4> QED BY <4>2 DEF Position
    <3>7. IsFiniteSet(From(L)) /\ z \notin From(L)
      <4>1. IsFiniteSet(L) /\ From(L) \subseteq L
        BY <3>1, FS_RemoveElement
      <4> HIDE DEF From
      <4> QED BY <4>1, FS_Subset
    <3>8. CASE m + 1 >= k
      <4>1. From(M) = From(L) \cup {z}
        BY <3>5, <3>6, <3>8
      <4>2. Cardinality(From(M)) = AtLeast(0, m - k + 1) + 1
        <5> HIDE DEF From
        <5> QED BY <3>4, <3>7, <4>1, FS_AddElement
      <4> HIDE DEF From
      <4> QED BY <3>8, <4>2 DEF AtLeast
    <3>9. CASE ~(m + 1 >= k)
      <4>1. From(M) = From(L)
        BY <3>5, <3>6, <3>9
      <4> HIDE DEF From
      <4> QED BY <3>4, <3>9, <4>1 DEF AtLeast
    <3> QED BY <3>8, <3>9
  <2> HIDE DEF From
  <2> QED BY <2>1
<1>3. Cardinality(N) \in S
  <2>1. Cardinality(N) \in Nat
    BY PositionType
  <2> HIDE DEF S
  <2> QED BY <1>1, <1>2, <2>1, SetInduction
<1>4. PositionFrom(end, N, k) = From(N)
  BY DEF PositionFrom
<1> HIDE DEF From
<1> QED BY <1>3, <1>4

\* The sales of seller s to w, and those of them that carry the flag.
SalesTo(s, w) == {a \in Auctions : auction[a].seller = s /\ settlement[a].winner = w}

FlaggedTo(s, w) == {a \in SalesTo(s, w) : "REPEATED_SELLER_WINNER_PAIR" \in flags[a]}

LEMMA PairsInit == Init => RepeatedPairsAreFlagged
<1> SUFFICES ASSUME Init, NEW s \in Users, NEW w \in Users
             PROVE  Cardinality(FlaggedTo(s, w))
                      = AtLeast(0, Cardinality(SalesTo(s, w)) - PairThreshold + 1)
  BY DEF RepeatedPairsAreFlagged, SalesTo, FlaggedTo
<1>1. SalesTo(s, w) = {} /\ FlaggedTo(s, w) = {}
  BY DEF Init, NoSettlement, SalesTo, FlaggedTo, Users, NoUser
<1>2. Cardinality({}) = 0
  BY FS_EmptySet
<1> QED BY <1>1, <1>2, SizesAssumption DEF AtLeast

\* A step that settles nothing neither makes nor flags a sale.
LEMMA PairsStay ==
  ASSUME RepeatedPairsAreFlagged, SalesInv, settlement' = settlement, flags' = flags,
         \A a \in Auctions : auction'[a].seller = auction[a].seller
                               \/ auction[a].status = "FREE"
  PROVE  RepeatedPairsAreFlagged'
<1> SUFFICES ASSUME NEW s \in Users, NEW w \in Users
             PROVE  Cardinality(FlaggedTo(s, w)')
                      = AtLeast(0, Cardinality(SalesTo(s, w)') - PairThreshold + 1)
  BY DEF RepeatedPairsAreFlagged, SalesTo, FlaggedTo
<1>1. \A a \in Auctions : settlement[a].winner = w =>
        auction'[a].seller = auction[a].seller
  BY DEF SalesInv, Users, NoUser
<1>2. SalesTo(s, w)' = SalesTo(s, w)
  BY <1>1 DEF SalesTo
<1>3. FlaggedTo(s, w)' = FlaggedTo(s, w)
  BY <1>2 DEF FlaggedTo
<1> QED BY <1>2, <1>3 DEF RepeatedPairsAreFlagged, SalesTo, FlaggedTo

LEMMA SettlePairs ==
  ASSUME TypeOK, RepeatedPairsAreFlagged, SalesInv, NEW B \in Batches, NEW value,
         Settle(B, value)
  PROVE  RepeatedPairsAreFlagged'
<1> SUFFICES ASSUME NEW s \in Users, NEW w \in Users
             PROVE  Cardinality(FlaggedTo(s, w)')
                      = AtLeast(0, Cardinality(SalesTo(s, w)') - PairThreshold + 1)
  BY DEF RepeatedPairsAreFlagged, SalesTo, FlaggedTo
<1> DEFINE end == [a \in Auctions |-> auction[a].end]
           new == {a \in B : auction[a].seller = s /\ Winner(a) = w}
           old == SalesTo(s, w)
           hot == {a \in new : Cardinality(old) + Position(end, new, a) >= PairThreshold}
<1>1. B \subseteq Auctions /\ \A a \in B : Closed(a)
  BY DEF Batches
<1>2. PairThreshold \in Nat /\ PairThreshold > 0 /\ w # NoUser
  BY SizesAssumption DEF Users, NoUser
<1>3. \A a \in B : settlement[a].winner = NoUser
  BY <1>1 DEF SalesInv, Closed, Expired, LiveStatuses, OpenStatuses
<1>4. /\ \A a \in Auctions : auction'[a].seller = auction[a].seller
      /\ \A a \in Auctions : end[a] \in Nat
  <2>1. \A a \in Auctions : auction[a] \in AuctionRow
    BY DEF TypeOK
  <2>2. ASSUME NEW a \in Auctions PROVE auction'[a].seller = auction[a].seller
    <3>1. \/ auction'[a] = [auction[a] EXCEPT !.status = "SETTLED"]
          \/ auction'[a] = [auction[a] EXCEPT !.status = "CLOSED"]
          \/ auction'[a] = auction[a]
      BY DEF Settle
    <3> QED BY <2>1, <3>1 DEF AuctionRow
  <2>3. \A a \in Auctions : end[a] \in Nat
    BY <2>1 DEF AuctionRow
  <2> QED BY <2>2, <2>3
<1>5. /\ IsFiniteSet(old) /\ Cardinality(old) \in Nat
      /\ IsFiniteSet(new) /\ Cardinality(new) \in Nat
      /\ \A a : Position(end, new, a) \in Nat
      /\ new \subseteq Auctions /\ new \cap old = {}
  <2>1. old \subseteq Auctions /\ new \subseteq Auctions
    BY <1>1 DEF SalesTo
  <2>2. new \cap old = {}
    BY <1>2, <1>3 DEF SalesTo
  <2> HIDE DEF old, new, end
  <2> QED BY <1>2, <2>1, <2>2, PositionType
<1>6. ASSUME NEW a \in new
      PROVE  PairCount(B, a) = Cardinality(old) + Position(end, new, a)
  <2> DEFINE upTo == {b \in new : Before(end, b, a)}
  <2>1. a \in Auctions /\ auction[a].seller = s /\ Winner(a) = w
    BY <1>1
  <2>2. \A b \in new : Before(end, b, a) <=>
          \/ auction[b].end < auction[a].end
          \/ auction[b].end = auction[a].end /\ b <= a
    BY <1>1, <2>1 DEF Before
  <2>3. {b \in Auctions :
           /\ auction[b].seller = auction[a].seller
           /\ \/ settlement[b].winner = Winner(a)
              \/ /\ b \in B /\ Winner(b) = Winner(a)
                 /\ \/ auction[b].end < auction[a].end
                    \/ auction[b].end = auction[a].end /\ b <= a} = old \cup upTo
    <3> HIDE DEF end
    <3> QED BY <1>1, <2>1, <2>2 DEF SalesTo
  <2>4. PairCount(B, a) = Cardinality(old \cup upTo)
    BY <2>3 DEF PairCount
  <2>5. IsFiniteSet(upTo) /\ old \cap upTo = {} /\ Cardinality(upTo) = Position(end, new, a)
    <3>1. upTo \subseteq new
      OBVIOUS
    <3>2. IsFiniteSet(upTo)
      BY <1>5, <3>1, FS_Subset
    <3> QED BY <1>5, <3>1, <3>2 DEF Position
  <2> HIDE DEF old, upTo, new, end
  <2>6. Cardinality(old \cup upTo)
          = Cardinality(old) + Cardinality(upTo) - Cardinality(old \cap upTo)
    BY <1>5, <2>5, FS_Union
  <2>7. Cardinality(old \cap upTo) = 0
    BY <2>5, FS_EmptySet
  <2> QED BY <1>5, <2>4, <2>5, <2>6, <2>7
<1>7. SalesTo(s, w)' = old \cup new
  <2>1. ASSUME NEW a \in Auctions
        PROVE  settlement'[a].winner = w <=>
                 settlement[a].winner = w \/ (a \in B /\ Winner(a) = w)
    <3>1. CASE a \in B /\ Winner(a) # NoUser
      BY <1>2, <1>3, <3>1 DEF Settle, SettlementOf
    <3>2. CASE a \in B /\ Winner(a) = NoUser
      BY <1>2, <3>2 DEF Settle
    <3>3. CASE a \notin B
      BY <3>3 DEF Settle
    <3> QED BY <3>1, <3>2, <3>3
  <2> QED BY <1>1, <1>4, <2>1 DEF SalesTo
<1>8. FlaggedTo(s, w)' = FlaggedTo(s, w) \cup hot
  <2>1. ASSUME NEW a \in new
        PROVE  "REPEATED_SELLER_WINNER_PAIR" \in flags'[a] <=> a \in hot
    <3>1. a \in Auctions /\ a \in B /\ Winner(a) # NoUser
      BY <1>1, <1>2
    <3>2. flags'[a] = IntegrityFlags(B, a, value[auction[a].card])
      BY <3>1 DEF Settle
    <3>3. "REPEATED_SELLER_WINNER_PAIR" \in flags'[a] <=> PairCount(B, a) >= PairThreshold
      BY <3>2 DEF IntegrityFlags, FlagTypes
    <3> HIDE DEF new
    <3> QED BY <1>6, <3>3
  <2>2. ASSUME NEW a \in old PROVE flags'[a] = flags[a]
    <3>1. a \in Auctions /\ a \notin B
      BY <1>2, <1>3 DEF SalesTo
    <3> QED BY <3>1 DEF Settle
  <2>3. hot \subseteq new
    OBVIOUS
  <2>4. FlaggedTo(s, w)' = {a \in old \cup new : "REPEATED_SELLER_WINNER_PAIR" \in flags'[a]}
    BY <1>7 DEF FlaggedTo
  <2>5. FlaggedTo(s, w) = {a \in old : "REPEATED_SELLER_WINNER_PAIR" \in flags[a]}
    BY DEF FlaggedTo
  <2> HIDE DEF old, new, hot
  <2> QED BY <2>1, <2>2, <2>3, <2>4, <2>5
<1>9. /\ IsFiniteSet(FlaggedTo(s, w)) /\ IsFiniteSet(hot)
      /\ FlaggedTo(s, w) \cap hot = {}
  <2>1. FlaggedTo(s, w) \subseteq old /\ hot \subseteq new
    BY DEF FlaggedTo
  <2> HIDE DEF old, new, hot
  <2> QED BY <1>5, <2>1, FS_Subset
<1>10. Cardinality(FlaggedTo(s, w)) = AtLeast(0, Cardinality(old) - PairThreshold + 1)
  BY DEF RepeatedPairsAreFlagged, SalesTo, FlaggedTo
<1>11. /\ Cardinality(FlaggedTo(s, w)') = Cardinality(FlaggedTo(s, w)) + Cardinality(hot)
       /\ Cardinality(SalesTo(s, w)') = Cardinality(old) + Cardinality(new)
  <2> DEFINE marked == FlaggedTo(s, w)
  <2> HIDE DEF old, new, hot, marked
  <2>1. ASSUME NEW S, NEW T, IsFiniteSet(S), IsFiniteSet(T), S \cap T = {}
        PROVE  Cardinality(S \cup T) = Cardinality(S) + Cardinality(T)
    <3>1. /\ Cardinality(S \cup T) = Cardinality(S) + Cardinality(T) - Cardinality(S \cap T)
          /\ Cardinality(S) \in Nat /\ Cardinality(T) \in Nat
      BY <2>1, FS_Union, FS_CardinalityType
    <3>2. Cardinality(S \cap T) = 0
      BY <2>1, FS_EmptySet
    <3> QED BY <3>1, <3>2
  <2>2. Cardinality(marked \cup hot) = Cardinality(marked) + Cardinality(hot)
    BY <1>9, <2>1 DEF marked
  <2>3. Cardinality(old \cup new) = Cardinality(old) + Cardinality(new)
    <3>1. old \cap new = {}
      BY <1>5
    <3> QED BY <1>5, <2>1, <3>1
  <2> QED BY <1>7, <1>8, <2>2, <2>3 DEF marked
<1>12. CASE Cardinality(old) >= PairThreshold
  <2>1. hot = new
    <3> HIDE DEF new, old, end
    <3> QED BY <1>2, <1>5, <1>12
  <2> HIDE DEF old, new, hot
  <2> QED BY <1>2, <1>5, <1>10, <1>11, <1>12, <2>1 DEF AtLeast
<1>13. CASE ~(Cardinality(old) >= PairThreshold)
  <2> DEFINE k == PairThreshold - Cardinality(old)
  <2>1. k \in Nat /\ k > 0
    <3> HIDE DEF old
    <3> QED BY <1>2, <1>5, <1>13
  <2>2. hot = {a \in new : Position(end, new, a) >= k}
    <3> HIDE DEF new, old, end
    <3> QED BY <1>2, <1>5
  <2>3. Cardinality(hot) = AtLeast(0, Cardinality(new) - k + 1)
    <3> HIDE DEF new, k, end, hot
    <3>1. /\ k \in Nat /\ k > 0 /\ new \subseteq Auctions
          /\ \A a \in Auctions : end[a] \in Nat
      BY <1>2, <1>4, <1>5, <2>1
    <3>2. hot = PositionFrom(end, new, k)
      BY <2>2 DEF PositionFrom
    <3> QED BY <3>1, <3>2, PositionsFrom
  <2> HIDE DEF old, new, hot
  <2> QED BY <1>2, <1>5, <1>10, <1>11, <1>13, <2>3 DEF AtLeast
<1> QED BY <1>12, <1>13

LEMMA PairsNext ==
  /\ TypeOK /\ SalesInv /\ RepeatedPairsAreFlagged /\ [Next]_vars
  => RepeatedPairsAreFlagged'
<1> SUFFICES ASSUME TypeOK, SalesInv, RepeatedPairsAreFlagged, [Next]_vars
             PROVE  RepeatedPairsAreFlagged'
  OBVIOUS
<1>1. CASE SettlementTick
  BY <1>1, SettlePairs DEF SettlementTick
<1>2. CASE ~SettlementTick
  <2>1. settlement' = settlement /\ flags' = flags
    <3>1. CASE Tick \/ UNCHANGED vars
      BY <3>1 DEF Tick, vars
    <3>2. CASE GetLiveAuctions \/ \E a \in Auctions : GetAuctionSnapshot(a)
      BY <3>2 DEF GetLiveAuctions, GetAuctionSnapshot, SealAll
    <3>3. CASE \E u \in Users, c \in Cards, d \in Durations : CreateAuction(u, c, d)
      BY <3>3 DEF CreateAuction
    <3>4. CASE \E u \in Users, a \in Auctions, amount \in BidAmounts, k \in Keys,
                 confirm \in BOOLEAN, value \in MarketValues :
                 PlaceBid(u, a, amount, k, confirm, value)
      BY <3>4 DEF PlaceBid, AskConfirmation, PlaceSealedBid, PlaceOpenBid
    <3> QED BY <1>2, <3>1, <3>2, <3>3, <3>4 DEF Next
  <2>2. ASSUME NEW a \in Auctions
        PROVE  auction'[a].seller = auction[a].seller \/ auction[a].status = "FREE"
    <3>1. auction[a] \in AuctionRow
      BY DEF TypeOK
    <3>2. \A u, amount : WithOpenBid(auction[a], u, amount).seller = auction[a].seller
      BY <3>1 DEF WithOpenBid, AuctionRow
    <3>3. RowClosed(a) \/ RowSettled(a) => auction'[a].seller = auction[a].seller
      BY <3>1 DEF RowClosed, RowSettled, AuctionRow
    <3>4. RowKept(a) \/ RowSealed(a) => auction'[a].seller = auction[a].seller
      BY SealFacts DEF RowKept, RowSealed
    <3>5. RowHiddenBid(a) => auction'[a].seller = auction[a].seller
      BY PromotedFacts DEF RowHiddenBid
    <3>6. RowOpenBid(a) => auction'[a].seller = auction[a].seller
      BY <3>2 DEF RowOpenBid
    <3>7. RowOpened(a) => auction[a].status = "FREE"
      BY DEF RowOpened
    <3> QED BY <3>3, <3>4, <3>5, <3>6, <3>7, RowSteps
  <2> QED BY <2>1, <2>2, PairsStay
<1> QED BY <1>1, <1>2

\* However the sales of one seller to one winner fall into ticks, exactly those
\* from the threshold on carry the flag.
THEOREM PairsCorrect == Spec => []RepeatedPairsAreFlagged
<1>1. /\ Init => TypeOK /\ SealedBidsBeatOpenBid /\ SalesInv
      /\ Init => RepeatedPairsAreFlagged
  BY InitType, SealedInit, SalesInit, PairsInit
<1>2. /\ TypeOK /\ SealedBidsBeatOpenBid /\ SalesInv /\ RepeatedPairsAreFlagged
      /\ [Next]_vars
      => (TypeOK /\ SealedBidsBeatOpenBid /\ SalesInv /\ RepeatedPairsAreFlagged)'
  BY NextType, SealedNext, SalesNext, PairsNext
<1> QED BY <1>1, <1>2, PTL DEF Spec

-----------------------------------------------------------------------------
(***************************************************************************)
(* The held column of every user is the sum of the user's pledges, and so  *)
(* the settlement transaction never aborts.                                *)
(*                                                                         *)
(* HeldInv is inductive.  A bid changes one pledge of each user it touches *)
(* by what it changes in the user's held column (PledgeMoves); a settled   *)
(* batch draws from every user exactly the pledges it ends                 *)
(* (DrawnIsPledge); all other steps leave both alone (PledgesStay).        *)
(*                                                                         *)
(* Money is conserved because a bid moves it between two columns of one    *)
(* user, or of two users, and because each settled auction credits what it *)
(* draws (SaleBalances), summed first over users, then over auctions.      *)
(*                                                                         *)
(* The pledges, read off the tables, are those of the escrow: every        *)
(* transaction is one of its steps (StepsRefine), a settlement tick because*)
(* what it credits is what the escrow pays out for the sale it records     *)
(* (CreditedIsPayout).                                                     *)
(***************************************************************************)

\* The inductive invariant.  Both conjuncts beside the types are needed: a bid
\* in the open phase finds no hidden maximum that would count in its place,
\* and a winner's maximum covers the price he is charged.
HeldInv == TypeOK /\ SealedBidsBeatOpenBid /\ HeldMatchesPledges

LEMMA PledgeType ==
  ASSUME TypeOK, NEW a \in Auctions, NEW u \in Users
  PROVE  Pledge(a, u) \in Nat
BY DEF Pledge, TypeOK, AuctionRow

LEMMA PledgesStay ==
  ASSUME HeldMatchesPledges, held' = held,
         \A a \in Auctions, u \in Users : Pledge(a, u)' = Pledge(a, u)
  PROVE  HeldMatchesPledges'
<1> SUFFICES ASSUME NEW u \in Users
             PROVE  held'[u] = Total([a \in Auctions |-> Pledge(a, u)'], NumAuctions)
  BY DEF HeldMatchesPledges
<1>1. [a \in Auctions |-> Pledge(a, u)'] = [a \in Auctions |-> Pledge(a, u)]
  OBVIOUS
<1> QED BY <1>1 DEF HeldMatchesPledges

LEMMA PledgeMoves ==
  ASSUME TypeOK, HeldMatchesPledges, NEW a \in Auctions, NEW u \in Users, NEW e \in Int,
         held'[u] = held[u] + e,
         Pledge(a, u)' = Pledge(a, u) + e,
         \A b \in Auctions \ {a} : Pledge(b, u)' = Pledge(b, u)
  PROVE  held'[u] = Total([b \in Auctions |-> Pledge(b, u)'], NumAuctions)
<1> DEFINE f == [b \in Auctions |-> Pledge(b, u)]
           g == [b \in Auctions |-> Pledge(b, u)']
<1>1. \A i \in 1..NumAuctions : f[i] \in Int
  BY PledgeType DEF Auctions
<1>2. \A i \in 1..NumAuctions : g[i] = IF i = a THEN f[i] + e ELSE f[i]
  BY DEF Auctions
<1>3. NumAuctions \in Nat /\ a \in 1..NumAuctions
  BY SizesAssumption DEF Auctions
<1>4. held[u] = Total(f, NumAuctions)
  BY DEF HeldMatchesPledges
<1> HIDE DEF f, g
<1>5. Total(g, NumAuctions) = Total(f, NumAuctions) + e
  BY <1>1, <1>2, <1>3, TotalUpdate
<1>6. held'[u] = Total(g, NumAuctions)
  BY <1>4, <1>5
<1> QED BY <1>6 DEF g

\* What a settlement takes from the held column of a user is the user's pledge.
LEMMA DrawnIsPledge ==
  ASSUME TypeOK, SealedBidsBeatOpenBid, NEW a \in Auctions, Unsettled(a), NEW u \in Users
  PROVE  Drawn(a, u) = Pledge(a, u)
<1>1. /\ sealed[a][u] \in Nat /\ auction[a].current \in Nat
      /\ u # NoUser
  <2>1. sealed[a][u] \in Nat /\ auction[a].current \in Nat
    BY DEF TypeOK, AuctionRow
  <2>2. u # NoUser
    BY SizesAssumption DEF Users, NoUser
  <2> QED BY <2>1, <2>2
<1>2. u \notin Candidates(a) => Pledge(a, u) = 0
  BY <1>1 DEF Candidates, Pledge
<1>3. u \in Candidates(a) => Pledge(a, u) = CandidateMax(a, u)
  BY <1>1 DEF Candidates, Pledge, CandidateMax
<1>4. CASE Winner(a) = NoUser
  BY <1>2, <1>4, WinnerIsTop DEF Drawn
<1>5. CASE Winner(a) # NoUser /\ u # Winner(a)
  <2>1. LosingRelease(a, u) = Pledge(a, u)
    BY <1>2, <1>3, <1>5 DEF LosingRelease, CandidateMax
  <2>2. Pledge(a, u) \in Nat
    BY PledgeType
  <2> QED BY <1>5, <2>1, <2>2 DEF Drawn
<1>6. CASE Winner(a) # NoUser /\ u = Winner(a)
  <2>1. u \in Candidates(a) /\ HeldMax(a) = Pledge(a, u)
    BY <1>3, <1>6, WinnerIsTop DEF HeldMax
  <2>2. auction[a].current <= CandidateMax(a, u)
    <3>1. CASE sealed[a][u] > 0
      <4>1. sealed[a][u] >= MinimumBidFor(auction[a].current)
        BY <3>1 DEF SealedBidsBeatOpenBid
      <4>2. /\ MinimumBidFor(auction[a].current) \in Nat
            /\ MinimumBidFor(auction[a].current) >= auction[a].current
        BY <1>1, MinimumBidGrows DEF Unit
      <4> QED BY <1>1, <3>1, <4>1, <4>2 DEF CandidateMax
    <3>2. CASE ~(sealed[a][u] > 0)
      BY <1>1, <3>2 DEF CandidateMax
    <3> QED BY <3>1, <3>2
  <2>3. /\ ClearingPrice(a) \in Nat /\ HeldMax(a) \in Nat
        /\ ClearingPrice(a) <= HeldMax(a)
    BY <1>6, <2>2, ClearingPriceBounds DEF HeldMax
  <2>4. ExcessHold(a) + ClearingPrice(a) = HeldMax(a) /\ LosingRelease(a, u) = 0
    BY <1>6, <2>3 DEF ExcessHold, LosingRelease
  <2>5. Drawn(a, u) = LosingRelease(a, u) + (ExcessHold(a) + ClearingPrice(a))
    BY <1>6 DEF Drawn
  <2> QED BY <2>1, <2>3, <2>4, <2>5
<1> QED BY <1>4, <1>5, <1>6

-----------------------------------------------------------------------------
(* One lemma per action *)

LEMMA HeldInit == Init => HeldMatchesPledges
<1> SUFFICES ASSUME Init, NEW u \in Users
             PROVE  held[u] = Total([a \in Auctions |-> Pledge(a, u)], NumAuctions)
  BY DEF HeldMatchesPledges
<1> DEFINE f == [a \in Auctions |-> Pledge(a, u)]
<1>1. \A i \in 1..NumAuctions : f[i] = 0
  BY DEF Init, Pledge, Unsettled, FreeAuction, LiveStatuses, OpenStatuses, Auctions
<1>2. NumAuctions \in Nat /\ held[u] = 0
  BY SizesAssumption DEF Init
<1> HIDE DEF f
<1>3. Total(f, NumAuctions) = 0
  BY <1>1, <1>2, TotalZero
<1> QED BY <1>2, <1>3 DEF f

\* Sealing an auction changes no pledge.
LEMMA SealKeepsPledge ==
  ASSUME TypeOK, NEW a \in Auctions, NEW u \in Users,
         sealed'[a][u] = sealed[a][u],
         \/ auction'[a] = auction[a]
         \/ auction[a].status \in OpenStatuses /\ auction'[a] = Seal(auction[a])
         \/ auction'[a] = Promoted(auction[a])
  PROVE  Pledge(a, u)' = Pledge(a, u)
<1>1. auction'[a].current = auction[a].current /\ auction'[a].leader = auction[a].leader
  BY SealFacts, PromotedFacts
<1>2. \/ auction'[a].status = auction[a].status
      \/ /\ auction[a].status \in OpenStatuses
         /\ auction'[a].status = "SEALED_ENDGAME"
  BY SealFacts, PromotedFacts
<1>3. Unsettled(a)' <=> Unsettled(a)
  BY <1>2 DEF Unsettled, LiveStatuses, OpenStatuses
<1> QED BY <1>1, <1>3 DEF Pledge

LEMMA SealAllKeepsHeld ==
  ASSUME TypeOK, HeldMatchesPledges, NEW S, SealAll(S),
         \A a \in S : DueForSealing(a)
  PROVE  HeldMatchesPledges'
<1>1. held' = held
  BY DEF SealAll, balances
<1>2. ASSUME NEW a \in Auctions, NEW u \in Users
      PROVE  Pledge(a, u)' = Pledge(a, u)
  <2>1. sealed'[a][u] = sealed[a][u]
    BY DEF SealAll
  <2>2. \/ auction'[a] = auction[a]
        \/ auction[a].status \in OpenStatuses /\ auction'[a] = Seal(auction[a])
    BY DEF SealAll, DueForSealing
  <2> QED BY <2>1, <2>2, SealKeepsPledge
<1> QED BY <1>1, <1>2, PledgesStay

\* A new auction takes an unused row, in which nobody has a pledge.
LEMMA CreateKeepsHeld ==
  ASSUME TypeOK, SealedBidsBeatOpenBid, HeldMatchesPledges,
         NEW s \in Users, NEW c \in Cards, NEW d \in Durations, CreateAuction(s, c, d)
  PROVE  HeldMatchesPledges'
<1>1. PICK a \in Auctions :
        /\ auction[a].status = "FREE"
        /\ auction' = [auction EXCEPT ![a] =
             [FreeAuction EXCEPT !.status = "LIVE", !.card = c, !.seller = s,
                                 !.start = clock, !.end = clock + d]]
  BY DEF CreateAuction
<1>2. held' = held /\ sealed' = sealed
  BY DEF CreateAuction, balances
<1>3. ASSUME NEW b \in Auctions, NEW u \in Users
      PROVE  Pledge(b, u)' = Pledge(b, u)
  <2>1. CASE b = a
    <3>1. Pledge(b, u) = 0
      BY <1>1, <2>1 DEF Pledge, Unsettled, LiveStatuses, OpenStatuses
    <3>2. ~(sealed[b][u] > 0)
      BY <1>1, <2>1 DEF SealedBidsBeatOpenBid
    <3>3. auction'[b].leader = NoUser
      BY <1>1, <2>1 DEF TypeOK, FreeAuction
    <3>4. Pledge(b, u)' = 0
      BY <1>2, <3>2, <3>3 DEF Pledge, NoUser, Users
    <3> QED BY <3>1, <3>4
  <2>2. CASE b # a
    <3>1. auction'[b] = auction[b]
      BY <1>1, <2>2 DEF TypeOK
    <3> QED BY <1>2, <3>1 DEF Pledge, Unsettled
  <2> QED BY <2>1, <2>2
<1> QED BY <1>2, <1>3, PledgesStay

LEMMA AskKeepsHeld ==
  ASSUME TypeOK, HeldMatchesPledges, NEW u, NEW a \in Auctions, NEW amount,
         NEW k, NEW value, AskConfirmation(u, a, amount, k, value)
  PROVE  HeldMatchesPledges'
<1>1. held' = held
  BY DEF AskConfirmation, balances
<1>2. ASSUME NEW b \in Auctions, NEW v \in Users
      PROVE  Pledge(b, v)' = Pledge(b, v)
  <2>1. sealed'[b][v] = sealed[b][v]
    BY DEF AskConfirmation
  <2>2. auction'[b] = auction[b] \/ auction'[b] = Promoted(auction[b])
    BY DEF AskConfirmation, TypeOK
  <2> QED BY <2>1, <2>2, SealKeepsPledge
<1> QED BY <1>1, <1>2, PledgesStay
\* A hidden maximum replaces what the bidder had pledged before.
LEMMA SealedBidKeepsHeld ==
  ASSUME TypeOK, HeldMatchesPledges, NEW u \in Users, NEW a \in Auctions,
         NEW amount \in BidAmounts, NEW k \in Keys,
         BidAdmitted(u, a, amount, k), PlaceSealedBid(u, a, amount, k)
  PROVE  HeldMatchesPledges'
<1> DEFINE delta == amount - CurrentCommitment(a, u)
<1>1. /\ auction'[a] = Promoted(auction[a])
      /\ \A b \in Auctions \ {a} : auction'[b] = auction[b] /\ sealed'[b] = sealed[b]
      /\ \A v \in Users : sealed'[a][v] = IF v = u THEN amount ELSE sealed[a][v]
  BY DEF PlaceSealedBid, TypeOK
<1>2. /\ auction'[a].current = auction[a].current
      /\ auction'[a].leader = auction[a].leader
      /\ auction'[a].status = "SEALED_ENDGAME"
  BY <1>1, PromotedFacts DEF PlaceSealedBid
<1>3. Unsettled(a) /\ Unsettled(a)'
  BY <1>2 DEF BidAdmitted, Unsettled, LiveStatuses
<1>4. amount \in Nat /\ amount > 0
  <2>1. /\ MinimumBidFor(auction[a].current) \in Nat
        /\ MinimumBidFor(auction[a].current) > 0
    BY MinimumBidGrows DEF TypeOK, AuctionRow, Unit
  <2> QED BY <2>1, MoneyAssumption DEF BidAdmitted
<1>5. ASSUME NEW b \in Auctions \ {a}, NEW v \in Users
      PROVE  Pledge(b, v)' = Pledge(b, v)
  BY <1>1 DEF Pledge, Unsettled
<1> SUFFICES ASSUME NEW v \in Users
             PROVE  held'[v] = Total([b \in Auctions |-> Pledge(b, v)'], NumAuctions)
  BY DEF HeldMatchesPledges
<1>6. CASE v = u
  <2>1. CurrentCommitment(a, u) = Pledge(a, u)
    <3>1. sealed[a][u] \in Nat
      BY DEF TypeOK
    <3> QED BY <1>3, <3>1 DEF CurrentCommitment, Pledge
  <2>2. Pledge(a, u)' = amount
    BY <1>1, <1>3, <1>4 DEF Pledge
  <2>3. Pledge(a, u) \in Nat
    BY PledgeType
  <2>4. delta \in Int /\ Pledge(a, u)' = Pledge(a, u) + delta
    BY <1>4, <2>1, <2>2, <2>3
  <2>5. held'[u] = held[u] + delta
    BY DEF PlaceSealedBid, TypeOK
  <2> HIDE DEF delta
  <2> QED BY <1>5, <1>6, <2>4, <2>5, PledgeMoves
<1>7. CASE v # u
  <2>1. held'[v] = held[v] /\ held[v] \in Nat
    BY <1>7 DEF PlaceSealedBid, TypeOK
  <2>2. Pledge(a, v)' = Pledge(a, v)
    BY <1>1, <1>2, <1>3, <1>7 DEF Pledge
  <2>3. Pledge(a, v) \in Nat
    BY PledgeType
  <2> DEFINE none == 0
  <2>4. none \in Int /\ held'[v] = held[v] + none /\ Pledge(a, v)' = Pledge(a, v) + none
    BY <2>1, <2>2, <2>3
  <2> HIDE DEF none
  <2> QED BY <1>5, <2>4, PledgeMoves
<1> QED BY <1>6, <1>7

\* In the open phase nobody has a hidden maximum: the leader's pledge is the
\* current bid, everybody else's is nothing.
LEMMA OpenPledge ==
  ASSUME TypeOK, SealedBidsBeatOpenBid, NEW a \in Auctions, NEW v \in Users,
         auction[a].status \in OpenStatuses
  PROVE  Pledge(a, v) = IF auction[a].leader = v THEN auction[a].current ELSE 0
<1>1. sealed[a][v] = 0
  BY DEF SealedBidsBeatOpenBid, TypeOK
<1>2. Unsettled(a)
  BY DEF Unsettled, LiveStatuses
<1> QED BY <1>1, <1>2 DEF Pledge

\* A visible bid moves the leader's pledge to the bidder, at the new amount.
LEMMA OpenBidKeepsHeld ==
  ASSUME TypeOK, SealedBidsBeatOpenBid, HeldMatchesPledges,
         NEW u \in Users, NEW a \in Auctions, NEW amount \in BidAmounts, NEW k \in Keys,
         BidAdmitted(u, a, amount, k), PlaceOpenBid(u, a, amount, k)
  PROVE  HeldMatchesPledges'
<1> DEFINE old == auction[a].current
           loser == auction[a].leader
           need == IF loser = u THEN amount - old ELSE amount
<1>1. amount \in Nat /\ old \in Nat
  BY MoneyAssumption DEF TypeOK, AuctionRow
<1>2. /\ auction'[a] = WithOpenBid(auction[a], u, amount)
      /\ \A b \in Auctions \ {a} : auction'[b] = auction[b]
      /\ sealed' = sealed
  BY DEF PlaceOpenBid, TypeOK
<1>3. auction[a].status \in OpenStatuses
  BY PromotedFacts DEF PlaceOpenBid, OpenStatuses
<1>4. /\ auction'[a].current = amount
      /\ auction'[a].leader = u
      /\ auction'[a].status \in OpenStatuses
  BY <1>2, <1>3, OpenBidFacts
<1>5. ASSUME NEW b \in Auctions \ {a}, NEW v \in Users
      PROVE  Pledge(b, v)' = Pledge(b, v)
  BY <1>2 DEF Pledge, Unsettled
<1>6. ASSUME NEW v \in Users
      PROVE  Pledge(a, v)' = IF v = u THEN amount ELSE 0
  <2>1. sealed'[a][v] = 0
    BY <1>2, <1>3 DEF SealedBidsBeatOpenBid, TypeOK
  <2>2. Unsettled(a)'
    BY <1>4 DEF Unsettled, LiveStatuses
  <2> QED BY <1>4, <2>1, <2>2 DEF Pledge
<1> SUFFICES ASSUME NEW v \in Users
             PROVE  held'[v] = Total([b \in Auctions |-> Pledge(b, v)'], NumAuctions)
  BY DEF HeldMatchesPledges
<1>7. Pledge(a, v) = IF loser = v THEN old ELSE 0
  BY <1>3, OpenPledge
<1>8. held[v] \in Nat
  BY DEF TypeOK
<1> DEFINE e == Pledge(a, v)' - Pledge(a, v)
<1>9. held'[v] = held[v] + e
  <2>1. CASE v = u
    BY <1>1, <1>6, <1>7, <1>8, <2>1 DEF PlaceOpenBid
  <2>2. CASE v # u /\ v = loser
    BY <1>1, <1>6, <1>7, <1>8, <2>2 DEF PlaceOpenBid
  <2>3. CASE v # u /\ v # loser
    BY <1>1, <1>6, <1>7, <1>8, <2>3 DEF PlaceOpenBid
  <2> QED BY <2>1, <2>2, <2>3
<1>10. e \in Int /\ Pledge(a, v)' = Pledge(a, v) + e
  BY <1>1, <1>6, <1>7
<1> HIDE DEF e
<1> QED BY <1>5, <1>9, <1>10, PledgeMoves

\* A settled batch ends exactly the pledges it draws.
LEMMA SettleKeepsHeld ==
  ASSUME TypeOK, SealedBidsBeatOpenBid, HeldMatchesPledges,
         NEW B \in Batches, NEW value, Settle(B, value)
  PROVE  HeldMatchesPledges'
<1>1. B \in SUBSET Auctions /\ \A a \in B : Closed(a)
  BY DEF Batches
<1>2. \A a \in B : Unsettled(a)
  BY <1>1 DEF Closed, Expired, Unsettled
<1> SUFFICES ASSUME NEW u \in Users
             PROVE  held'[u] = Total([a \in Auctions |-> Pledge(a, u)'], NumAuctions)
  BY DEF HeldMatchesPledges
<1>3. ASSUME NEW a \in Auctions
      PROVE  Pledge(a, u)' = IF a \in B THEN 0 ELSE Pledge(a, u)
  <2>1. /\ auction'[a].current = auction[a].current
        /\ auction'[a].leader = auction[a].leader
        /\ sealed'[a][u] = sealed[a][u]
    BY DEF Settle, TypeOK, AuctionRow
  <2>2. CASE a \in B
    <3>1. auction'[a].status = "SETTLED"
      BY <2>2 DEF Settle, IsClosedOnly, TypeOK, AuctionRow
    <3> QED BY <2>2, <3>1 DEF Pledge, Unsettled, LiveStatuses, OpenStatuses
  <2>3. CASE a \notin B
    <3>1. \/ auction'[a].status = auction[a].status
          \/ auction[a].status \in LiveStatuses /\ auction'[a].status = "CLOSED"
      BY <2>3 DEF Settle, IsClosedOnly, TypeOK, AuctionRow, Expired
    <3>2. Unsettled(a)' <=> Unsettled(a)
      BY <3>1 DEF Unsettled
    <3> QED BY <2>1, <2>3, <3>2 DEF Pledge
  <2> QED BY <2>2, <2>3
<1> DEFINE before == [a \in Auctions |-> Pledge(a, u)]
           drawn == [a \in Auctions |-> IF a \in B THEN Drawn(a, u) ELSE 0]
           after == [a \in Auctions |-> Pledge(a, u)']
<1>4. \A a \in 1..NumAuctions :
        after[a] \in Int /\ drawn[a] \in Int /\ before[a] = after[a] + drawn[a]
  <2>1. ASSUME NEW a \in Auctions
        PROVE  after[a] \in Int /\ drawn[a] \in Int /\ before[a] = after[a] + drawn[a]
    <3>1. Pledge(a, u) \in Nat
      BY PledgeType
    <3>2. CASE a \in B
      <4>1. drawn[a] = Pledge(a, u) /\ after[a] = 0
        BY <1>2, <1>3, <3>2, DrawnIsPledge
      <4> QED BY <3>1, <4>1
    <3>3. CASE a \notin B
      BY <1>3, <3>1, <3>3
    <3> QED BY <3>2, <3>3
  <2> QED BY <2>1 DEF Auctions
<1>5. \A a \in 1..NumAuctions : before[a] \in Int
  BY PledgeType DEF Auctions
<1>6. NumAuctions \in Nat
  BY SizesAssumption
<1>7. held[u] = Total(before, NumAuctions)
  BY DEF HeldMatchesPledges
<1>8. held'[u] = held[u] - Total(drawn, NumAuctions)
  BY DEF Settle, DrawnBy
<1> HIDE DEF before, drawn, after
<1>9. Total(before, NumAuctions) = Total(after, NumAuctions) + Total(drawn, NumAuctions)
  BY <1>4, <1>6, TotalAdd
<1>10. Total(after, NumAuctions) \in Int /\ Total(drawn, NumAuctions) \in Int
  BY <1>4, <1>6, TotalType
<1>11. held'[u] = Total(after, NumAuctions)
  BY <1>7, <1>8, <1>9, <1>10
<1> QED BY <1>11 DEF after

-----------------------------------------------------------------------------
LEMMA HeldNext == HeldInv /\ [Next]_vars => HeldMatchesPledges'
<1> SUFFICES ASSUME TypeOK, SealedBidsBeatOpenBid, HeldMatchesPledges, [Next]_vars
             PROVE  HeldMatchesPledges'
  BY DEF HeldInv
<1>1. CASE Tick \/ UNCHANGED vars
  <2>1. held' = held /\ auction' = auction /\ sealed' = sealed
    BY <1>1 DEF Tick, vars, balances
  <2>2. \A a \in Auctions, u \in Users : Pledge(a, u)' = Pledge(a, u)
    BY <2>1 DEF Pledge, Unsettled
  <2> QED BY <2>1, <2>2, PledgesStay
<1>2. CASE GetLiveAuctions
  BY <1>2, SealAllKeepsHeld DEF GetLiveAuctions
<1>3. ASSUME NEW a \in Auctions, GetAuctionSnapshot(a) PROVE HeldMatchesPledges'
  BY <1>3, SealAllKeepsHeld DEF GetAuctionSnapshot
<1>4. ASSUME NEW u \in Users, NEW c \in Cards, NEW d \in Durations, CreateAuction(u, c, d)
      PROVE  HeldMatchesPledges'
  BY <1>4, CreateKeepsHeld
<1>5. ASSUME NEW u \in Users, NEW a \in Auctions, NEW amount \in BidAmounts, NEW k \in Keys,
             NEW confirm \in BOOLEAN, NEW value \in MarketValues,
             PlaceBid(u, a, amount, k, confirm, value)
      PROVE  HeldMatchesPledges'
  <2>1. CASE AskConfirmation(u, a, amount, k, value)
    BY <2>1, AskKeepsHeld
  <2>2. CASE BidAdmitted(u, a, amount, k) /\ PlaceSealedBid(u, a, amount, k)
    BY <2>2, SealedBidKeepsHeld
  <2>3. CASE BidAdmitted(u, a, amount, k) /\ PlaceOpenBid(u, a, amount, k)
    BY <2>3, OpenBidKeepsHeld
  <2> QED BY <1>5, <2>1, <2>2, <2>3 DEF PlaceBid
<1>6. CASE SettlementTick
  BY <1>6, SettleKeepsHeld DEF SettlementTick
<1> QED BY <1>1, <1>2, <1>3, <1>4, <1>5, <1>6 DEF Next

LEMMA HeldInvCorrect == Spec => []HeldInv
<1>1. Init => HeldInv
  BY InitType, SealedInit, HeldInit DEF HeldInv
<1>2. HeldInv /\ [Next]_vars => HeldInv'
  BY NextType, SealedNext, HeldNext DEF HeldInv
<1> QED BY <1>1, <1>2, PTL DEF Spec

\* In every reachable state each user's held column is exactly what the
\* unsettled auctions say the user has pledged.
THEOREM HeldCorrect == Spec => []HeldMatchesPledges
<1>1. HeldInv => HeldMatchesPledges
  BY DEF HeldInv
<1> QED BY <1>1, HeldInvCorrect, PTL

\* All unsettled auctions together draw what is held, no more: the guarded
\* UPDATE of the held column cannot fail in a settlement, for any batch.
THEOREM NeverAbortsCorrect == Spec => []SettlementNeverAborts
<1>1. HeldInv => SettlementNeverAborts
  <2> SUFFICES ASSUME TypeOK, SealedBidsBeatOpenBid, HeldMatchesPledges, NEW u \in Users
               PROVE  held[u] >= DrawnBy({a \in Auctions : Unsettled(a)}, u)
    BY DEF HeldInv, SettlementNeverAborts
  <2> DEFINE B == {a \in Auctions : Unsettled(a)}
             drawn == [a \in Auctions |-> IF a \in B THEN Drawn(a, u) ELSE 0]
             pledged == [a \in Auctions |-> Pledge(a, u)]
  <2>1. ASSUME NEW a \in Auctions
        PROVE  (IF a \in B THEN Drawn(a, u) ELSE 0) = Pledge(a, u)
    <3>1. CASE Unsettled(a)
      BY <3>1, DrawnIsPledge
    <3>2. CASE ~Unsettled(a)
      BY <3>2 DEF Pledge
    <3> QED BY <3>1, <3>2
  <2>2. drawn = pledged
    BY <2>1
  <2>3. DrawnBy(B, u) = Total(drawn, NumAuctions)
    BY DEF DrawnBy
  <2>4. held[u] = Total(pledged, NumAuctions) /\ held[u] \in Nat
    BY DEF HeldMatchesPledges, TypeOK
  <2> HIDE DEF B, drawn, pledged
  <2>5. held[u] >= DrawnBy(B, u)
    BY <2>2, <2>3, <2>4
  <2> QED BY <2>5 DEF B
<1> QED BY <1>1, HeldInvCorrect, PTL

\* The settlement of any batch finds the held columns it needs.
THEOREM BatchesAreCovered == Spec => [](\A B \in Batches, u \in Users : held[u] >= DrawnBy(B, u))
<1>1. HeldInv => \A B \in Batches, u \in Users : held[u] >= DrawnBy(B, u)
  <2> SUFFICES ASSUME TypeOK, SealedBidsBeatOpenBid, HeldMatchesPledges,
                      NEW B \in Batches, NEW u \in Users
               PROVE  held[u] >= DrawnBy(B, u)
    BY DEF HeldInv
  <2> DEFINE drawn == [a \in Auctions |-> IF a \in B THEN Drawn(a, u) ELSE 0]
             pledged == [a \in Auctions |-> Pledge(a, u)]
  <2>1. B \in SUBSET Auctions /\ \A a \in B : Unsettled(a)
    BY DEF Batches, Closed, Expired, Unsettled
  <2>2. ASSUME NEW a \in Auctions
        PROVE  drawn[a] \in Int /\ pledged[a] \in Int /\ drawn[a] <= pledged[a]
    <3>1. Pledge(a, u) \in Nat
      BY PledgeType
    <3>2. a \in B => Drawn(a, u) = Pledge(a, u)
      BY <2>1, DrawnIsPledge
    <3> QED BY <3>1, <3>2
  <2>3. DrawnBy(B, u) = Total(drawn, NumAuctions)
    BY DEF DrawnBy
  <2>4. held[u] = Total(pledged, NumAuctions) /\ NumAuctions \in Nat
    BY SizesAssumption DEF HeldMatchesPledges
  <2> HIDE DEF drawn, pledged
  <2>5. Total(drawn, NumAuctions) <= Total(pledged, NumAuctions)
    BY <2>2, <2>4, TotalMonotone DEF Auctions
  <2>6. Total(drawn, NumAuctions) \in Int /\ Total(pledged, NumAuctions) \in Int
    BY <2>2, <2>4, TotalType DEF Auctions
  <2> QED BY <2>3, <2>4, <2>5, <2>6
<1> QED BY <1>1, HeldInvCorrect, PTL

-----------------------------------------------------------------------------
(* Conservation of money *)

\* What settling one auction credits, over all users, is what it draws.
LEMMA SaleBalances ==
  ASSUME TypeOK, NEW a \in Auctions
  PROVE  Total([u \in Users |-> Credited(a, u) - Drawn(a, u)], NumUsers) = 0
<1> DEFINE net == [u \in Users |-> Credited(a, u) - Drawn(a, u)]
<1>1. NumUsers \in Nat
  BY SizesAssumption
<1>2. CASE Winner(a) = NoUser
  <2>1. \A i \in 1..NumUsers : net[i] = 0
    BY <1>2 DEF Drawn, Credited, Users
  <2> HIDE DEF net
  <2>2. Total(net, NumUsers) = 0
    BY <1>1, <2>1, TotalZero
  <2> QED BY <2>2 DEF net
<1>3. CASE Winner(a) # NoUser
  <2> DEFINE w == Winner(a)
             s == auction[a].seller
             price == ClearingPrice(a)
             fee == AuctionFee(price)
             paid == [u \in Users |-> IF u = w THEN 0 - price ELSE 0]
             sold == [u \in Users |-> IF u = s THEN paid[u] + (price - fee) ELSE paid[u]]
  <2>1. /\ w \in Users /\ s \in Users /\ Platform \in Users
        /\ price \in Nat /\ fee \in Nat
    BY <1>3, WinnerIsTop, ClearingPriceBounds, AuctionFeeBound, SizesAssumption
       DEF TypeOK, AuctionRow
  <2>2. \A u \in Users : net[u] = IF u = Platform THEN sold[u] + fee ELSE sold[u]
    <3> SUFFICES ASSUME NEW u \in Users
                 PROVE  net[u] = IF u = Platform THEN sold[u] + fee ELSE sold[u]
      OBVIOUS
    <3>1. LosingRelease(a, u) \in Nat
      BY DEF LosingRelease, TypeOK, AuctionRow
    <3>2. ExcessHold(a) \in Nat
      BY <1>3, ClearingPriceBounds DEF ExcessHold
    <3>3. Drawn(a, u) = LosingRelease(a, u) + (IF u = w THEN ExcessHold(a) + price ELSE 0)
      BY <1>3 DEF Drawn
    <3>4. Credited(a, u) = LosingRelease(a, u) + (IF u = w THEN ExcessHold(a) ELSE 0)
                           + (IF u = s THEN price - fee ELSE 0)
                           + (IF u = Platform THEN fee ELSE 0)
      BY <1>3 DEF Credited, SellerNet
    <3> HIDE DEF w, s, price, fee
    <3> QED BY <2>1, <3>1, <3>2, <3>3, <3>4
  <2>3. Total([u \in Users |-> 0], NumUsers) = 0
    <3> DEFINE zero == [u \in Users |-> 0]
    <3>1. \A i \in 1..NumUsers : zero[i] = 0
      BY DEF Users
    <3> HIDE DEF zero
    <3>2. Total(zero, NumUsers) = 0
      BY <1>1, <3>1, TotalZero
    <3> QED BY <3>2 DEF zero
  <2>4. Total(paid, NumUsers) = 0 - price
    <3> DEFINE zero == [u \in Users |-> 0]
               e == 0 - price
    <3>1. /\ \A i \in 1..NumUsers : zero[i] \in Int
          /\ \A i \in 1..NumUsers : paid[i] = IF i = w THEN zero[i] + e ELSE zero[i]
          /\ e \in Int /\ w \in 1..NumUsers
      BY <2>1 DEF Users
    <3>2. Total(zero, NumUsers) = 0
      BY <2>3
    <3> HIDE DEF zero, e, paid, w
    <3>3. Total(paid, NumUsers) = Total(zero, NumUsers) + e
      BY <1>1, <3>1, TotalUpdate
    <3> QED BY <2>1, <3>2, <3>3 DEF e
  <2>5. Total(sold, NumUsers) = 0 - fee
    <3> DEFINE e == price - fee
    <3>1. /\ \A i \in 1..NumUsers : paid[i] \in Int
          /\ \A i \in 1..NumUsers : sold[i] = IF i = s THEN paid[i] + e ELSE paid[i]
          /\ e \in Int /\ s \in 1..NumUsers
      BY <2>1 DEF Users
    <3> HIDE DEF e, paid, sold, s
    <3>2. Total(sold, NumUsers) = Total(paid, NumUsers) + e
      BY <1>1, <3>1, TotalUpdate
    <3> QED BY <2>1, <2>4, <3>2 DEF e
  <2>6. Total(net, NumUsers) = 0
    <3>1. /\ \A i \in 1..NumUsers : sold[i] \in Int
          /\ \A i \in 1..NumUsers : net[i] = IF i = Platform THEN sold[i] + fee ELSE sold[i]
          /\ fee \in Int /\ Platform \in 1..NumUsers
      BY <2>1, <2>2 DEF Users
    <3> HIDE DEF sold, net, fee
    <3>2. Total(net, NumUsers) = Total(sold, NumUsers) + fee
      BY <1>1, <3>1, TotalUpdate
    <3> QED BY <2>5, <3>1, <3>2
  <2> QED BY <2>6
<1> QED BY <1>2, <1>3

\* The same for a batch, by induction over the auctions summed so far.
LEMMA BatchBalances ==
  ASSUME TypeOK, NEW B \in SUBSET Auctions
  PROVE  Total([u \in Users |-> CreditedBy(B, u) - DrawnBy(B, u)], NumUsers) = 0
<1> DEFINE cf(u) == [a \in Auctions |-> IF a \in B THEN Credited(a, u) ELSE 0]
           df(u) == [a \in Auctions |-> IF a \in B THEN Drawn(a, u) ELSE 0]
           upTo(k) == [u \in Users |-> Total(cf(u), k) - Total(df(u), k)]
           S == {k \in Nat : k <= NumAuctions => Total(upTo(k), NumUsers) = 0}
<1>1. NumUsers \in Nat /\ NumAuctions \in Nat
  BY SizesAssumption
<1>2. \A u \in Users, a \in Auctions : cf(u)[a] \in Int /\ df(u)[a] \in Int
  BY SettlementAmounts
<1>3. ASSUME NEW k \in Nat, k <= NumAuctions, NEW u \in Users
      PROVE  Total(cf(u), k) \in Int /\ Total(df(u), k) \in Int
  <2>1. \A i \in 1..k : cf(u)[i] \in Int /\ df(u)[i] \in Int
    BY <1>1, <1>2, <1>3 DEF Auctions
  <2> HIDE DEF cf, df
  <2> QED BY <2>1, TotalType
<1>4. 0 \in S
  <2>1. \A i \in 1..NumUsers : upTo(0)[i] = 0
    <3>1. \A f : Total(f, 0) = 0
      BY TotalStep
    <3> HIDE DEF cf, df
    <3> QED BY <3>1 DEF Users
  <2>2. Total(upTo(0), NumUsers) = 0
    <3> HIDE DEF upTo
    <3> QED BY <1>1, <2>1, TotalZero
  <2> HIDE DEF upTo
  <2> QED BY <2>2
<1>5. ASSUME NEW k \in Nat, k \in S PROVE k + 1 \in S
  <2>1. CASE k + 1 <= NumAuctions
    <3> DEFINE a == k + 1
               term == [u \in Users |-> cf(u)[a] - df(u)[a]]
    <3>1. a \in Auctions
      BY <1>1, <2>1 DEF Auctions
    <3>2. Total(term, NumUsers) = 0
      <4>1. CASE a \in B
        <5>1. term = [u \in Users |-> Credited(a, u) - Drawn(a, u)]
          BY <3>1, <4>1
        <5> HIDE DEF term, a
        <5> QED BY <3>1, <5>1, SaleBalances
      <4>2. CASE a \notin B
        <5>1. \A i \in 1..NumUsers : term[i] = 0
          BY <3>1, <4>2 DEF Users
        <5> HIDE DEF term
        <5> QED BY <1>1, <5>1, TotalZero
      <4> QED BY <4>1, <4>2
    <3>3. ASSUME NEW u \in Users
          PROVE  /\ upTo(k)[u] \in Int
                 /\ term[u] \in Int
                 /\ upTo(a)[u] = upTo(k)[u] + term[u]
      <4>1. /\ Total(cf(u), k + 1) = Total(cf(u), k) + cf(u)[k + 1]
            /\ Total(df(u), k + 1) = Total(df(u), k) + df(u)[k + 1]
        <5> HIDE DEF cf, df
        <5> QED BY TotalStep
      <4>2. Total(cf(u), k) \in Int /\ Total(df(u), k) \in Int
        BY <1>1, <1>3, <2>1
      <4>3. cf(u)[a] \in Int /\ df(u)[a] \in Int
        BY <1>2, <3>1
      <4> HIDE DEF cf, df
      <4> QED BY <4>1, <4>2, <4>3
    <3>4. Total(upTo(k), NumUsers) = 0
      <4> HIDE DEF upTo
      <4> QED BY <1>1, <1>5, <2>1
    <3>5. \A i \in 1..NumUsers : /\ upTo(k)[i] \in Int
                                 /\ term[i] \in Int
                                 /\ upTo(a)[i] = upTo(k)[i] + term[i]
      <4> HIDE DEF upTo, term, a
      <4> QED BY <3>3 DEF Users
    <3> HIDE DEF upTo, term
    <3>6. Total(upTo(a), NumUsers) = Total(upTo(k), NumUsers) + Total(term, NumUsers)
      <4> HIDE DEF a
      <4> QED BY <1>1, <3>5, TotalAdd
    <3>7. Total(upTo(k + 1), NumUsers) = 0
      BY <3>2, <3>4, <3>6
    <3> QED BY <3>7
  <2>2. CASE ~(k + 1 <= NumAuctions)
    <3> HIDE DEF upTo
    <3> QED BY <2>2
  <2> QED BY <2>1, <2>2
<1>6. NumAuctions \in S
  <2> HIDE DEF S
  <2> QED BY <1>1, <1>4, <1>5, SetInduction
<1>7. Total(upTo(NumAuctions), NumUsers) = 0
  <2> HIDE DEF upTo
  <2> QED BY <1>1, <1>6
<1>8. [u \in Users |-> CreditedBy(B, u) - DrawnBy(B, u)] = upTo(NumAuctions)
  BY DEF CreditedBy, DrawnBy
<1> HIDE DEF upTo
<1> QED BY <1>7, <1>8

LEMMA MoneyInit == Init => MoneyConserved
<1> SUFFICES ASSUME Init
             PROVE  Total([u \in Users |-> available[u] + held[u]], NumUsers)
                      = (NumUsers - 1) * StartingBalance
  BY DEF MoneyConserved
<1> DEFINE funds == [u \in Users |-> available[u] + held[u]]
           full == [u \in Users |-> StartingBalance]
           e == 0 - StartingBalance
<1>1. /\ NumUsers \in Nat /\ Platform \in 1..NumUsers /\ e \in Int
      /\ StartingBalance \in Int
  BY SizesAssumption DEF Users
<1>2. \A i \in 1..NumUsers : full[i] = StartingBalance
  BY DEF Users
<1>3. /\ \A i \in 1..NumUsers : full[i] \in Int
      /\ \A i \in 1..NumUsers : funds[i] = IF i = Platform THEN full[i] + e ELSE full[i]
  BY SizesAssumption DEF Init, Users
<1> HIDE DEF funds, full, e
<1>4. Total(full, NumUsers) = NumUsers * StartingBalance
  BY <1>1, <1>2, TotalConstant
<1>5. Total(funds, NumUsers) = Total(full, NumUsers) + e
  BY <1>1, <1>3, TotalUpdate
<1>6. NumUsers * StartingBalance - StartingBalance = (NumUsers - 1) * StartingBalance
  BY <1>1
<1>7. NumUsers * StartingBalance \in Int
  BY <1>1
<1>8. Total(funds, NumUsers) = (NumUsers - 1) * StartingBalance
  BY <1>1, <1>4, <1>5, <1>6, <1>7 DEF e
<1> QED BY <1>8 DEF funds

\* A step that changes the funds of user u by change[u], with changes that
\* cancel out, conserves the money.
LEMMA FundsChange ==
  ASSUME TypeOK, MoneyConserved, NEW change,
         \A u \in Users : /\ change[u] \in Int
                          /\ available'[u] + held'[u] = available[u] + held[u] + change[u],
         Total(change, NumUsers) = 0
  PROVE  MoneyConserved'
<1> DEFINE before == [u \in Users |-> available[u] + held[u]]
           after == [u \in Users |-> available'[u] + held'[u]]
<1>1. NumUsers \in Nat
  BY SizesAssumption
<1>2. \A i \in 1..NumUsers : /\ before[i] \in Int
                             /\ change[i] \in Int
                             /\ after[i] = before[i] + change[i]
  <2>1. ASSUME NEW i \in Users
        PROVE  before[i] \in Int /\ change[i] \in Int /\ after[i] = before[i] + change[i]
    <3>1. available[i] \in Nat /\ held[i] \in Nat
      BY DEF TypeOK
    <3> QED BY <3>1
  <2> HIDE DEF before, after
  <2> QED BY <2>1 DEF Users
<1>3. Total(before, NumUsers) = (NumUsers - 1) * StartingBalance
  BY DEF MoneyConserved
<1> HIDE DEF before, after
<1>4. Total(after, NumUsers) = Total(before, NumUsers) + Total(change, NumUsers)
  BY <1>1, <1>2, TotalAdd
<1>5. Total(before, NumUsers) \in Int
  BY <1>1, <1>2, TotalType
<1>6. Total(after, NumUsers) = (NumUsers - 1) * StartingBalance
  BY <1>3, <1>4, <1>5
<1> QED BY <1>6 DEF after, MoneyConserved

\* A hidden maximum moves money between the two columns of its bidder.
LEMMA SealedBidKeepsMoney ==
  ASSUME TypeOK, MoneyConserved, NEW u \in Users, NEW a \in Auctions,
         NEW amount \in BidAmounts, NEW k, PlaceSealedBid(u, a, amount, k)
  PROVE  MoneyConserved'
<1> DEFINE delta == amount - CurrentCommitment(a, u)
           change == [v \in Users |-> 0]
<1>1. delta \in Int
  BY MoneyAssumption DEF CurrentCommitment, TypeOK, AuctionRow
<1>2. ASSUME NEW v \in Users
      PROVE  /\ change[v] \in Int
             /\ available'[v] + held'[v] = available[v] + held[v] + change[v]
  <2>1. available[v] \in Nat /\ held[v] \in Nat
    BY DEF TypeOK
  <2>2. /\ available'[v] = IF v = u THEN available[v] - delta ELSE available[v]
        /\ held'[v] = IF v = u THEN held[v] + delta ELSE held[v]
    BY DEF PlaceSealedBid, TypeOK
  <2> HIDE DEF delta
  <2> QED BY <1>1, <2>1, <2>2
<1>3. Total(change, NumUsers) = 0
  <2>1. \A i \in 1..NumUsers : change[i] = 0
    BY DEF Users
  <2> HIDE DEF change
  <2> QED BY <2>1, SizesAssumption, TotalZero
<1> HIDE DEF change
<1> QED BY <1>2, <1>3, FundsChange

\* So does a visible bid, for its bidder and for the leader it displaces.
LEMMA OpenBidKeepsMoney ==
  ASSUME TypeOK, MoneyConserved, NEW u \in Users, NEW a \in Auctions,
         NEW amount \in BidAmounts, NEW k, PlaceOpenBid(u, a, amount, k)
  PROVE  MoneyConserved'
<1> DEFINE old == auction[a].current
           loser == auction[a].leader
           need == IF loser = u THEN amount - old ELSE amount
           change == [v \in Users |-> 0]
<1>1. old \in Nat /\ need \in Int
  BY MoneyAssumption DEF TypeOK, AuctionRow
<1>2. ASSUME NEW v \in Users
      PROVE  /\ change[v] \in Int
             /\ available'[v] + held'[v] = available[v] + held[v] + change[v]
  <2>1. available[v] \in Nat /\ held[v] \in Nat
    BY DEF TypeOK
  <2>2. CASE v = u
    <3>1. available'[v] = available[v] - need /\ held'[v] = held[v] + need
      BY <2>2 DEF PlaceOpenBid
    <3> HIDE DEF need
    <3> QED BY <1>1, <2>1, <3>1
  <2>3. CASE v # u /\ v = loser
    <3>1. available'[v] = available[v] + old /\ held'[v] = held[v] - old
      BY <2>3 DEF PlaceOpenBid
    <3> QED BY <1>1, <2>1, <3>1
  <2>4. CASE v # u /\ v # loser
    <3>1. available'[v] = available[v] /\ held'[v] = held[v]
      BY <2>4 DEF PlaceOpenBid
    <3> QED BY <2>1, <3>1
  <2> QED BY <2>2, <2>3, <2>4
<1>3. Total(change, NumUsers) = 0
  <2>1. \A i \in 1..NumUsers : change[i] = 0
    BY DEF Users
  <2> HIDE DEF change
  <2> QED BY <2>1, SizesAssumption, TotalZero
<1> HIDE DEF change
<1> QED BY <1>2, <1>3, FundsChange

LEMMA SettleKeepsMoney ==
  ASSUME TypeOK, MoneyConserved, NEW B \in SUBSET Auctions, NEW value, Settle(B, value)
  PROVE  MoneyConserved'
<1> DEFINE change == [u \in Users |-> CreditedBy(B, u) - DrawnBy(B, u)]
<1>1. ASSUME NEW u \in Users
      PROVE  /\ change[u] \in Int
             /\ available'[u] + held'[u] = available[u] + held[u] + change[u]
  <2>1. /\ available[u] \in Nat /\ held[u] \in Nat
        /\ DrawnBy(B, u) \in Nat /\ CreditedBy(B, u) \in Nat
    BY BatchAmounts DEF TypeOK
  <2>2. /\ available'[u] = available[u] + CreditedBy(B, u)
        /\ held'[u] = held[u] - DrawnBy(B, u)
    BY DEF Settle
  <2> QED BY <2>1, <2>2
<1>2. Total(change, NumUsers) = 0
  BY BatchBalances
<1> HIDE DEF change
<1> QED BY <1>1, <1>2, FundsChange

LEMMA MoneyNext == TypeOK /\ MoneyConserved /\ [Next]_vars => MoneyConserved'
<1> SUFFICES ASSUME TypeOK, MoneyConserved, [Next]_vars PROVE MoneyConserved'
  OBVIOUS
<1>1. available' = available /\ held' = held => MoneyConserved'
  BY DEF MoneyConserved
<1>2. CASE Tick \/ GetLiveAuctions \/ UNCHANGED vars
  BY <1>1, <1>2 DEF Tick, GetLiveAuctions, SealAll, vars, balances
<1>3. ASSUME NEW a \in Auctions, GetAuctionSnapshot(a) PROVE MoneyConserved'
  BY <1>1, <1>3 DEF GetAuctionSnapshot, SealAll, balances
<1>4. ASSUME NEW u \in Users, NEW c \in Cards, NEW d \in Durations, CreateAuction(u, c, d)
      PROVE  MoneyConserved'
  BY <1>1, <1>4 DEF CreateAuction, balances
<1>5. ASSUME NEW u \in Users, NEW a \in Auctions, NEW amount \in BidAmounts, NEW k \in Keys,
             NEW confirm \in BOOLEAN, NEW value \in MarketValues,
             PlaceBid(u, a, amount, k, confirm, value)
      PROVE  MoneyConserved'
  <2>1. CASE AskConfirmation(u, a, amount, k, value)
    BY <1>1, <2>1 DEF AskConfirmation, balances
  <2>2. CASE PlaceSealedBid(u, a, amount, k)
    BY <2>2, SealedBidKeepsMoney
  <2>3. CASE PlaceOpenBid(u, a, amount, k)
    BY <2>3, OpenBidKeepsMoney
  <2> QED BY <1>5, <2>1, <2>2, <2>3 DEF PlaceBid
<1>6. CASE SettlementTick
  <2>1. PICK B \in Batches, value \in [Cards -> MarketValues] : Settle(B, value)
    BY <1>6 DEF SettlementTick
  <2>2. B \in SUBSET Auctions
    BY DEF Batches
  <2> QED BY <2>1, <2>2, SettleKeepsMoney
<1> QED BY <1>2, <1>3, <1>4, <1>5, <1>6 DEF Next

\* No history of bids, reads and settlements creates or destroys a cent.
THEOREM ConservationCorrect == Spec => []MoneyConserved
<1>1. Init => TypeOK /\ MoneyConserved
  BY InitType, MoneyInit
<1>2. TypeOK /\ MoneyConserved /\ [Next]_vars => (TypeOK /\ MoneyConserved)'
  BY NextType, MoneyNext
<1> QED BY <1>1, <1>2, PTL DEF Spec

-----------------------------------------------------------------------------
(* The escrow promise *)

\* The escrow's own copies of the arithmetic are the same.
LEMMA SameArithmetic ==
  /\ PromisedEscrow!Users = Users /\ PromisedEscrow!Auctions = Auctions
  /\ PromisedEscrow!Nobody = NoUser
  /\ \A x : PromisedEscrow!MinimumBidFor(x) = MinimumBidFor(x)
  /\ \A x : PromisedEscrow!AuctionFee(x) = AuctionFee(x)
  /\ \A f, n : PromisedEscrow!Total(f, n) = Total(f, n)
<1>1. /\ PromisedEscrow!Users = Users /\ PromisedEscrow!Auctions = Auctions
      /\ PromisedEscrow!Nobody = NoUser
  BY DEF PromisedEscrow!Users, Users, PromisedEscrow!Auctions, Auctions,
         PromisedEscrow!Nobody, NoUser
<1>2. \A x : PromisedEscrow!MinimumBidFor(x) = MinimumBidFor(x)
  BY DEF PromisedEscrow!MinimumBidFor, MinimumBidFor, PromisedEscrow!MinIncrement,
         MinIncrement, PromisedEscrow!Percent, Percent, PromisedEscrow!AtLeast, AtLeast,
         PromisedEscrow!Unit, Unit
<1>3. \A x : PromisedEscrow!AuctionFee(x) = AuctionFee(x)
  BY DEF PromisedEscrow!AuctionFee, AuctionFee, PromisedEscrow!Percent, Percent
<1>4. \A f, n : PromisedEscrow!Total(f, n) = Total(f, n)
  BY DEF PromisedEscrow!Total, Total
<1> QED
  BY <1>1, <1>2, <1>3, <1>4

LEMMA PhasesAre ==
  /\ PhaseOf("FREE") = "none"
  /\ \A status \in OpenStatuses : PhaseOf(status) = "open"
  /\ PhaseOf("SEALED_ENDGAME") = "veiled"
  /\ PhaseOf("CLOSED") = "closed"
  /\ PhaseOf("SETTLED") = "done"
BY DEF PhaseOf, OpenStatuses

LEMMA EscrowInit == Init => PromisedEscrow!Init
<1> SUFFICES ASSUME Init PROVE PromisedEscrow!Init
  OBVIOUS
<1>1. Pledges = [a \in Auctions |-> [u \in Users |-> 0]]
  BY DEF Pledges, Pledge, Init, Unsettled, FreeAuction, LiveStatuses, OpenStatuses
<1>2. /\ VisiblePrices = [a \in Auctions |-> 0]
      /\ Phases = [a \in Auctions |-> "none"]
      /\ Sellers = [a \in Auctions |-> Platform]
  BY PhasesAre DEF VisiblePrices, Phases, Sellers, Init, FreeAuction
<1>3. Sales = [a \in Auctions |-> PromisedEscrow!NoSale]
  BY DEF Sales, Init, NoSettlement, PromisedEscrow!NoSale, PromisedEscrow!Nobody, NoUser
<1> QED
  BY <1>1, <1>2, <1>3, SameArithmetic DEF PromisedEscrow!Init, Init

-----------------------------------------------------------------------------
(* What a step of the auction service changes of what the escrow sees *)

\* Auction a looks to the escrow as before.
Unmoved(a) ==
  /\ auction'[a].current = auction[a].current
  /\ auction'[a].seller = auction[a].seller
  /\ settlement'[a] = settlement[a]
  /\ \A u \in Users : Pledge(a, u)' = Pledge(a, u)

\* The escrow's view of a single auction, after a step.
LEMMA ViewAfter ==
  /\ Pledges' = [a \in Auctions |-> [u \in Users |-> Pledge(a, u)']]
  /\ VisiblePrices' = [a \in Auctions |-> auction'[a].current]
  /\ Phases' = [a \in Auctions |-> PhaseOf(auction'[a].status)]
  /\ Sellers' = [a \in Auctions |-> auction'[a].seller]
  /\ Sales' = [a \in Auctions |-> [winner |-> settlement'[a].winner,
                                   gross |-> settlement'[a].gross]]
BY DEF Pledges, VisiblePrices, Phases, PhaseOf, Sellers, Sales

LEMMA Unseen ==
  ASSUME \A a \in Auctions : Unmoved(a)
  PROVE  Pledges' = Pledges /\ VisiblePrices' = VisiblePrices /\ Sellers' = Sellers
         /\ Sales' = Sales
<1>1. Pledges' = Pledges
  <2>1. [a \in Auctions |-> [u \in Users |-> Pledge(a, u)']] = Pledges
    BY DEF Unmoved, Pledges
  <2> QED
    BY <2>1, ViewAfter
<1>2. VisiblePrices' = VisiblePrices /\ Sellers' = Sellers /\ Sales' = Sales
  BY ViewAfter DEF Unmoved, VisiblePrices, Sellers, Sales
<1> QED
  BY <1>1, <1>2

LEMMA KeptIsUnmoved ==
  ASSUME NEW a \in Auctions, RowKept(a)
  PROVE  Unmoved(a) /\ PhaseOf(auction'[a].status) = PhaseOf(auction[a].status)
BY DEF RowKept, RestKept, Unmoved, Pledge, Unsettled

LEMMA SealedIsUnmoved ==
  ASSUME TypeOK, NEW a \in Auctions, RowSealed(a)
  PROVE  /\ Unmoved(a)
         /\ PhaseOf(auction[a].status) = "open" /\ PhaseOf(auction'[a].status) = "veiled"
<1>1. /\ auction[a].status \in OpenStatuses /\ auction'[a] = Seal(auction[a])
      /\ sealed'[a] = sealed[a] /\ settlement'[a] = settlement[a]
  BY DEF RowSealed, RestKept
<1>2. \A u \in Users : Pledge(a, u)' = Pledge(a, u)
  BY <1>1, SealKeepsPledge
<1> QED
  BY <1>1, <1>2, SealFacts, PhasesAre DEF Unmoved

\* Sealing some auctions, and nothing else, draws the veil over them.
LEMMA SealingVeils ==
  ASSUME TypeOK, available' = available,
         \A a \in Auctions : RowKept(a) \/ RowSealed(a)
  PROVE  [PromisedEscrow!Next]_(PromisedEscrow!vars)
<1> DEFINE S == {a \in Auctions : ~RowKept(a)}
<1>1. \A a \in Auctions : Unmoved(a)
  BY KeptIsUnmoved, SealedIsUnmoved
<1>2. Pledges' = Pledges /\ VisiblePrices' = VisiblePrices /\ Sellers' = Sellers
      /\ Sales' = Sales
  BY <1>1, Unseen
<1>3. /\ \A a \in S : Phases[a] = "open"
      /\ Phases' = [a \in Auctions |-> IF a \in S THEN "veiled" ELSE Phases[a]]
  <2>1. \A a \in Auctions : a \in S => PhaseOf(auction[a].status) = "open"
                                       /\ PhaseOf(auction'[a].status) = "veiled"
    BY SealedIsUnmoved
  <2>2. \A a \in Auctions : a \notin S =>
                              PhaseOf(auction'[a].status) = PhaseOf(auction[a].status)
    BY KeptIsUnmoved
  <2>3. S \in SUBSET Auctions
    OBVIOUS
  <2> HIDE DEF S
  <2> QED
    BY <2>1, <2>2, <2>3, ViewAfter DEF Phases
<1>4. S \in SUBSET Auctions
  OBVIOUS
<1> HIDE DEF S
<1>5. CASE S = {}
  <2>1. Phases' = Phases
    BY <1>3, <1>5 DEF Phases
  <2> QED
    BY <1>2, <2>1 DEF PromisedEscrow!vars
<1>6. CASE S # {}
  <2>1. PromisedEscrow!Veil(S)
    BY <1>2, <1>3, <1>4, <1>6, SameArithmetic DEF PromisedEscrow!Veil
  <2> QED
    BY <1>4, <2>1, SameArithmetic DEF PromisedEscrow!Next
<1> QED
  BY <1>5, <1>6

\* A new auction is an offer: its row was unused, so nobody has a pledge in it.
LEMMA CreationOffers ==
  ASSUME TypeOK, SealedBidsBeatOpenBid, RowsShaped,
         NEW u \in Users, NEW c \in Cards, NEW d \in Durations, CreateAuction(u, c, d)
  PROVE  PromisedEscrow!Next
<1>1. PICK a \in Auctions :
        /\ auction[a].status = "FREE"
        /\ auction' = [auction EXCEPT ![a] =
             [FreeAuction EXCEPT !.status = "LIVE", !.card = c, !.seller = u,
                                 !.start = clock, !.end = clock + d]]
  BY DEF CreateAuction
<1>2. available' = available /\ sealed' = sealed /\ settlement' = settlement
  BY DEF CreateAuction, balances
<1>3. /\ auction'[a].status = "LIVE" /\ auction'[a].current = 0
      /\ auction'[a].leader = NoUser /\ auction'[a].seller = u
      /\ \A b \in Auctions \ {a} : auction'[b] = auction[b]
  BY <1>1 DEF TypeOK, FreeAuction
<1>4. auction[a].current = 0
  BY <1>1 DEF RowsShaped, FreeAuction
<1>5. ASSUME NEW b \in Auctions, NEW v \in Users
      PROVE  Pledge(b, v)' = Pledge(b, v)
  <2>1. CASE b = a
    <3>1. Pledge(b, v) = 0
      BY <1>1, <2>1 DEF Pledge, Unsettled, LiveStatuses, OpenStatuses
    <3>2. ~(sealed[b][v] > 0)
      BY <1>1, <2>1 DEF SealedBidsBeatOpenBid
    <3>3. v # NoUser
      BY DEF NoUser, Users
    <3>4. Pledge(b, v)' = 0
      BY <1>2, <1>3, <2>1, <3>2, <3>3 DEF Pledge
    <3> QED
      BY <3>1, <3>4
  <2>2. CASE b # a
    BY <1>2, <1>3, <2>2 DEF Pledge, Unsettled
  <2> QED
    BY <2>1, <2>2
<1>6. Pledges' = Pledges
  <2>1. [b \in Auctions |-> [v \in Users |-> Pledge(b, v)']] = Pledges
    BY <1>5 DEF Pledges
  <2> QED
    BY <2>1, ViewAfter
<1>7. VisiblePrices' = VisiblePrices /\ Sales' = Sales
  BY <1>2, <1>3, <1>4, ViewAfter DEF VisiblePrices, Sales
<1>8. Phases[a] = "none" /\ Phases' = [Phases EXCEPT ![a] = "open"]
  <2>1. PhaseOf(auction[a].status) = "none" /\ PhaseOf(auction'[a].status) = "open"
    BY <1>1, <1>3, PhasesAre DEF OpenStatuses
  <2>2. \A b \in Auctions : PhaseOf(auction'[b].status) =
                              IF b = a THEN "open" ELSE PhaseOf(auction[b].status)
    BY <1>3, <2>1
  <2> QED
    BY <2>1, <2>2, ViewAfter DEF Phases
<1>9. Sellers' = [Sellers EXCEPT ![a] = u]
  BY <1>3, ViewAfter DEF Sellers
<1>10. PromisedEscrow!Offer(a, u)
  BY <1>2, <1>6, <1>7, <1>8, <1>9 DEF PromisedEscrow!Offer
<1> QED
  BY <1>10, SameArithmetic DEF PromisedEscrow!Next

-----------------------------------------------------------------------------
(* Bids *)

\* What a bid in the endgame releases is the bidder's pledge.
LEMMA CommitmentIsPledge ==
  ASSUME TypeOK, NEW a \in Auctions, NEW u \in Users, Unsettled(a)
  PROVE  CurrentCommitment(a, u) = Pledge(a, u)
<1>1. sealed[a][u] \in Nat
  BY DEF TypeOK
<1> QED
  BY <1>1 DEF CurrentCommitment, Pledge

\* A hidden maximum revises its bidder's pledge, and veils the auction if it is
\* the first to come in its last minute.
LEMMA HiddenBidRevises ==
  ASSUME TypeOK, NEW u \in Users, NEW a \in Auctions, NEW amount \in BidAmounts, NEW k,
         BidAdmitted(u, a, amount, k), PlaceSealedBid(u, a, amount, k)
  PROVE  PromisedEscrow!Revise(a, u, amount)
<1>1. /\ auction'[a] = Promoted(auction[a])
      /\ \A b \in Auctions \ {a} : auction'[b] = auction[b] /\ sealed'[b] = sealed[b]
      /\ \A v \in Users : sealed'[a][v] = IF v = u THEN amount ELSE sealed[a][v]
      /\ settlement' = settlement
  BY DEF PlaceSealedBid, TypeOK
<1>2. /\ auction'[a].current = auction[a].current
      /\ auction'[a].leader = auction[a].leader
      /\ auction'[a].seller = auction[a].seller
      /\ auction'[a].status = "SEALED_ENDGAME"
  BY <1>1, PromotedFacts DEF PlaceSealedBid
<1>3. /\ Unsettled(a) /\ Unsettled(a)'
      /\ auction[a].seller # u /\ amount >= MinimumBidFor(auction[a].current)
  BY <1>2 DEF BidAdmitted, Unsettled, LiveStatuses
<1>4. amount \in Nat /\ amount > 0
  <2>1. /\ MinimumBidFor(auction[a].current) \in Nat
        /\ MinimumBidFor(auction[a].current) > 0
    BY MinimumBidGrows DEF TypeOK, AuctionRow, Unit
  <2> QED
    BY <1>3, <2>1, MoneyAssumption
<1>5. ASSUME NEW b \in Auctions, NEW v \in Users
      PROVE  Pledge(b, v)' = IF b = a /\ v = u THEN amount ELSE Pledge(b, v)
  <2>1. CASE b # a
    BY <1>1, <2>1 DEF Pledge, Unsettled
  <2>2. CASE b = a /\ v # u
    BY <1>1, <1>2, <1>3, <2>2 DEF Pledge
  <2>3. CASE b = a /\ v = u
    BY <1>1, <1>3, <1>4, <2>3 DEF Pledge
  <2> QED
    BY <2>1, <2>2, <2>3
<1>6. Pledges' = [Pledges EXCEPT ![a][u] = amount]
  <2>1. [b \in Auctions |-> [v \in Users |-> Pledge(b, v)']]
          = [Pledges EXCEPT ![a][u] = amount]
    BY <1>5 DEF Pledges
  <2> QED
    BY <2>1, ViewAfter
<1>7. VisiblePrices' = VisiblePrices /\ Sellers' = Sellers /\ Sales' = Sales
  BY <1>1, <1>2, ViewAfter DEF VisiblePrices, Sellers, Sales
<1>8. Phases[a] \in {"open", "veiled"} /\ Phases' = [Phases EXCEPT ![a] = "veiled"]
  <2>1. PhaseOf(auction[a].status) \in {"open", "veiled"}
    BY PhasesAre DEF BidAdmitted, LiveStatuses
  <2>2. \A b \in Auctions : PhaseOf(auction'[b].status) =
                              IF b = a THEN "veiled" ELSE PhaseOf(auction[b].status)
    BY <1>1, <1>2, PhasesAre
  <2> QED
    BY <2>1, <2>2, ViewAfter DEF Phases
<1>9. Pledge(a, u) \in Nat /\ CurrentCommitment(a, u) = Pledge(a, u)
  BY <1>3, PledgeType, CommitmentIsPledge
<1>10. /\ available' = [available EXCEPT ![u] = @ - (amount - Pledge(a, u))]
       /\ amount - Pledge(a, u) >= 0 => available[u] >= amount - Pledge(a, u)
  BY <1>9 DEF PlaceSealedBid, FundsCover
<1>11. /\ available[u] \in Nat /\ available \in [Users -> Nat]
  BY DEF TypeOK
<1>12. available[u] + Pledge(a, u) >= amount
  BY <1>4, <1>9, <1>10, <1>11
<1>13. available' = [available EXCEPT ![u] = @ + Pledge(a, u) - amount]
  <2>1. available[u] - (amount - Pledge(a, u)) = available[u] + Pledge(a, u) - amount
    BY <1>4, <1>9, <1>11
  <2> QED
    BY <1>10, <2>1
<1>14. /\ Pledges[a][u] = Pledge(a, u) /\ VisiblePrices[a] = auction[a].current
       /\ Sellers[a] = auction[a].seller
  BY DEF Pledges, VisiblePrices, Sellers
<1> QED
  BY <1>3, <1>6, <1>7, <1>8, <1>12, <1>13, <1>14, SameArithmetic
     DEF PromisedEscrow!Revise

\* A visible bid outbids: the pledge of the leader it displaces is returned.
LEMMA OpenBidOutbids ==
  ASSUME TypeOK, SealedBidsBeatOpenBid,
         NEW u \in Users, NEW a \in Auctions, NEW amount \in BidAmounts, NEW k,
         BidAdmitted(u, a, amount, k), PlaceOpenBid(u, a, amount, k)
  PROVE  PromisedEscrow!Outbid(a, u, amount)
<1> DEFINE old == auction[a].current
           loser == auction[a].leader
           need == IF loser = u THEN amount - old ELSE amount
<1>1. amount \in Nat /\ old \in Nat
  BY MoneyAssumption DEF TypeOK, AuctionRow
<1>2. /\ auction'[a] = WithOpenBid(auction[a], u, amount)
      /\ \A b \in Auctions \ {a} : auction'[b] = auction[b]
      /\ sealed' = sealed /\ settlement' = settlement
  BY DEF PlaceOpenBid, TypeOK
<1>3. auction[a].status \in OpenStatuses
  BY PromotedFacts DEF PlaceOpenBid, OpenStatuses
<1>4. /\ auction'[a].current = amount
      /\ auction'[a].leader = u
      /\ auction'[a].status \in OpenStatuses
      /\ auction'[a].seller = auction[a].seller
  BY <1>2, <1>3, OpenBidFacts DEF WithOpenBid, TypeOK, AuctionRow
<1>5. /\ auction[a].seller # u /\ amount >= MinimumBidFor(old)
  BY DEF BidAdmitted
<1>6. ASSUME NEW v \in Users
      PROVE  Pledge(a, v) = IF loser = v THEN old ELSE 0
  BY <1>3, OpenPledge
<1>7. ASSUME NEW b \in Auctions, NEW v \in Users
      PROVE  Pledge(b, v)' = IF b = a THEN (IF v = u THEN amount ELSE 0) ELSE Pledge(b, v)
  <2>1. CASE b # a
    BY <1>2, <2>1 DEF Pledge, Unsettled
  <2>2. CASE b = a
    <3>1. sealed'[a][v] = 0
      BY <1>2, <1>3 DEF SealedBidsBeatOpenBid, TypeOK
    <3>2. Unsettled(a)'
      BY <1>4 DEF Unsettled, LiveStatuses
    <3> QED
      BY <1>4, <2>2, <3>1, <3>2 DEF Pledge
  <2> QED
    BY <2>1, <2>2
<1>8. Pledges' = [Pledges EXCEPT ![a] = [v \in Users |-> IF v = u THEN amount ELSE 0]]
  <2>1. [b \in Auctions |-> [v \in Users |-> Pledge(b, v)']]
          = [Pledges EXCEPT ![a] = [v \in Users |-> IF v = u THEN amount ELSE 0]]
    BY <1>7 DEF Pledges
  <2> QED
    BY <2>1, ViewAfter
<1>9. /\ VisiblePrices' = [VisiblePrices EXCEPT ![a] = amount]
      /\ Sellers' = Sellers /\ Sales' = Sales
  BY <1>2, <1>4, ViewAfter DEF VisiblePrices, Sellers, Sales
<1>10. Phases[a] = "open" /\ Phases' = Phases
  <2>1. PhaseOf(auction[a].status) = "open" /\ PhaseOf(auction'[a].status) = "open"
    BY <1>3, <1>4, PhasesAre
  <2> QED
    BY <1>2, <2>1, ViewAfter DEF Phases
<1>11. /\ Pledges[a] = [v \in Users |-> Pledge(a, v)]
       /\ VisiblePrices[a] = old /\ Sellers[a] = auction[a].seller
  BY DEF Pledges, VisiblePrices, Sellers
<1>12. available \in [Users -> Nat] /\ available[u] \in Nat
  BY DEF TypeOK
<1>13. available[u] + Pledge(a, u) >= amount
  <2>1. need >= 0 => available[u] >= need
    BY DEF PlaceOpenBid, FundsCover
  <2>2. Pledge(a, u) = IF loser = u THEN old ELSE 0
    BY <1>6
  <2> QED
    BY <1>1, <1>12, <2>1, <2>2
<1>14. available' = [v \in Users |-> available[v] + Pledge(a, v) - (IF v = u THEN amount ELSE 0)]
  <2>1. ASSUME NEW v \in Users
        PROVE  (CASE v = u -> available[v] - need
                  [] v = loser /\ v # u -> available[v] + old
                  [] OTHER -> available[v])
                 = available[v] + Pledge(a, v) - (IF v = u THEN amount ELSE 0)
    <3>1. available[v] \in Nat
      BY DEF TypeOK
    <3>2. Pledge(a, v) = IF loser = v THEN old ELSE 0
      BY <1>6
    <3> QED
      BY <1>1, <3>1, <3>2
  <2> QED
    BY <2>1 DEF PlaceOpenBid
<1>15. available' = [v \in Users |-> available[v] + Pledges[a][v] - (IF v = u THEN amount ELSE 0)]
  BY <1>11, <1>14
<1> QED
  BY <1>5, <1>8, <1>9, <1>10, <1>11, <1>13, <1>15, SameArithmetic
     DEF PromisedEscrow!Outbid

LEMMA BidsRefine ==
  ASSUME TypeOK, SealedBidsBeatOpenBid, NEW u \in Users, NEW a \in Auctions,
         NEW amount \in BidAmounts, NEW k \in Keys, NEW confirm, NEW value,
         PlaceBid(u, a, amount, k, confirm, value)
  PROVE  [PromisedEscrow!Next]_(PromisedEscrow!vars)
<1>1. CASE AskConfirmation(u, a, amount, k, value)
  <2>1. available' = available
    BY <1>1 DEF AskConfirmation, balances
  <2>2. ASSUME NEW b \in Auctions
        PROVE  RowKept(b) \/ RowSealed(b)
    <3>1. RestKept(b)
      BY <1>1 DEF AskConfirmation, RestKept
    <3>2. auction'[b] = IF b = a THEN Promoted(auction[b]) ELSE auction[b]
      BY <1>1 DEF AskConfirmation, TypeOK
    <3> QED
      BY <3>1, <3>2, PromotedSteps DEF RowKept
  <2> QED
    BY <2>1, <2>2, SealingVeils
<1>2. CASE BidAdmitted(u, a, amount, k) /\ PlaceSealedBid(u, a, amount, k)
  <2>1. PromisedEscrow!Revise(a, u, amount)
    BY <1>2, HiddenBidRevises
  <2> QED
    BY <2>1, SameArithmetic DEF PromisedEscrow!Next
<1>3. CASE BidAdmitted(u, a, amount, k) /\ PlaceOpenBid(u, a, amount, k)
  <2>1. PromisedEscrow!Outbid(a, u, amount)
    BY <1>3, OpenBidOutbids
  <2> QED
    BY <2>1, SameArithmetic DEF PromisedEscrow!Next
<1> QED
  BY <1>1, <1>2, <1>3 DEF PlaceBid

-----------------------------------------------------------------------------
(* Settlements *)

\* Without a winner there is no sale on record.
NoSaleUnrecorded ==
  \A a \in Auctions : settlement[a].winner = NoUser => settlement[a] = NoSettlement

\* What a settlement pays to a user is what the escrow pays out to him for the
\* sale it records.
LEMMA CreditedIsPayout ==
  ASSUME TypeOK, SealedBidsBeatOpenBid, NEW a \in Auctions, Unsettled(a), NEW u \in Users,
         NEW s, s.winner = Winner(a),
         s.gross = IF Winner(a) = NoUser THEN 0 ELSE ClearingPrice(a)
  PROVE  Credited(a, u) = PromisedEscrow!Payout(a, u, s)
<1> DEFINE w == Winner(a)
           price == ClearingPrice(a)
           fee == AuctionFee(price)
           paid(x) == IF u = s.winner THEN x ELSE 0
<1>1. PromisedEscrow!Payout(a, u, s) =
        Pledge(a, u) - (IF u = s.winner THEN s.gross ELSE 0)
        + (IF u = auction[a].seller THEN s.gross - AuctionFee(s.gross) ELSE 0)
        + (IF u = Platform THEN AuctionFee(s.gross) ELSE 0)
  BY SameArithmetic DEF PromisedEscrow!Payout, Pledges, Sellers
<1>2. Drawn(a, u) = Pledge(a, u) /\ Pledge(a, u) \in Nat
  BY DrawnIsPledge, PledgeType
<1>3. u # NoUser
  BY DEF Users, NoUser
<1>4. CASE w = NoUser
  <2>1. Credited(a, u) = 0 /\ Drawn(a, u) = 0
    BY <1>4 DEF Credited, Drawn
  <2>2. s.gross = 0 /\ s.winner = NoUser
    BY <1>4
  <2>3. AuctionFee(0) = 0
    BY DEF AuctionFee, Percent
  <2> QED
    BY <1>1, <1>2, <1>3, <2>1, <2>2, <2>3
<1>5. CASE w # NoUser
  <2>1. price \in Nat /\ fee \in Nat /\ HeldMax(a) \in Nat
    BY <1>5, WinnerIsTop, ClearingPriceBounds, AuctionFeeBound DEF HeldMax
  <2>2. LosingRelease(a, u) \in Nat
    BY DEF LosingRelease, TypeOK, AuctionRow
  <2>3. ExcessHold(a) \in Nat
    BY <2>1 DEF ExcessHold
  <2>4. Pledge(a, u) = LosingRelease(a, u) + (IF u = w THEN ExcessHold(a) + price ELSE 0)
    BY <1>2, <1>5 DEF Drawn
  <2>5. Credited(a, u) = LosingRelease(a, u) + (IF u = w THEN ExcessHold(a) ELSE 0)
                         + (IF u = auction[a].seller THEN price - fee ELSE 0)
                         + (IF u = Platform THEN fee ELSE 0)
    BY <1>5 DEF Credited, SellerNet
  <2>6. s.gross = price /\ s.winner = w /\ AuctionFee(s.gross) = fee
    BY <1>5
  <2> HIDE DEF w, price, fee
  <2> QED
    BY <1>1, <2>1, <2>2, <2>3, <2>4, <2>5, <2>6
<1> QED
  BY <1>4, <1>5

\* The sale a settlement records is one the escrow calls fair.
LEMMA SaleIsPromised ==
  ASSUME TypeOK, SealedBidsBeatOpenBid, SalesInv, NEW a \in Auctions, Unsettled(a),
         NEW s, Winner(a) = NoUser => s = PromisedEscrow!NoSale,
         Winner(a) # NoUser => s = [winner |-> Winner(a), gross |-> ClearingPrice(a)]
  PROVE  PromisedEscrow!Fair(a, s)
<1>1. \A u \in Users : /\ Pledges[a][u] = Pledge(a, u) /\ sealed[a][u] \in Nat /\ u # NoUser
                       /\ Pledge(a, u) = IF sealed[a][u] > 0 THEN sealed[a][u]
                                         ELSE IF auction[a].leader = u THEN auction[a].current
                                         ELSE 0
  <2>1. \A u \in Users : sealed[a][u] \in Nat
    BY DEF TypeOK
  <2>2. \A u \in Users : u # NoUser
    BY DEF Users, NoUser
  <2> QED
    BY <2>1, <2>2 DEF Pledges, Pledge
<1>2. CASE Winner(a) = NoUser
  <2>1. Candidates(a) = {}
    BY <1>2, WinnerIsTop
  <2>2. \A u \in Users : Pledges[a][u] = 0
    BY <1>1, <2>1 DEF Candidates
  <2> QED
    BY <1>2, <2>2, SameArithmetic DEF PromisedEscrow!Fair
<1>3. CASE Winner(a) # NoUser
  <2>1. Fair(SettlementOf(a), auction[a], sealed[a])
    BY <1>3, SettlementIsFair
  <2>2. Winner(a) \in Candidates(a) /\ Winner(a) \in Users
    BY <1>3, WinnerIsTop
  <2>3. s.winner = Winner(a) /\ s.gross = ClearingPrice(a)
    BY <1>3
  <2>4. /\ SettlementOf(a).winner = Winner(a) /\ SettlementOf(a).gross = ClearingPrice(a)
        /\ SettlementOf(a).maxBid = HeldMax(a)
    BY DEF SettlementOf
  <2>5. ClearingPrice(a) \in Nat /\ auction[a].current \in Nat
    BY <1>3, WinnerIsTop, ClearingPriceBounds DEF TypeOK, AuctionRow
  <2>6. Pledges[a][Winner(a)] = HeldMax(a)
    BY <1>1, <2>2 DEF HeldMax, CandidateMax, Candidates
  <2>7. ClearingPrice(a) <= HeldMax(a)
    BY <2>1, <2>4 DEF Fair
  <2>8. auction[a].current <= ClearingPrice(a)
    <3>1. ClearingPrice(a) >= AtLeast(Unit, auction[a].current)
      BY <2>1, <2>4 DEF Fair
    <3> QED
      BY <2>5, <3>1 DEF AtLeast, Unit
  <2>9. ASSUME NEW u \in Users \ {Winner(a)}
        PROVE  Pledges[a][u] <= ClearingPrice(a)
    <3>1. CASE sealed[a][u] > 0 \/ auction[a].leader = u
      <4>1. ClearingPrice(a) >= IF sealed[a][u] > 0 THEN sealed[a][u] ELSE auction[a].current
        BY <2>1, <2>4, <3>1 DEF Fair
      <4>2. Pledges[a][u] = IF sealed[a][u] > 0 THEN sealed[a][u] ELSE auction[a].current
        BY <1>1, <3>1
      <4> QED
        BY <1>1, <2>5, <4>1, <4>2
    <3>2. CASE ~(sealed[a][u] > 0 \/ auction[a].leader = u)
      <4>1. Pledges[a][u] = 0
        BY <1>1, <3>2
      <4> QED
        BY <2>5, <4>1
    <3> QED
      BY <3>1, <3>2
  <2>10. VisiblePrices[a] = auction[a].current
    BY DEF VisiblePrices
  <2> QED
    BY <1>3, <2>3, <2>6, <2>7, <2>8, <2>9, <2>10, SameArithmetic DEF PromisedEscrow!Fair
<1> QED
  BY <1>2, <1>3

\* A settlement tick concludes its batch and closes what else has expired; one
\* that does neither is a stutter.
LEMMA SettlementConcludes ==
  ASSUME TypeOK, SealedBidsBeatOpenBid, SalesInv, NoSaleUnrecorded, TypeOK',
         NEW B \in Batches, NEW value, Settle(B, value)
  PROVE  [PromisedEscrow!Next]_(PromisedEscrow!vars)
<1> DEFINE C == {a \in Auctions : a \notin B /\ Expired(a)}
           pay(u) == [a \in Auctions |-> IF a \in B
                        THEN PromisedEscrow!Payout(a, u, Sales'[a]) ELSE 0]
<1>1. B \in SUBSET Auctions /\ \A a \in B : Closed(a)
  BY DEF Batches
<1>2. \A a \in B : Unsettled(a) /\ PhaseOf(auction[a].status) \in {"open", "veiled", "closed"}
  BY <1>1, PhasesAre DEF Closed, Expired, Unsettled, LiveStatuses
<1>3. \A a \in C : PhaseOf(auction[a].status) \in {"open", "veiled"}
  BY PhasesAre DEF Expired, LiveStatuses
<1>4. C \in SUBSET (Auctions \ B)
  OBVIOUS
<1>5. ASSUME NEW a \in Auctions
      PROVE  /\ auction'[a].current = auction[a].current
             /\ auction'[a].leader = auction[a].leader
             /\ auction'[a].seller = auction[a].seller
             /\ auction'[a].status = IF a \in B THEN "SETTLED"
                                     ELSE IF a \in C THEN "CLOSED" ELSE auction[a].status
             /\ sealed'[a] = sealed[a]
  BY DEF Settle, IsClosedOnly, TypeOK, AuctionRow
<1>6. ASSUME NEW a \in Auctions, NEW u \in Users
      PROVE  Pledge(a, u)' = IF a \in B THEN 0 ELSE Pledge(a, u)
  <2>1. CASE a \in B
    BY <1>5, <2>1 DEF Pledge, Unsettled, LiveStatuses, OpenStatuses
  <2>2. CASE a \notin B
    <3>1. Unsettled(a)' <=> Unsettled(a)
      BY <1>5, <2>2 DEF Unsettled, Expired
    <3> QED
      BY <1>5, <2>2, <3>1 DEF Pledge
  <2> QED
    BY <2>1, <2>2
<1>7. Pledges' = [a \in Auctions |-> IF a \in B THEN [u \in Users |-> 0] ELSE Pledges[a]]
  <2>1. [a \in Auctions |-> [u \in Users |-> Pledge(a, u)']]
          = [a \in Auctions |-> IF a \in B THEN [u \in Users |-> 0] ELSE Pledges[a]]
    BY <1>6 DEF Pledges
  <2> QED
    BY <2>1, ViewAfter
<1>8. VisiblePrices' = VisiblePrices /\ Sellers' = Sellers
  BY <1>5, ViewAfter DEF VisiblePrices, Sellers
<1>9. Phases' = [a \in Auctions |->
        IF a \in B THEN "done" ELSE IF a \in C THEN "closed" ELSE Phases[a]]
  <2>1. \A a \in Auctions : PhaseOf(auction'[a].status) =
          IF a \in B THEN "done" ELSE IF a \in C THEN "closed" ELSE PhaseOf(auction[a].status)
    BY <1>5, PhasesAre
  <2> HIDE DEF C
  <2> QED
    BY <2>1, ViewAfter DEF Phases
<1>10. ASSUME NEW a \in B
       PROVE  /\ Winner(a) = NoUser => Sales'[a] = PromisedEscrow!NoSale
              /\ Winner(a) # NoUser =>
                   Sales'[a] = [winner |-> Winner(a), gross |-> ClearingPrice(a)]
  <2>1. Sales'[a] = [winner |-> settlement'[a].winner, gross |-> settlement'[a].gross]
    BY <1>1, ViewAfter
  <2>2. CASE Winner(a) = NoUser
    <3>1. auction[a].status # "SETTLED"
      BY <1>2 DEF Unsettled, LiveStatuses, OpenStatuses
    <3>2. settlement[a] = NoSettlement
      BY <1>1, <3>1 DEF SalesInv, NoSaleUnrecorded
    <3>3. settlement'[a] = NoSettlement
      BY <1>1, <2>2, <3>2 DEF Settle
    <3> QED
      BY <2>1, <2>2, <3>3, SameArithmetic DEF NoSettlement, PromisedEscrow!NoSale
  <2>3. CASE Winner(a) # NoUser
    <3>1. settlement'[a] = SettlementOf(a)
      BY <1>1, <2>3 DEF Settle
    <3> QED
      BY <2>1, <2>3, <3>1 DEF SettlementOf
  <2> QED
    BY <2>2, <2>3
<1>11. \A a \in B : PromisedEscrow!Fair(a, Sales'[a])
  BY <1>1, <1>2, <1>10, SaleIsPromised
<1>12. ASSUME NEW a \in Auctions, a \notin B
       PROVE  Sales'[a] = Sales[a]
  <2>1. settlement'[a] = settlement[a]
    BY <1>12 DEF Settle
  <2> QED
    BY <2>1, ViewAfter DEF Sales
<1>13. Sales' \in [Auctions -> PromisedEscrow!Sale]
  <2>1. \A a \in Auctions : /\ settlement'[a].winner \in Users \cup {NoUser}
                            /\ settlement'[a].gross \in Nat
    BY DEF TypeOK, SettlementRow
  <2> QED
    BY <2>1, ViewAfter, SameArithmetic DEF PromisedEscrow!Sale
<1>14. available' = [u \in Users |-> available[u] + PromisedEscrow!Total(pay(u), NumAuctions)]
  <2>1. ASSUME NEW u \in Users
        PROVE  CreditedBy(B, u) = PromisedEscrow!Total(pay(u), NumAuctions)
    <3>1. ASSUME NEW a \in B
          PROVE  Credited(a, u) = PromisedEscrow!Payout(a, u, Sales'[a])
      <4>1. /\ Sales'[a].winner = Winner(a)
            /\ Sales'[a].gross = IF Winner(a) = NoUser THEN 0 ELSE ClearingPrice(a)
        <5>1. CASE Winner(a) = NoUser
          <6>1. PromisedEscrow!NoSale = [winner |-> NoUser, gross |-> 0]
            BY SameArithmetic DEF PromisedEscrow!NoSale
          <6>2. Sales'[a] = [winner |-> NoUser, gross |-> 0]
            BY <1>10, <5>1, <6>1
          <6> QED
            BY <5>1, <6>2
        <5>2. CASE Winner(a) # NoUser
          <6>1. Sales'[a] = [winner |-> Winner(a), gross |-> ClearingPrice(a)]
            BY <1>10, <5>2
          <6> QED
            BY <5>2, <6>1
        <5> QED
          BY <5>1, <5>2
      <4> QED
        BY <1>1, <1>2, <4>1, CreditedIsPayout
    <3>2. pay(u) = [a \in Auctions |-> IF a \in B THEN Credited(a, u) ELSE 0]
      BY <3>1
    <3> HIDE DEF pay
    <3> QED
      BY <3>2, SameArithmetic DEF CreditedBy
  <2> HIDE DEF pay
  <2> QED
    BY <2>1 DEF Settle
<1>15. CASE B \cup C # {}
  <2>1. PromisedEscrow!Conclude(B, C)
    <3>1. /\ \A a \in B : Phases[a] \in {"open", "veiled", "closed"}
          /\ \A a \in C : Phases[a] \in {"open", "veiled"}
      BY <1>1, <1>2, <1>3 DEF Phases
    <3>2. \A a \in Auctions :
            IF a \in B THEN PromisedEscrow!Fair(a, Sales'[a]) ELSE Sales'[a] = Sales[a]
      BY <1>11, <1>12
    <3> HIDE DEF C
    <3> QED
      BY <1>7, <1>8, <1>9, <1>13, <1>14, <1>15, <3>1, <3>2, SameArithmetic
         DEF PromisedEscrow!Conclude
  <2> HIDE DEF C
  <2> QED
    BY <1>1, <1>4, <2>1, SameArithmetic DEF PromisedEscrow!Next
<1>16. CASE B \cup C = {}
  <2>1. Pledges' = Pledges /\ Phases' = Phases
    BY <1>7, <1>9, <1>16 DEF Pledges, Phases
  <2>2. Sales' = Sales
    BY <1>12, <1>16, ViewAfter DEF Sales
  <2>3. available' = available
    <3>1. ASSUME NEW u \in Users
          PROVE  PromisedEscrow!Total(pay(u), NumAuctions) = 0
      <4>1. \A i \in 1..NumAuctions : pay(u)[i] = 0
        BY <1>16 DEF Auctions
      <4> HIDE DEF pay
      <4> QED
        BY <4>1, SizesAssumption, TotalZero, SameArithmetic
    <3>2. available \in [Users -> Nat]
      BY DEF TypeOK
    <3> HIDE DEF pay
    <3> QED
      BY <1>14, <3>1, <3>2
  <2> QED
    BY <1>8, <2>1, <2>2, <2>3 DEF PromisedEscrow!vars
<1> QED
  BY <1>15, <1>16

LEMMA UnrecordedNext ==
  TypeOK /\ NoSaleUnrecorded /\ [Next]_vars => NoSaleUnrecorded'
<1> SUFFICES ASSUME TypeOK, NoSaleUnrecorded, [Next]_vars, NEW a \in Auctions,
                    settlement'[a].winner = NoUser
             PROVE  settlement'[a] = NoSettlement
  BY DEF NoSaleUnrecorded
<1>1. settlement'[a] \in {settlement[a], SettlementOf(a)}
      /\ (settlement'[a] # settlement[a] => Winner(a) # NoUser)
  BY RowSteps DEF RowKept, RowSealed, RowOpened, RowHiddenBid, RowOpenBid, RowClosed,
                  RowSettled, RestKept
<1>2. settlement'[a] = settlement[a]
  BY <1>1 DEF SettlementOf
<1> QED
  BY <1>2 DEF NoSaleUnrecorded

\* The inductive invariant.  Hidden maxima beat the visible price, so the pledge
\* of a bidder is the maximum he gave; an unused row carries no price; a sale is
\* fair; and there is none before the settlement.
EscrowInv ==
  TypeOK /\ SealedBidsBeatOpenBid /\ RowsShaped /\ SalesInv /\ NoSaleUnrecorded

LEMMA EscrowInvCorrect == Spec => []EscrowInv
<1>1. Init => EscrowInv
  <2>1. Init => NoSaleUnrecorded
    BY DEF Init, NoSaleUnrecorded
  <2> QED
    BY <2>1, InitType, SealedInit, ShapedInit, SalesInit DEF EscrowInv
<1>2. EscrowInv /\ [Next]_vars => EscrowInv'
  BY NextType, SealedNext, ShapedNext, SalesNext, UnrecordedNext DEF EscrowInv
<1> QED
  BY <1>1, <1>2, PTL DEF Spec

LEMMA StepsRefine ==
  EscrowInv /\ EscrowInv' /\ [Next]_vars => [PromisedEscrow!Next]_(PromisedEscrow!vars)
<1> SUFFICES ASSUME EscrowInv, EscrowInv', [Next]_vars
             PROVE  [PromisedEscrow!Next]_(PromisedEscrow!vars)
  OBVIOUS
<1> USE DEF EscrowInv
<1>1. CASE Tick \/ UNCHANGED vars
  <2>1. available' = available /\ \A a \in Auctions : RowKept(a)
    BY <1>1 DEF Tick, vars, balances, RowKept, RestKept
  <2> QED
    BY <2>1, SealingVeils
<1>2. ASSUME NEW S, SealAll(S), \A b \in S : DueForSealing(b)
      PROVE  [PromisedEscrow!Next]_(PromisedEscrow!vars)
  <2>1. available' = available /\ \A a \in Auctions : RowKept(a) \/ RowSealed(a)
    BY <1>2, SealAllSteps DEF SealAll, balances
  <2> QED
    BY <2>1, SealingVeils
<1>3. CASE GetLiveAuctions
  BY <1>2, <1>3 DEF GetLiveAuctions
<1>4. ASSUME NEW a \in Auctions, GetAuctionSnapshot(a)
      PROVE  [PromisedEscrow!Next]_(PromisedEscrow!vars)
  BY <1>2, <1>4 DEF GetAuctionSnapshot
<1>5. ASSUME NEW u \in Users, NEW c \in Cards, NEW d \in Durations, CreateAuction(u, c, d)
      PROVE  [PromisedEscrow!Next]_(PromisedEscrow!vars)
  BY <1>5, CreationOffers
<1>6. ASSUME NEW u \in Users, NEW a \in Auctions, NEW amount \in BidAmounts, NEW k \in Keys,
             NEW confirm \in BOOLEAN, NEW value \in MarketValues,
             PlaceBid(u, a, amount, k, confirm, value)
      PROVE  [PromisedEscrow!Next]_(PromisedEscrow!vars)
  BY <1>6, BidsRefine
<1>7. CASE SettlementTick
  <2>1. PICK B \in Batches, value \in [Cards -> MarketValues] : Settle(B, value)
    BY <1>7 DEF SettlementTick
  <2> QED
    BY <2>1, SettlementConcludes
<1> QED
  BY <1>1, <1>3, <1>4, <1>5, <1>6, <1>7 DEF Next

\* The auction service keeps the promise of the escrow, whatever the number of
\* users and auctions: each transaction is, on the tables, a step of it.
THEOREM EscrowImplemented == Spec => ImplementsEscrow
<1>1. Spec => []EscrowInv
  BY EscrowInvCorrect
<1>2. Spec => [][Next]_vars /\ Init
  BY DEF Spec
<1> QED
  BY <1>1, <1>2, EscrowInit, StepsRefine, PTL DEF ImplementsEscrow, PromisedEscrow!Spec
=============================================================================
