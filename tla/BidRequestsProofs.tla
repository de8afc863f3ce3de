-------------------------- MODULE BidRequestsProofs --------------------------
(***************************************************************************)
(* Bids and settlements, interleaved lock by lock, for any users, auctions,*)
(* keys, bids and numbers of requests: they are the whole steps of the     *)
(* escrow, and a key acts twice only after its bidder replaced that bid.   *)
(*                                                                         *)
(* Inv says what a transaction may rely on until it commits, because it    *)
(* holds the rows: the auction it has read is as it read it, the balances  *)
(* it has changed are those of the table with its changes made, and what   *)
(* it still has to do is the rest.  Only a commit changes an auction or a  *)
(* balance, and only one the others do not hold.                           *)
(***************************************************************************)
EXTENDS BidRequests, ArithmeticProofs

Row == [status : {"FREE", "LIVE", "SEALED_ENDGAME", "SETTLED"}, current : Nat,
        leader : Users \cup {Nobody}]
Funds == [available : Nat, held : Nat]
Move == [user : Users, by : Int, gain : Int]
Transaction ==
  [at : {"idle", "auction", "balances", "lots", "commit"}, key : Keys \cup {NoOne}, row : Row,
   rows : SUBSET Users, draft : [Users -> Funds], todo : Seq(Move), lots : SUBSET Auctions,
   lot : Nat]

Typed ==
  /\ auction \in [Auctions -> Row]
  /\ time \in [Auctions -> {"early", "late", "over"}]
  /\ balance \in [Users -> Funds]
  /\ sealed \in [Auctions -> [Users -> [max : Nat, key : Keys \cup {NoOne}]]]
  /\ bids \subseteq Keys /\ done \subseteq Keys
  /\ sale \in [Auctions -> [winner : Users \cup {Nobody}, gross : Nat]]
  /\ tx \in [Procs -> Transaction]

\* The tables.
AuctionFits(a) ==
  /\ auction[a].status = "FREE" => auction[a] = FreeRow
  /\ \A u \in Users :
       /\ sealed[a][u].max > 0 =>
            /\ auction[a].status \in {"SEALED_ENDGAME", "SETTLED"}
            /\ sealed[a][u].max >= MinimumBidFor(auction[a].current)
       /\ sealed[a][u].key = NoOne <=> sealed[a][u].max = 0
       /\ sealed[a][u].key # NoOne =>
            Bid[sealed[a][u].key] = [user |-> u, auction |-> a, amount |-> sealed[a][u].max]

KeysFit ==
  /\ \A k \in bids : auction[Bid[k].auction].current >= Bid[k].amount
  /\ \A k \in done : k \in bids \/ sealed[Bid[k].auction][Bid[k].user].key # NoOne

LocksFit ==
  \A p \in Procs : \A q \in Procs \ {p} :
    /\ tx[p].rows \cap tx[q].rows = {}
    /\ \A a \in Auctions : ~(HoldsAuction(p, a) /\ HoldsAuction(q, a))

Applied(c) ==
  [available |-> balance[c.user].available - c.by + c.gain, held |-> balance[c.user].held + c.by]

OwnChange(k) == Change(Bid[k].user, Bid[k].amount - Pledge(Bid[k].auction, Bid[k].user), 0)
LeaderChange(k) ==
  Change(auction[Bid[k].auction].leader, -auction[Bid[k].auction].current, 0)

Displaces(r) ==
  LET k == tx[r].key IN
  tx[r].row.status = "LIVE" /\ auction[Bid[k].auction].leader \notin {Bid[k].user, Nobody}

BidPending(r) ==
  LET k == tx[r].key
      a == Bid[k].auction
      u == Bid[k].user
      own == OwnChange(k)
      other == LeaderChange(k)
  IN
  /\ auction[a].status \in {"LIVE", "SEALED_ENDGAME"} /\ Seller[a] # u
  /\ HighEnough(a, Bid[k].amount)
  /\ tx[r].row.current = auction[a].current /\ tx[r].row.leader = auction[a].leader
  /\ tx[r].row.status = auction[a].status \/ tx[r].row.status = "SEALED_ENDGAME"
  /\ \/ /\ tx[r].at = "balances" /\ tx[r].rows = {}
        /\ tx[r].todo = IF Displaces(r) THEN <<own, other>> ELSE <<own>>
     \/ /\ tx[r].at = "balances" /\ Displaces(r) /\ tx[r].rows = {u} /\ tx[r].todo = <<other>>
        /\ tx[r].draft[u] = Applied(own)
     \/ /\ tx[r].at = "commit"
        /\ tx[r].rows = IF Displaces(r) THEN {u, auction[a].leader} ELSE {u}
        /\ tx[r].draft[u] = Applied(own)
        /\ Displaces(r) => tx[r].draft[auction[a].leader] = Applied(other)

RequestFits(r) ==
  /\ tx[r].at # "lots" /\ tx[r].lots = {}
  /\ tx[r].at \in {"idle", "auction"} => tx[r].rows = {}
  /\ tx[r].key = NoOne <=> tx[r].at = "idle"
  /\ tx[r].at \in {"balances", "commit"} => BidPending(r)

Gain(c, u) == IF c.user = u THEN c.gain - c.by ELSE 0
Rest(todo, u) == Total([n \in DOMAIN todo |-> Gain(todo[n], u)], Len(todo))

Payout(a, u) ==
  IF Bidders(a) = {} THEN 0
  ELSE Pledge(a, u) - (IF u = Winner(a) THEN Price(a) ELSE 0)
       + (IF u = Seller[a] THEN Price(a) - AuctionFee(Price(a)) ELSE 0)
       + (IF u = Platform THEN AuctionFee(Price(a)) ELSE 0)

Paid(u) ==
  Total([a \in Auctions |-> IF a \in tx[Settler].lots /\ a <= tx[Settler].lot
                            THEN Payout(a, u) ELSE 0], NumAuctions)

SettlerFits ==
  LET t == tx[Settler] IN
  /\ t.at # "auction" /\ t.key = NoOne
  /\ t.at = "idle" => t.lots = {} /\ t.rows = {} /\ t.lot = 0
  /\ t.at # "idle" => t.lots # {}
  /\ \A a \in t.lots : auction[a].status \in {"LIVE", "SEALED_ENDGAME"}
  /\ t.at # "balances" <=> t.todo = <<>>
  /\ t.at = "commit" => \A a \in t.lots : a <= t.lot
  /\ \A u \in Users :
       IF u \in t.rows THEN t.draft[u].available + Rest(t.todo, u) = balance[u].available + Paid(u)
       ELSE Rest(t.todo, u) = Paid(u)

Inv ==
  /\ Typed
  /\ \A a \in Auctions : AuctionFits(a)
  /\ KeysFit
  /\ LocksFit
  /\ \A r \in Requests : RequestFits(r)
  /\ SettlerFits

-----------------------------------------------------------------------------
(* The constants, and the types *)

LEMMA BidFacts ==
  ASSUME NEW k \in Keys
  PROVE  Bid[k].user \in Users /\ Bid[k].auction \in Auctions /\ Bid[k].amount \in Nat
BY BidsAssumption

LEMMA ProcFacts ==
  /\ Settler \in Procs /\ Settler \notin Requests
  /\ \A r \in Requests : r \in Procs /\ r # Settler
  /\ \A p \in Procs : p = Settler \/ p \in Requests
  /\ NoOne \notin Keys /\ Nobody \notin Users
<1>1. Nobody \notin Users
  BY DEF Nobody, Users
<1> QED
  BY <1>1, BidsAssumption DEF Procs

LEMMA IdleType == Idle \in Transaction /\ FreeRow \in Row
<1>1. FreeRow \in Row
  BY DEF FreeRow, Row
<1>2. [u \in Users |-> NoFunds] \in [Users -> Funds]
  BY DEF NoFunds, Funds
<1>3. <<>> \in Seq(Move)
  OBVIOUS
<1> QED
  BY <1>1, <1>2, <1>3 DEF Idle, Transaction

LEMMA PledgeType ==
  ASSUME Typed, NEW a \in Auctions, NEW u \in Users
  PROVE  Pledge(a, u) \in Nat
BY DEF Pledge, Typed, Row

LEMMA StakesType ==
  ASSUME Typed, NEW a \in Auctions
  PROVE  Stakes(a) \in [Users -> Nat]
BY PledgeType DEF Stakes

-----------------------------------------------------------------------------
(* What a step of one process leaves to the others *)

\* A request relies on the auction and the balances it has locked, and on itself.
LEMMA RequestStays ==
  ASSUME Typed, NEW r \in Requests, RequestFits(r), tx'[r] = tx[r],
         tx[r].at \in {"balances", "commit"} =>
           /\ auction'[Bid[tx[r].key].auction] = auction[Bid[tx[r].key].auction]
           /\ sealed'[Bid[tx[r].key].auction] = sealed[Bid[tx[r].key].auction],
         \A u \in tx[r].rows : balance'[u] = balance[u]
  PROVE  RequestFits(r)'
<1>1. CASE tx[r].at \notin {"balances", "commit"}
  BY <1>1 DEF RequestFits
<1>2. CASE tx[r].at \in {"balances", "commit"}
  <2> DEFINE k == tx[r].key
             a == Bid[k].auction
             u == Bid[k].user
  <2>1. auction'[a] = auction[a] /\ sealed'[a] = sealed[a]
    BY <1>2
  <2>2. BidPending(r)
    BY <1>2 DEF RequestFits
  <2>3. Pledge(a, u)' = Pledge(a, u)
    BY <2>1 DEF Pledge
  <2>4. OwnChange(k)' = OwnChange(k) /\ LeaderChange(k)' = LeaderChange(k)
    BY <2>1, <2>3 DEF OwnChange, LeaderChange, Change
  <2>5. Displaces(r)' <=> Displaces(r)
    BY <2>1 DEF Displaces
  <2>6. OwnChange(k).user = u /\ LeaderChange(k).user = auction[a].leader
    BY DEF OwnChange, LeaderChange, Change
  <2>7. u \in tx[r].rows => Applied(OwnChange(k))' = Applied(OwnChange(k))
    BY <2>4, <2>6 DEF Applied
  <2>8. auction[a].leader \in tx[r].rows => Applied(LeaderChange(k))' = Applied(LeaderChange(k))
    BY <2>4, <2>6 DEF Applied
  <2>9. HighEnough(a, Bid[k].amount)' <=> HighEnough(a, Bid[k].amount)
    BY <2>1 DEF HighEnough
  <2>10. BidPending(r)'
    BY <2>1, <2>2, <2>4, <2>5, <2>7, <2>8, <2>9 DEF BidPending
  <2> QED
    BY <1>2, <2>10 DEF RequestFits
<1> QED
  BY <1>1, <1>2

LEMMA PayoutStays ==
  ASSUME NEW a \in Auctions, NEW u \in Users,
         auction'[a] = auction[a], sealed'[a] = sealed[a]
  PROVE  Payout(a, u)' = Payout(a, u) /\ Stakes(a)' = Stakes(a)
<1>1. \A v \in Users : Pledge(a, v)' = Pledge(a, v)
  BY DEF Pledge
<1>2. Stakes(a)' = Stakes(a)
  BY <1>1 DEF Stakes
<1>3. Bidders(a)' = Bidders(a) /\ Winner(a)' = Winner(a) /\ Price(a)' = Price(a)
  BY <1>2 DEF Bidders, Winner, Price
<1> QED
  BY <1>1, <1>2, <1>3 DEF Payout

LEMMA PaidStays ==
  ASSUME NEW u \in Users, tx[Settler].lots \subseteq Auctions,
         tx'[Settler].lots = tx[Settler].lots, tx'[Settler].lot = tx[Settler].lot,
         \A a \in tx[Settler].lots : auction'[a] = auction[a] /\ sealed'[a] = sealed[a]
  PROVE  Paid(u)' = Paid(u)
<1> DEFINE f == [a \in Auctions |-> IF a \in tx[Settler].lots /\ a <= tx[Settler].lot
                                    THEN Payout(a, u) ELSE 0]
           g == [a \in Auctions |-> IF a \in tx'[Settler].lots /\ a <= tx'[Settler].lot
                                    THEN Payout(a, u)' ELSE 0]
<1>1. g = f
  BY PayoutStays
<1>2. Paid(u)' = Total(g, NumAuctions) /\ Paid(u) = Total(f, NumAuctions)
  BY DEF Paid
<1> QED
  BY <1>1, <1>2

\* The settlement worker relies on the auctions of its batch and on the balances it
\* has locked.
LEMMA SettlerStays ==
  ASSUME Typed, SettlerFits, tx'[Settler] = tx[Settler], balance' \in [Users -> Funds],
         \A a \in tx[Settler].lots : auction'[a] = auction[a] /\ sealed'[a] = sealed[a],
         \A u \in tx[Settler].rows : balance'[u] = balance[u]
  PROVE  SettlerFits'
<1>1. tx[Settler].lots \subseteq Auctions
  BY ProcFacts DEF Typed, Transaction
<1>2. \A u \in Users : Paid(u)' = Paid(u)
  BY <1>1, PaidStays
<1> QED
  BY <1>1, <1>2 DEF SettlerFits

-----------------------------------------------------------------------------
(* Winners and prices *)

LEMMA TopIsTop ==
  ASSUME NEW stakes \in [Users -> Nat], Candidates(stakes) # {}
  PROVE  /\ TopCandidate(stakes) \in Candidates(stakes)
         /\ \A u \in Candidates(stakes) : stakes[u] <= stakes[TopCandidate(stakes)]
<1> DEFINE C == Candidates(stakes)
<1>1. /\ NumUsers \in Nat /\ (\A u \in 1..NumUsers : stakes[u] \in Nat)
      /\ C \subseteq 1..NumUsers /\ C # {}
  BY BidsAssumption DEF Candidates, Users
<1>2. \E w \in C : \A u \in C : stakes[w] > stakes[u] \/ (stakes[w] = stakes[u] /\ w <= u)
  <2> HIDE DEF C
  <2> QED
    BY <1>1, TopExists
<1>3. /\ TopCandidate(stakes) \in C
      /\ \A u \in C : \/ stakes[TopCandidate(stakes)] > stakes[u]
                      \/ stakes[TopCandidate(stakes)] = stakes[u] /\ TopCandidate(stakes) <= u
  BY <1>2 DEF TopCandidate
<1>4. \A u \in C : stakes[u] \in Nat
  BY DEF Candidates
<1> HIDE DEF C
<1>5. \A u \in C : stakes[u] <= stakes[TopCandidate(stakes)]
  BY <1>3, <1>4
<1> QED
  BY <1>3, <1>5 DEF C

\* The best of the other stakes.
LEMMA NextExists ==
  ASSUME NEW stakes \in [Users -> Nat], NEW C \in SUBSET Users, C # {}
  PROVE  \E n \in {stakes[u] : u \in C} : \A m \in {stakes[u] : u \in C} : n >= m
<1>1. NumUsers \in Nat /\ (\A u \in 1..NumUsers : stakes[u] \in Nat) /\ C \subseteq 1..NumUsers
  BY BidsAssumption DEF Users
<1>2. PICK w \in C : \A u \in C : stakes[w] > stakes[u] \/ (stakes[w] = stakes[u] /\ w <= u)
  BY <1>1, TopExists
<1>3. \A u \in C : stakes[w] >= stakes[u]
  BY <1>1, <1>2
<1> QED
  BY <1>3

\* The price of a sale lies between every other stake and the winner's, and is not
\* below the visible price.
LEMMA PriceFacts ==
  ASSUME NEW stakes \in [Users -> Nat], NEW row \in Row, Candidates(stakes) # {},
         \A u \in Candidates(stakes) : stakes[u] >= row.current
  PROVE  /\ SecondPrice(stakes, row) \in Nat
         /\ row.current <= SecondPrice(stakes, row)
         /\ SecondPrice(stakes, row) <= stakes[TopCandidate(stakes)]
         /\ \A u \in Users \ {TopCandidate(stakes)} : stakes[u] <= SecondPrice(stakes, row)
<1> DEFINE w == TopCandidate(stakes)
           others == Candidates(stakes) \ {w}
           rest == {stakes[u] : u \in others}
           next == CHOOSE n \in rest : \A m \in rest : n >= m
           price == SecondPrice(stakes, row)
<1>1. /\ w \in Users /\ stakes[w] \in Nat /\ stakes[w] >= row.current /\ row.current \in Nat
      /\ \A u \in Candidates(stakes) : stakes[u] <= stakes[w]
  BY TopIsTop DEF Candidates, Row
<1>2. \A u \in Users : stakes[u] \in Nat /\ (u \notin Candidates(stakes) => stakes[u] = 0)
  BY DEF Candidates
<1>3. CASE rest # {}
  <2>1. others \in SUBSET Users /\ others # {}
    BY <1>3 DEF Candidates
  <2>2. \E n \in rest : \A m \in rest : n >= m
    <3> HIDE DEF w
    <3> QED
      BY <2>1, NextExists
  <2>3. next \in rest /\ \A m \in rest : next >= m
    BY <2>2
  <2>4. \A u \in others : next >= stakes[u]
    BY <2>3
  <2>5. price = AtMost(stakes[w], next + MinIncrement(next))
    BY <1>3 DEF SecondPrice
  <2>6. next \in Nat /\ next <= stakes[w] /\ next >= row.current
    <3>1. PICK u \in others : next = stakes[u]
      BY <2>3
    <3> HIDE DEF next, others
    <3> QED
      BY <1>1, <1>2, <3>1 DEF others, Candidates
  <2>7. MinIncrement(next) \in Nat
    BY <2>6, IncrementType
  <2> HIDE DEF next, price, w, rest
  <2>8. price \in Nat /\ price >= next /\ price <= stakes[w] /\ row.current <= price
    BY <1>1, <2>5, <2>6, <2>7 DEF AtMost
  <2>9. \A u \in Users \ {w} : stakes[u] <= price
    <3>1. \A u \in others : stakes[u] \in Nat
      BY <1>2, <2>1
    <3>2. \A u \in Users \ {w} : u \notin others => stakes[u] = 0
      BY <1>2
    <3> QED
      BY <2>4, <2>6, <2>8, <3>1, <3>2
  <2> QED
    BY <2>8, <2>9 DEF w, price
<1>4. CASE rest = {}
  <2>1. \A u \in Users \ {w} : stakes[u] = 0
    BY <1>2, <1>4
  <2>2. MinimumBidFor(row.current) \in Nat /\ MinimumBidFor(row.current) >= row.current
    BY <1>1, MinimumBidGrows DEF Unit
  <2>3. price \in {row.current, AtMost(stakes[w], MinimumBidFor(row.current))}
    <3>1. CASE w = row.leader
      BY <1>4, <3>1 DEF SecondPrice
    <3>2. CASE w # row.leader
      BY <1>4, <3>2 DEF SecondPrice
    <3> QED
      BY <3>1, <3>2
  <2>4. AtMost(stakes[w], MinimumBidFor(row.current)) \in {stakes[w], MinimumBidFor(row.current)}
        /\ AtMost(stakes[w], MinimumBidFor(row.current)) <= stakes[w]
    BY <1>1, <2>2 DEF AtMost
  <2> HIDE DEF price, w, rest
  <2>5. price \in Nat /\ row.current <= price /\ price <= stakes[w]
    BY <1>1, <2>2, <2>3, <2>4
  <2>6. \A u \in Users \ {w} : stakes[u] <= price
    BY <2>1, <2>5
  <2> QED
    BY <2>5, <2>6 DEF w, price
<1> QED
  BY <1>3, <1>4

\* Whoever has a stake has at least the visible price at stake.
LEMMA StakesCover ==
  ASSUME Typed, NEW a \in Auctions, AuctionFits(a), NEW u \in Candidates(Stakes(a))
  PROVE  Stakes(a)[u] >= auction[a].current
<1>1. u \in Users /\ Stakes(a)[u] = Pledge(a, u) /\ Pledge(a, u) > 0
  BY DEF Candidates, Stakes
<1>2. auction[a].current \in Nat
  BY DEF Typed, Row
<1>3. CASE sealed[a][u].max > 0
  <2>1. Pledge(a, u) = sealed[a][u].max /\ sealed[a][u].max >= MinimumBidFor(auction[a].current)
    BY <1>1, <1>3 DEF Pledge, AuctionFits
  <2>2. /\ MinimumBidFor(auction[a].current) \in Nat
        /\ MinimumBidFor(auction[a].current) >= auction[a].current
    BY <1>2, MinimumBidGrows DEF Unit
  <2>3. sealed[a][u].max \in Nat
    BY <1>1 DEF Typed
  <2> QED
    BY <1>1, <1>2, <2>1, <2>2, <2>3
<1>4. CASE ~(sealed[a][u].max > 0)
  BY <1>1, <1>2, <1>4 DEF Pledge
<1> QED
  BY <1>3, <1>4

LEMMA WinnerFacts ==
  ASSUME Typed, NEW a \in Auctions, AuctionFits(a), Bidders(a) # {}
  PROVE  /\ Winner(a) \in Users /\ Winner(a) \in Bidders(a)
         /\ Price(a) \in Nat /\ AuctionFee(Price(a)) \in Nat
         /\ AuctionFee(Price(a)) <= Price(a)
         /\ auction[a].current <= Price(a) /\ Price(a) <= Pledge(a, Winner(a))
         /\ \A u \in Users \ {Winner(a)} : Pledge(a, u) <= Price(a)
<1>1. /\ Stakes(a) \in [Users -> Nat] /\ auction[a] \in Row /\ Candidates(Stakes(a)) # {}
      /\ \A u \in Candidates(Stakes(a)) : Stakes(a)[u] >= auction[a].current
  BY StakesType, StakesCover DEF Typed, Bidders
<1>2. /\ Price(a) \in Nat
      /\ auction[a].current <= Price(a)
      /\ Price(a) <= Stakes(a)[Winner(a)]
      /\ \A u \in Users \ {Winner(a)} : Stakes(a)[u] <= Price(a)
  BY <1>1, PriceFacts DEF Price, Winner
<1>3. Winner(a) \in Bidders(a) /\ Winner(a) \in Users
  BY <1>1, TopIsTop DEF Winner, Bidders, Candidates
<1>4. \A u \in Users : Stakes(a)[u] = Pledge(a, u)
  BY DEF Stakes
<1>5. AuctionFee(Price(a)) \in Nat /\ AuctionFee(Price(a)) <= Price(a)
  BY <1>2, AuctionFeeBound
<1> QED
  BY <1>2, <1>3, <1>4, <1>5

-----------------------------------------------------------------------------
(* What is left to pay *)

\* The first term of a sum can be taken out instead of the last.
LEMMA TotalHead ==
  ASSUME NEW f, NEW g, NEW n \in Nat,
         \A i \in 1..(n + 1) : f[i] \in Int,
         \A i \in 1..n : g[i] = f[i + 1]
  PROVE  Total(f, n + 1) = f[1] + Total(g, n)
<1> DEFINE S == {k \in Nat : k <= n => Total(f, k + 1) = f[1] + Total(g, k)}
<1>1. 0 \in S
  <2>1. Total(f, 0 + 1) = Total(f, 0) + f[0 + 1] /\ Total(f, 0) = 0 /\ Total(g, 0) = 0
    BY TotalStep
  <2>2. f[1] \in Int
    OBVIOUS
  <2> QED
    BY <2>1, <2>2
<1>2. ASSUME NEW k \in Nat, k \in S PROVE k + 1 \in S
  <2>1. SUFFICES ASSUME k + 1 <= n PROVE Total(f, k + 1 + 1) = f[1] + Total(g, k + 1)
    OBVIOUS
  <2>2. k + 1 \in 1..n /\ k + 1 + 1 \in 1..(n + 1) /\ 1 \in 1..(n + 1)
    BY <2>1
  <2>3. /\ Total(f, k + 1 + 1) = Total(f, k + 1) + f[k + 1 + 1]
        /\ Total(g, k + 1) = Total(g, k) + g[k + 1]
    BY TotalStep
  <2>4. g[k + 1] = f[k + 1 + 1] /\ f[k + 1 + 1] \in Int /\ f[1] \in Int
    BY <2>2
  <2>5. Total(f, k + 1) = f[1] + Total(g, k)
    BY <1>2, <2>1
  <2>6. Total(g, k) \in Int
    <3>1. \A i \in 1..k : i \in 1..n /\ i + 1 \in 1..(n + 1)
      BY <2>1
    <3>2. \A i \in 1..k : g[i] \in Int
      BY <3>1
    <3> QED
      BY <3>2, TotalType
  <2> QED
    BY <2>3, <2>4, <2>5, <2>6
<1> HIDE DEF S
<1>3. n \in S
  BY <1>1, <1>2, SetInduction
<1> QED
  BY <1>3 DEF S

LEMMA GainType ==
  ASSUME NEW c \in Move, NEW u
  PROVE  Gain(c, u) \in Int
BY DEF Gain, Move

LEMMA RestNone == \A u : Rest(<<>>, u) = 0
<1> SUFFICES ASSUME NEW u PROVE Rest(<<>>, u) = 0
  OBVIOUS
<1>1. Len(<<>>) = 0
  OBVIOUS
<1> QED
  BY <1>1, TotalStep DEF Rest

LEMMA RestType ==
  ASSUME NEW todo \in Seq(Move), NEW u
  PROVE  Rest(todo, u) \in Int
<1> DEFINE f == [n \in DOMAIN todo |-> Gain(todo[n], u)]
<1>1. Len(todo) \in Nat /\ DOMAIN todo = 1..Len(todo)
  OBVIOUS
<1>2. \A n \in 1..Len(todo) : f[n] \in Int
  BY <1>1, GainType
<1> HIDE DEF f
<1>3. Total(f, Len(todo)) \in Int
  BY <1>1, <1>2, TotalType
<1> QED
  BY <1>3 DEF Rest, f

LEMMA RestHead ==
  ASSUME NEW todo \in Seq(Move), todo # <<>>, NEW u
  PROVE  Rest(todo, u) = Gain(Head(todo), u) + Rest(Tail(todo), u)
<1> DEFINE f == [n \in DOMAIN todo |-> Gain(todo[n], u)]
           g == [n \in DOMAIN Tail(todo) |-> Gain(Tail(todo)[n], u)]
           m == Len(Tail(todo))
<1>1. /\ m \in Nat /\ Len(todo) = m + 1 /\ DOMAIN todo = 1..(m + 1)
      /\ DOMAIN Tail(todo) = 1..m /\ Head(todo) = todo[1]
      /\ \A n \in 1..m : Tail(todo)[n] = todo[n + 1]
  OBVIOUS
<1>2. \A n \in 1..(m + 1) : f[n] \in Int
  BY <1>1, GainType
<1>3. \A n \in 1..m : g[n] = f[n + 1]
  BY <1>1
<1>4. f[1] = Gain(Head(todo), u)
  BY <1>1
<1>5. Rest(todo, u) = Total(f, m + 1) /\ Rest(Tail(todo), u) = Total(g, m)
  BY <1>1 DEF Rest
<1> HIDE DEF f, g, m
<1>6. Total(f, m + 1) = f[1] + Total(g, m)
  BY <1>1, <1>2, <1>3, TotalHead
<1> QED
  BY <1>4, <1>5, <1>6

LEMMA PayoutType ==
  ASSUME Typed, NEW a \in Auctions, AuctionFits(a), NEW u \in Users
  PROVE  Payout(a, u) \in Int
<1>1. CASE Bidders(a) = {}
  BY <1>1 DEF Payout
<1>2. CASE Bidders(a) # {}
  <2>1. Price(a) \in Nat /\ AuctionFee(Price(a)) \in Nat /\ Pledge(a, u) \in Nat
    BY <1>2, WinnerFacts, PledgeType
  <2> QED
    BY <2>1 DEF Payout
<1> QED
  BY <1>1, <1>2

\* The sequence of payments, term by term.
LEMMA PaymentTerms ==
  ASSUME Typed, NEW a \in Auctions, AuctionFits(a), Bidders(a) # {}, NEW losers \in Ranked(a)
  PROVE  LET w == Winner(a)
             fee == AuctionFee(Price(a))
             m == Cardinality(Bidders(a) \ {w})
         IN
         /\ m \in Nat /\ DOMAIN losers = 1..m
         /\ losers \in [1..m -> Bidders(a) \ {w}]
         /\ \A u \in Bidders(a) \ {w} : \E n \in 1..m : losers[n] = u
         /\ \A i, j \in 1..m : losers[i] = losers[j] => i = j
         /\ Payments(a, losers) \in Seq(Move)
         /\ Len(Payments(a, losers)) = m + 3
         /\ \A n \in 1..m :
              Payments(a, losers)[n] = Change(losers[n], -Pledge(a, losers[n]), 0)
         /\ Payments(a, losers)[m + 1] = Change(w, -Pledge(a, w), -Price(a))
         /\ Payments(a, losers)[m + 2] = Change(Seller[a], 0, Price(a) - fee)
         /\ Payments(a, losers)[m + 3] = Change(Platform, 0, fee)
<1> DEFINE w == Winner(a)
           fee == AuctionFee(Price(a))
           S == Bidders(a) \ {w}
           m == Cardinality(S)
           first == [n \in DOMAIN losers |-> Change(losers[n], -Pledge(a, losers[n]), 0)]
           c1 == Change(w, -Pledge(a, w), -Price(a))
           c2 == Change(Seller[a], 0, Price(a) - fee)
           c3 == Change(Platform, 0, fee)
<1>1. m \in Nat
  <2>1. NumUsers \in Int /\ 1 \in Int
    BY BidsAssumption
  <2>2. IsFiniteSet(Users)
    BY <2>1, FS_Interval, Zenon DEF Users
  <2>3. S \subseteq Users
    BY DEF Bidders, Candidates
  <2>4. IsFiniteSet(S)
    BY <2>2, <2>3, FS_Subset
  <2> QED
    BY <2>4, FS_CardinalityType
<1>2. losers \in Bijection(1..m, S)
  BY DEF Ranked
<1>3. /\ losers \in [1..m -> S]
      /\ \A u \in S : \E n \in 1..m : losers[n] = u
      /\ \A i, j \in 1..m : losers[i] = losers[j] => i = j
  BY <1>2 DEF Bijection, Injection, Surjection, IsInjective
<1>4. DOMAIN losers = 1..m
  BY <1>3
<1>5. /\ Price(a) \in Nat /\ fee \in Nat /\ w \in Users
      /\ \A u \in Users : Pledge(a, u) \in Nat
  BY WinnerFacts, PledgeType
<1>6. Seller[a] \in Users /\ Platform \in Users
  BY BidsAssumption
<1>7. c1 \in Move /\ c2 \in Move /\ c3 \in Move
  BY <1>5, <1>6 DEF Change, Move
<1>8. \A n \in 1..m : losers[n] \in Users
  BY <1>3 DEF Bidders, Candidates
<1>9. \A n \in 1..m : first[n] \in Move
  <2>1. \A v \in Users : Change(v, -Pledge(a, v), 0) \in Move
    BY <1>5 DEF Change, Move
  <2> QED
    BY <1>4, <1>8, <2>1
<1>10. first \in Seq(Move) /\ Len(first) = m /\ DOMAIN first = 1..m
  <2>1. first \in [1..m -> Move]
    BY <1>4, <1>9
  <2> HIDE DEF first, m
  <2> QED
    BY <1>1, <2>1
<1>11. Payments(a, losers) = first \o <<c1, c2, c3>>
  BY DEF Payments
<1>12. \A n \in 1..m : first[n] = Change(losers[n], -Pledge(a, losers[n]), 0)
  BY <1>4
<1> HIDE DEF first, c1, c2, c3, m, S
<1>13. <<c1, c2, c3>> \in Seq(Move) /\ Len(<<c1, c2, c3>>) = 3
  BY <1>7
<1>14. /\ first \o <<c1, c2, c3>> \in Seq(Move)
       /\ Len(first \o <<c1, c2, c3>>) = m + 3
       /\ \A n \in 1..m : (first \o <<c1, c2, c3>>)[n] = first[n]
       /\ (first \o <<c1, c2, c3>>)[m + 1] = c1
       /\ (first \o <<c1, c2, c3>>)[m + 2] = c2
       /\ (first \o <<c1, c2, c3>>)[m + 3] = c3
  BY <1>1, <1>10, <1>13
<1>15. \A n \in 1..m : Payments(a, losers)[n] = Change(losers[n], -Pledge(a, losers[n]), 0)
  BY <1>11, <1>12, <1>14
<1> QED
  BY <1>1, <1>3, <1>4, <1>11, <1>14, <1>15 DEF c1, c2, c3, m, S

\* A sum with one term.
Single(n, a, x) == [i \in 1..n |-> IF i = a THEN x ELSE 0]

LEMMA TotalSingle ==
  ASSUME NEW n \in Nat, NEW a \in 1..n, NEW x \in Int
  PROVE  Total(Single(n, a, x), n) = x
<1> DEFINE z == [i \in 1..n |-> 0]
           h == Single(n, a, x)
<1>1. /\ n \in Nat /\ a \in 1..n /\ x \in Int
      /\ \A i \in 1..n : z[i] \in Int
      /\ \A i \in 1..n : h[i] = IF i = a THEN z[i] + x ELSE z[i]
  BY DEF Single
<1>2. \A i \in 1..n : z[i] = 0
  OBVIOUS
<1> HIDE DEF z, h
<1>3. Total(h, n) = Total(z, n) + x
  BY <1>1, TotalUpdate
<1>4. Total(z, n) = 0
  BY <1>2, TotalZero
<1> QED
  BY <1>3, <1>4 DEF h

\* What a user gets while the losers are paid back.
Repaid(losers, m, u, x) == [n \in 1..m |-> IF losers[n] = u THEN x ELSE 0]

LEMMA LosersAreRepaid ==
  ASSUME NEW m \in Nat, NEW S, NEW losers \in [1..m -> S],
         \A v \in S : \E n \in 1..m : losers[n] = v,
         \A i, j \in 1..m : losers[i] = losers[j] => i = j,
         NEW u, NEW x \in Int
  PROVE  Total(Repaid(losers, m, u, x), m) = IF u \in S THEN x ELSE 0
<1> DEFINE f == Repaid(losers, m, u, x)
<1>1. CASE u \in S
  <2>1. PICK j \in 1..m : losers[j] = u
    BY <1>1
  <2> DEFINE h == Single(m, j, x)
  <2>2. \A n \in 1..m : f[n] = h[n]
    BY <2>1 DEF Repaid, Single
  <2>3. Total(h, m) = x
    BY <2>1, TotalSingle
  <2> HIDE DEF f, h
  <2>4. Total(f, m) = Total(h, m)
    BY <2>2, TotalSame
  <2> QED
    BY <1>1, <2>3, <2>4 DEF f
<1>2. CASE u \notin S
  <2>1. \A n \in 1..m : f[n] = 0
    BY <1>2 DEF Repaid
  <2> HIDE DEF f
  <2>2. Total(f, m) = 0
    BY <2>1, TotalZero
  <2> QED
    BY <1>2, <2>2 DEF f
<1> QED
  BY <1>1, <1>2

\* The payments of a lot add up to what its sale promises everybody.
LEMMA PaymentsPay ==
  ASSUME Typed, NEW a \in Auctions, AuctionFits(a), Bidders(a) # {}, NEW losers \in Ranked(a),
         NEW u \in Users
  PROVE  Rest(Payments(a, losers), u) = Payout(a, u)
<1> DEFINE P == Payments(a, losers)
           w == Winner(a)
           fee == AuctionFee(Price(a))
           S == Bidders(a) \ {w}
           m == Cardinality(S)
           f == [n \in DOMAIN P |-> Gain(P[n], u)]
<1>1. /\ m \in Nat /\ losers \in [1..m -> S]
      /\ \A v \in S : \E n \in 1..m : losers[n] = v
      /\ \A i, j \in 1..m : losers[i] = losers[j] => i = j
  BY PaymentTerms
<1>2. /\ P \in Seq(Move) /\ Len(P) = m + 3
      /\ \A n \in 1..m : P[n] = Change(losers[n], -Pledge(a, losers[n]), 0)
      /\ P[m + 1] = Change(w, -Pledge(a, w), -Price(a))
      /\ P[m + 2] = Change(Seller[a], 0, Price(a) - fee)
      /\ P[m + 3] = Change(Platform, 0, fee)
  BY PaymentTerms
<1>3. /\ Price(a) \in Nat /\ fee \in Nat /\ w \in Users /\ w \in Bidders(a)
      /\ \A v \in Users : Pledge(a, v) \in Nat
  BY WinnerFacts, PledgeType
<1>4. DOMAIN P = 1..(m + 3)
  <2> HIDE DEF P
  <2> QED
    BY <1>2
<1> HIDE DEF P, m, w, fee
<1>5. \A n \in 1..(m + 3) : f[n] = Gain(P[n], u)
  BY <1>4
<1>6. m + 1 \in 1..(m + 3) /\ m + 2 \in 1..(m + 3) /\ m + 3 \in 1..(m + 3)
  BY <1>1
<1>7. /\ f[m + 1] = IF w = u THEN Pledge(a, w) - Price(a) ELSE 0
      /\ f[m + 2] = IF Seller[a] = u THEN Price(a) - fee ELSE 0
      /\ f[m + 3] = IF Platform = u THEN fee ELSE 0
  BY <1>2, <1>3, <1>5, <1>6 DEF Gain, Change
<1>8. \A n \in 1..m : f[n] = IF losers[n] = u THEN Pledge(a, u) ELSE 0
  <2>1. ASSUME NEW n \in 1..m PROVE f[n] = IF losers[n] = u THEN Pledge(a, u) ELSE 0
    <3>1. losers[n] \in Users
      BY <1>1 DEF Bidders, Candidates
    <3>2. n \in 1..(m + 3)
      BY <1>1
    <3>3. /\ P[n].user = losers[n] /\ P[n].by = -Pledge(a, losers[n]) /\ P[n].gain = 0
      <4>1. P[n] = Change(losers[n], -Pledge(a, losers[n]), 0)
        BY <1>2
      <4> QED
        BY <4>1 DEF Change
    <3>4. f[n] = IF losers[n] = u THEN P[n].gain - P[n].by ELSE 0
      BY <1>5, <3>2, <3>3 DEF Gain
    <3>5. Pledge(a, losers[n]) \in Nat
      BY <1>3, <3>1
    <3> QED
      BY <3>3, <3>4, <3>5
  <2> QED
    BY <2>1
<1>9. Total(f, m) = IF u \in S THEN Pledge(a, u) ELSE 0
  <2> DEFINE x == Pledge(a, u)
             g == Repaid(losers, m, u, x)
  <2>1. /\ x \in Int /\ m \in Nat /\ losers \in [1..m -> S]
        /\ \A v \in S : \E n \in 1..m : losers[n] = v
        /\ \A i, j \in 1..m : losers[i] = losers[j] => i = j
    BY <1>1, <1>3
  <2> HIDE DEF f, S
  <2>2. \A n \in 1..m : f[n] = g[n]
    BY <1>8 DEF Repaid
  <2> HIDE DEF x
  <2>3. Total(g, m) = IF u \in S THEN x ELSE 0
    BY <2>1, LosersAreRepaid
  <2> HIDE DEF g
  <2>4. Total(f, m) = Total(g, m)
    BY <2>1, <2>2, TotalSame
  <2> QED
    BY <2>3, <2>4 DEF x
<1>10. Total(f, m + 3) = Total(f, m) + f[m + 1] + f[m + 2] + f[m + 3]
  <2>1. /\ Total(f, m + 1) = Total(f, m) + f[m + 1]
        /\ Total(f, m + 1 + 1) = Total(f, m + 1) + f[m + 1 + 1]
        /\ Total(f, m + 1 + 1 + 1) = Total(f, m + 1 + 1) + f[m + 1 + 1 + 1]
    <3> HIDE DEF f
    <3> QED
      BY <1>1, TotalStep
  <2>2. m + 1 + 1 = m + 2 /\ m + 1 + 1 + 1 = m + 3
    BY <1>1
  <2> HIDE DEF f
  <2> QED
    BY <2>1, <2>2
<1>11. Rest(P, u) = Total(f, m + 3)
  BY <1>2 DEF Rest
<1>12. Bidders(a) # {} /\ (u \notin Bidders(a) => Pledge(a, u) = 0)
  BY <1>3 DEF Bidders, Candidates, Stakes
<1>13. Payout(a, u) = Pledge(a, u) - (IF u = w THEN Price(a) ELSE 0)
                      + (IF u = Seller[a] THEN Price(a) - fee ELSE 0)
                      + (IF u = Platform THEN fee ELSE 0)
  BY <1>12 DEF Payout, w, fee
<1> HIDE DEF f
<1>14. CASE u = w
  <2>1. u \notin S
    BY <1>14
  <2> QED
    BY <1>3, <1>7, <1>9, <1>10, <1>11, <1>13, <1>14, <2>1 DEF P
<1>15. CASE u # w
  <2>1. Total(f, m) = Pledge(a, u)
    BY <1>9, <1>12, <1>15
  <2> QED
    BY <1>3, <1>7, <1>10, <1>11, <1>13, <1>15, <2>1 DEF P
<1> QED
  BY <1>14, <1>15

-----------------------------------------------------------------------------
(* A step of one process *)

LEMMA OthersFit ==
  ASSUME Inv, NEW q \in Procs, tx'[q] = tx[q], balance' \in [Users -> Funds],
         \A a \in Auctions :
           HoldsAuction(q, a) => auction'[a] = auction[a] /\ sealed'[a] = sealed[a],
         \A u \in tx[q].rows : balance'[u] = balance[u]
  PROVE  /\ q \in Requests => RequestFits(q)'
         /\ q = Settler => SettlerFits'
<1>1. ASSUME q \in Requests PROVE RequestFits(q)'
  <2>1. Typed /\ RequestFits(q)
    BY <1>1 DEF Inv
  <2>2. CASE tx[q].at \in {"balances", "commit"}
    <3>1. tx[q].key # NoOne /\ tx[q].key \in Keys
      BY <2>1, <2>2 DEF RequestFits, Typed, Transaction
    <3>2. HoldsAuction(q, Bid[tx[q].key].auction) /\ Bid[tx[q].key].auction \in Auctions
      BY <2>2, <3>1, BidFacts DEF HoldsAuction
    <3> QED
      BY <1>1, <2>1, <3>2, RequestStays
  <2>3. CASE tx[q].at \notin {"balances", "commit"}
    BY <1>1, <2>1, <2>3, RequestStays
  <2> QED
    BY <2>2, <2>3
<1>2. ASSUME q = Settler PROVE SettlerFits'
  <2>1. Typed /\ SettlerFits /\ tx[Settler].lots \subseteq Auctions
    BY ProcFacts DEF Inv, Typed, Transaction
  <2>2. \A a \in tx[Settler].lots : auction'[a] = auction[a] /\ sealed'[a] = sealed[a]
    BY <1>2, <2>1 DEF HoldsAuction
  <2> QED
    BY <1>2, <2>1, <2>2, SettlerStays
<1> QED
  BY <1>1, <1>2

LEMMA LocksStay ==
  ASSUME Inv, NEW p \in Procs, \A q \in Procs \ {p} : tx'[q] = tx[q],
         \A u \in tx'[p].rows : u \in tx[p].rows \/ BalanceFree(p, u),
         \A a \in Auctions : HoldsAuction(p, a)' => HoldsAuction(p, a) \/ AuctionFree(a)
  PROVE  LocksFit'
<1>1. LocksFit
  BY DEF Inv
<1>2. \A q \in Procs \ {p} : \A a \in Auctions : HoldsAuction(q, a)' <=> HoldsAuction(q, a)
  BY DEF HoldsAuction
<1>3. \A q \in Procs \ {p} : tx'[p].rows \cap tx'[q].rows = {}
  BY <1>1 DEF LocksFit, BalanceFree
<1>4. \A q \in Procs \ {p} : \A a \in Auctions : ~(HoldsAuction(p, a)' /\ HoldsAuction(q, a)')
  BY <1>1, <1>2 DEF LocksFit, AuctionFree
<1>5. ASSUME NEW q \in Procs, NEW o \in Procs \ {q}
      PROVE  /\ tx'[q].rows \cap tx'[o].rows = {}
             /\ \A a \in Auctions : ~(HoldsAuction(q, a)' /\ HoldsAuction(o, a)')
  <2>1. CASE q = p
    BY <1>3, <1>4, <2>1
  <2>2. CASE o = p
    BY <1>3, <1>4, <2>2
  <2>3. CASE q # p /\ o # p
    BY <1>1, <1>2, <2>3 DEF LocksFit
  <2> QED
    BY <2>1, <2>2, <2>3
<1> QED
  BY <1>5 DEF LocksFit

\* A step that writes no table.
LEMMA QuietStep ==
  ASSUME Inv, NEW p \in Procs, NEW t \in Transaction, UNCHANGED <<tables, time>>,
         tx' = [tx EXCEPT ![p] = t],
         \A u \in t.rows : u \in tx[p].rows \/ BalanceFree(p, u),
         \A a \in Auctions : HoldsAuction(p, a)' => HoldsAuction(p, a) \/ AuctionFree(a),
         p \in Requests => RequestFits(p)',
         p = Settler => SettlerFits'
  PROVE  Inv'
<1>1. Typed /\ KeysFit /\ \A a \in Auctions : AuctionFits(a)
  BY DEF Inv
<1>2. /\ auction' = auction /\ balance' = balance /\ sealed' = sealed /\ bids' = bids
      /\ sale' = sale /\ done' = done /\ time' = time
  BY DEF tables
<1>3. tx'[p] = t /\ \A q \in Procs \ {p} : tx'[q] = tx[q]
  BY <1>1 DEF Typed
<1>4. Typed'
  BY <1>1, <1>2 DEF Typed
<1>5. KeysFit' /\ \A a \in Auctions : AuctionFits(a)'
  BY <1>1, <1>2 DEF KeysFit, AuctionFits
<1>6. LocksFit'
  BY <1>3, LocksStay
<1>7. \A q \in Procs \ {p} : /\ q \in Requests => RequestFits(q)'
                             /\ q = Settler => SettlerFits'
  BY <1>2, <1>3, <1>4, OthersFit DEF Typed
<1>8. (\A r \in Requests : RequestFits(r)') /\ SettlerFits'
  BY <1>7, ProcFacts
<1> QED
  BY <1>4, <1>5, <1>6, <1>8 DEF Inv

LEMMA IdleFits ==
  ASSUME NEW p \in Procs, tx'[p] = Idle
  PROVE  /\ \A a \in Auctions : ~HoldsAuction(p, a)'
         /\ RequestFits(p)'
         /\ p = Settler => SettlerFits'
<1>1. /\ Idle.at = "idle" /\ Idle.key = NoOne /\ Idle.rows = {} /\ Idle.lots = {}
      /\ Idle.lot = 0 /\ Idle.todo = <<>>
  BY DEF Idle
<1>2. \A a \in Auctions : ~HoldsAuction(p, a)'
  BY <1>1 DEF HoldsAuction
<1>3. RequestFits(p)'
  BY <1>1 DEF RequestFits
<1>4. p = Settler => SettlerFits'
  <2>1. SUFFICES ASSUME p = Settler PROVE SettlerFits'
    OBVIOUS
  <2>2. \A u \in Users : Paid(u)' = 0
    <3>1. SUFFICES ASSUME NEW u \in Users PROVE Paid(u)' = 0
      OBVIOUS
    <3> DEFINE f == [a \in Auctions |-> IF a \in tx'[Settler].lots /\ a <= tx'[Settler].lot
                                        THEN Payout(a, u)' ELSE 0]
    <3>2. NumAuctions \in Nat /\ \A a \in 1..NumAuctions : f[a] = 0
      BY <1>1, <2>1, BidsAssumption DEF Auctions
    <3>3. Paid(u)' = Total(f, NumAuctions)
      BY DEF Paid
    <3> HIDE DEF f
    <3> QED
      BY <3>2, <3>3, TotalZero
  <2>3. \A u : Rest(tx'[Settler].todo, u) = 0
    BY <1>1, <2>1, RestNone
  <2> QED
    BY <1>1, <2>1, <2>2, <2>3 DEF SettlerFits
<1> QED
  BY <1>2, <1>3, <1>4

LEMMA AbortKeeps ==
  ASSUME Inv, NEW p \in Procs, Abort(p), UNCHANGED <<tables, time>>
  PROVE  Inv'
<1>1. tx' = [tx EXCEPT ![p] = Idle] /\ tx'[p] = Idle
  BY DEF Inv, Typed, Abort, Ends
<1>2. Idle \in Transaction /\ Idle.rows = {}
  BY IdleType DEF Idle
<1> QED
  BY <1>1, <1>2, IdleFits, QuietStep

-----------------------------------------------------------------------------
(* The steps of a request before it commits *)

LEMMA RequestFacts ==
  ASSUME Inv, NEW r \in Requests
  PROVE  /\ Typed /\ RequestFits(r) /\ tx[r] \in Transaction /\ r \in Procs /\ r # Settler
         /\ tx[r].key # NoOne => tx[r].key \in Keys
BY ProcFacts DEF Inv, Typed, Transaction

LEMMA ArriveKeeps ==
  ASSUME Inv, NEW r \in Requests, NEW k \in Keys, Arrive(r, k)
  PROVE  Inv'
<1> DEFINE t == [tx[r] EXCEPT !.at = "auction", !.key = k]
<1>1. /\ Typed /\ RequestFits(r) /\ tx[r] \in Transaction /\ r \in Procs /\ r # Settler
      /\ tx[r].at = "idle"
  BY RequestFacts DEF Arrive
<1>2. t \in Transaction
  BY <1>1 DEF Transaction
<1>3. /\ t.at = "auction" /\ t.key = k /\ t.rows = {} /\ t.lots = {}
  BY <1>1 DEF RequestFits, Transaction
<1>4. tx' = [tx EXCEPT ![r] = t]
  BY <1>1 DEF Arrive, Typed
<1> HIDE DEF t
<1>5. tx'[r] = t
  BY <1>1, <1>4 DEF Typed
<1>6. \A a \in Auctions : ~HoldsAuction(r, a)'
  BY <1>3, <1>5 DEF HoldsAuction
<1>7. RequestFits(r)'
  BY <1>3, <1>5, ProcFacts DEF RequestFits
<1>8. UNCHANGED <<tables, time>>
  BY DEF Arrive
<1> QED
  BY <1>1, <1>2, <1>3, <1>4, <1>6, <1>7, <1>8, QuietStep

\* What a bid still has to change, from the auction as it is promoted.
LEMMA PromotedFacts ==
  ASSUME Typed, NEW a \in Auctions
  PROVE  /\ Promoted(a) \in Row
         /\ Promoted(a).current = auction[a].current
         /\ Promoted(a).leader = auction[a].leader
         /\ Promoted(a).status = auction[a].status \/ Promoted(a).status = "SEALED_ENDGAME"
         /\ auction[a].status = "SEALED_ENDGAME" => Promoted(a).status = "SEALED_ENDGAME"
BY DEF Typed, Row, Promoted

LEMMA ChangesType ==
  ASSUME Typed, NEW k \in Keys
  PROVE  /\ OwnChange(k) \in Move
         /\ auction[Bid[k].auction].leader # Nobody => LeaderChange(k) \in Move
<1>1. /\ Bid[k].user \in Users /\ Bid[k].auction \in Auctions /\ Bid[k].amount \in Nat
      /\ Pledge(Bid[k].auction, Bid[k].user) \in Nat
  BY BidFacts, PledgeType
<1>2. OwnChange(k) \in Move
  BY <1>1 DEF OwnChange, Change, Move
<1>3. /\ auction[Bid[k].auction].leader \in Users \cup {Nobody}
      /\ auction[Bid[k].auction].current \in Nat
  BY <1>1 DEF Typed, Row
<1>4. auction[Bid[k].auction].leader # Nobody => LeaderChange(k) \in Move
  BY <1>3 DEF LeaderChange, Change, Move
<1> QED
  BY <1>2, <1>4

LEMMA LockAuctionKeeps ==
  ASSUME Inv, NEW r \in Requests, LockAuction(r)
  PROVE  Inv'
<1> DEFINE k == tx[r].key
           a == Bid[k].auction
           u == Bid[k].user
           t == [tx[r] EXCEPT !.at = "balances", !.row = Promoted(a), !.todo = Changes(k)]
<1>1. /\ Typed /\ RequestFits(r) /\ tx[r] \in Transaction /\ r \in Procs /\ r # Settler
      /\ tx[r].at = "auction" /\ AuctionFree(a) /\ UNCHANGED <<tables, time>>
  BY RequestFacts DEF LockAuction
<1>2. k \in Keys /\ k # NoOne /\ tx[r].rows = {} /\ tx[r].lots = {}
  BY <1>1, RequestFacts DEF RequestFits
<1>3. CASE Abort(r)
  BY <1>1, <1>3, AbortKeeps
<1>4. CASE Admitted(k) /\ tx' = [tx EXCEPT ![r].at = "balances", ![r].row = Promoted(a),
                                           ![r].todo = Changes(k)]
  <2>1. u \in Users /\ a \in Auctions /\ Bid[k].amount \in Nat
    BY <1>2, BidFacts
  <2>2. /\ auction[a].status \in {"LIVE", "SEALED_ENDGAME"} /\ Seller[a] # u
        /\ HighEnough(a, Bid[k].amount)
    BY <1>4 DEF Admitted
  <2>3. /\ Promoted(a) \in Row
        /\ Promoted(a).current = auction[a].current /\ Promoted(a).leader = auction[a].leader
        /\ Promoted(a).status = auction[a].status \/ Promoted(a).status = "SEALED_ENDGAME"
        /\ auction[a].status = "SEALED_ENDGAME" => Promoted(a).status = "SEALED_ENDGAME"
    BY <1>1, <2>1, PromotedFacts
  <2>4. Changes(k) = IF Promoted(a).status = "LIVE" /\ auction[a].leader \notin {u, Nobody}
                     THEN <<OwnChange(k), LeaderChange(k)>> ELSE <<OwnChange(k)>>
    <3>1. Promoted(a).status = "SEALED_ENDGAME" <=> Promoted(a).status # "LIVE"
      BY <2>2, <2>3
    <3> QED
      BY <3>1 DEF Changes, OwnChange, LeaderChange
  <2>5. OwnChange(k) \in Move /\ (auction[a].leader # Nobody => LeaderChange(k) \in Move)
    BY <1>1, <1>2, ChangesType
  <2>6. Changes(k) \in Seq(Move)
    BY <2>4, <2>5
  <2>7. t \in Transaction
    BY <1>1, <2>3, <2>6 DEF Transaction
  <2>8. /\ t.at = "balances" /\ t.key = k /\ t.row = Promoted(a) /\ t.rows = {} /\ t.lots = {}
        /\ t.todo = Changes(k)
    BY <1>1, <1>2 DEF Transaction
  <2>9. tx' = [tx EXCEPT ![r] = t]
    BY <1>1, <1>4 DEF Typed
  <2> HIDE DEF t
  <2>10. tx'[r] = t
    BY <1>1, <2>9 DEF Typed
  <2>11. \A b \in Auctions : HoldsAuction(r, b)' => HoldsAuction(r, b) \/ AuctionFree(b)
    BY <1>1, <2>8, <2>10 DEF HoldsAuction
  <2>12. auction' = auction /\ sealed' = sealed /\ balance' = balance
    BY <1>1 DEF tables
  <2>13. OwnChange(k)' = OwnChange(k) /\ LeaderChange(k)' = LeaderChange(k)
    BY <2>8, <2>10, <2>12 DEF OwnChange, LeaderChange, Pledge
  <2>14. Displaces(r)' <=> Promoted(a).status = "LIVE" /\ auction[a].leader \notin {u, Nobody}
    BY <2>8, <2>10, <2>12 DEF Displaces
  <2>15. HighEnough(a, Bid[k].amount)'
    BY <2>2, <2>8, <2>10, <2>12 DEF HighEnough
  <2>16. BidPending(r)'
    BY <2>2, <2>3, <2>4, <2>8, <2>10, <2>12, <2>13, <2>14, <2>15 DEF BidPending
  <2>17. RequestFits(r)'
    BY <1>2, <2>8, <2>10, <2>16 DEF RequestFits
  <2> QED
    BY <1>1, <2>7, <2>8, <2>9, <2>11, <2>17, QuietStep
<1> QED
  BY <1>3, <1>4 DEF LockAuction

\* A change of a balance that covers it is a change of the funds it was made from.
LEMMA ChangedFacts ==
  ASSUME Typed, NEW p \in Procs, NEW c \in Move, Covered(Changed(p, c))
  PROVE  /\ Changed(p, c) \in Funds
         /\ c.user \notin tx[p].rows => Changed(p, c) = Applied(c)
         /\ Changed(p, c).available =
              (IF c.user \in tx[p].rows THEN tx[p].draft[c.user] ELSE balance[c.user]).available
              + Gain(c, c.user)
<1> DEFINE old == IF c.user \in tx[p].rows THEN tx[p].draft[c.user] ELSE balance[c.user]
           b == Changed(p, c)
<1>1. c.user \in Users /\ c.by \in Int /\ c.gain \in Int
  BY DEF Move
<1>2. old \in Funds
  BY <1>1 DEF Typed, Transaction
<1>3. old.available \in Nat /\ old.held \in Nat
  BY <1>2 DEF Funds
<1>4. b = [available |-> old.available - c.by + c.gain, held |-> old.held + c.by]
  BY DEF Changed
<1>5. b.available >= 0 /\ b.held >= 0
  BY DEF Covered
<1> HIDE DEF old, b
<1>6. b.available = old.available - c.by + c.gain /\ b.held = old.held + c.by
  BY <1>4
<1>7. b \in Funds
  BY <1>1, <1>3, <1>4, <1>5, <1>6 DEF Funds
<1>8. Gain(c, c.user) = c.gain - c.by
  BY DEF Gain
<1>9. b.available = old.available + Gain(c, c.user)
  BY <1>1, <1>3, <1>6, <1>8
<1>10. c.user \notin tx[p].rows => b = Applied(c)
  BY <1>4 DEF Applied, old
<1> QED
  BY <1>7, <1>9, <1>10 DEF b, old

\* What one more balance makes of a transaction.
Advanced(p) ==
  LET c == Head(tx[p].todo) IN
  [tx[p] EXCEPT !.rows = @ \cup {c.user}, !.draft[c.user] = Changed(p, c),
                !.todo = Tail(@),
                !.at = IF Len(tx[p].todo) > 1 THEN @
                       ELSE IF p = Settler THEN "lots" ELSE "commit"]

LEMMA AdvancedFacts ==
  ASSUME Typed, NEW p \in Procs, tx[p].todo # <<>>, Covered(Changed(p, Head(tx[p].todo)))
  PROVE  LET c == Head(tx[p].todo)
             t == Advanced(p)
         IN
         /\ c \in Move /\ c.user \in Users
         /\ t \in Transaction
         /\ t.rows = tx[p].rows \cup {c.user}
         /\ t.draft[c.user] = Changed(p, c)
         /\ \A u \in Users \ {c.user} : t.draft[u] = tx[p].draft[u]
         /\ t.todo = Tail(tx[p].todo)
         /\ t.key = tx[p].key /\ t.row = tx[p].row /\ t.lots = tx[p].lots /\ t.lot = tx[p].lot
         /\ t.at = IF Len(tx[p].todo) > 1 THEN tx[p].at
                   ELSE IF p = Settler THEN "lots" ELSE "commit"
<1> DEFINE c == Head(tx[p].todo)
           b == Changed(p, c)
           t == Advanced(p)
           at == IF Len(tx[p].todo) > 1 THEN tx[p].at
                 ELSE IF p = Settler THEN "lots" ELSE "commit"
           draft == [tx[p].draft EXCEPT ![c.user] = b]
<1>1. tx[p] \in Transaction /\ tx[p].todo \in Seq(Move) /\ tx[p].draft \in [Users -> Funds]
      /\ tx[p].rows \subseteq Users
  BY DEF Typed, Transaction
<1>2. c \in Move /\ c.user \in Users
  <2>1. \A s \in Seq(Move) : s # <<>> => Head(s) \in Move
    OBVIOUS
  <2>2. c \in Move
    BY <1>1, <2>1
  <2> QED
    BY <2>2 DEF Move
<1>3. b \in Funds
  BY <1>2, ChangedFacts
<1>4. Tail(tx[p].todo) \in Seq(Move)
  BY <1>1
<1> HIDE DEF c, b
<1>5. draft \in [Users -> Funds] /\ draft[c.user] = b
      /\ \A u \in Users \ {c.user} : draft[u] = tx[p].draft[u]
  BY <1>1, <1>2, <1>3
<1>6. at \in {"idle", "auction", "balances", "lots", "commit"}
  BY <1>1 DEF Transaction
<1>7. t = [tx[p] EXCEPT !.rows = tx[p].rows \cup {c.user}, !.draft = draft,
                        !.todo = Tail(tx[p].todo), !.at = at]
  BY DEF Advanced, c, b
<1> HIDE DEF t, at, draft
<1>8. tx[p].rows \cup {c.user} \in SUBSET Users
  BY <1>1, <1>2
<1>9. t \in Transaction
  BY <1>1, <1>4, <1>5, <1>6, <1>7, <1>8 DEF Transaction
<1>10. /\ t.rows = tx[p].rows \cup {c.user} /\ t.draft = draft /\ t.todo = Tail(tx[p].todo)
       /\ t.key = tx[p].key /\ t.row = tx[p].row /\ t.lots = tx[p].lots /\ t.lot = tx[p].lot
       /\ t.at = at
  BY <1>1, <1>7 DEF Transaction
<1> QED
  BY <1>2, <1>5, <1>9, <1>10 DEF c, b, t, at

\* The step of ChangesBalance that does not abort.
Advances(p) ==
  /\ tx[p].at = "balances" /\ tx[p].todo # <<>> /\ BalanceFree(p, Head(tx[p].todo).user)
  /\ Covered(Changed(p, Head(tx[p].todo)))
  /\ tx' = [tx EXCEPT ![p] = Advanced(p)]
  /\ UNCHANGED <<tables, time>>

LEMMA ChangesBalanceCases ==
  ASSUME Typed, NEW p \in Procs, ChangesBalance(p)
  PROVE  Advances(p) \/ (Abort(p) /\ UNCHANGED <<tables, time>>)
BY DEF Typed, ChangesBalance, Advances, Advanced

LEMMA RequestAdvances ==
  ASSUME Inv, NEW r \in Requests, Advances(r)
  PROVE  Inv'
<1> DEFINE k == tx[r].key
           a == Bid[k].auction
           u == Bid[k].user
           l == auction[a].leader
           own == OwnChange(k)
           other == LeaderChange(k)
           t == Advanced(r)
           c == Head(tx[r].todo)
<1>1. /\ Typed /\ RequestFits(r) /\ tx[r] \in Transaction /\ r \in Procs /\ r # Settler
      /\ tx[r].at = "balances" /\ tx[r].todo # <<>> /\ UNCHANGED <<tables, time>>
      /\ BalanceFree(r, c.user) /\ Covered(Changed(r, c)) /\ tx' = [tx EXCEPT ![r] = t]
  BY RequestFacts DEF Advances
<1>2. k # NoOne /\ k \in Keys /\ tx[r].lots = {} /\ BidPending(r)
  BY <1>1, RequestFacts DEF RequestFits
<1>3. u \in Users /\ a \in Auctions
  BY <1>2, BidFacts
<1>4. /\ c \in Move /\ c.user \in Users /\ t \in Transaction
      /\ t.rows = tx[r].rows \cup {c.user} /\ t.draft[c.user] = Changed(r, c)
      /\ \A v \in Users \ {c.user} : t.draft[v] = tx[r].draft[v]
      /\ t.todo = Tail(tx[r].todo)
      /\ t.key = k /\ t.row = tx[r].row /\ t.lots = {}
      /\ t.at = IF Len(tx[r].todo) > 1 THEN "balances" ELSE "commit"
  BY <1>1, <1>2, AdvancedFacts
<1>5. tx'[r] = t
  BY <1>1 DEF Typed
<1>6. c.user \notin tx[r].rows => t.draft[c.user] = Applied(c)
  BY <1>1, <1>4, ChangedFacts
<1> HIDE DEF t
<1>7. auction' = auction /\ sealed' = sealed /\ balance' = balance
  BY <1>1 DEF tables
<1>8. /\ OwnChange(k)' = own /\ LeaderChange(k)' = other
      /\ Displaces(r)' <=> Displaces(r)
      /\ HighEnough(a, Bid[k].amount)' <=> HighEnough(a, Bid[k].amount)
  BY <1>4, <1>5, <1>7 DEF OwnChange, LeaderChange, Pledge, Displaces, HighEnough
<1>9. own.user = u /\ other.user = l
  BY DEF OwnChange, LeaderChange, Change
<1>10. Applied(own)' = Applied(own) /\ Applied(other)' = Applied(other)
  BY <1>7, <1>8 DEF Applied
<1>11. Displaces(r) => l # u
  BY DEF Displaces
<1>12. /\ auction[a].status \in {"LIVE", "SEALED_ENDGAME"} /\ Seller[a] # u
       /\ HighEnough(a, Bid[k].amount)
       /\ t.row.current = auction[a].current /\ t.row.leader = auction[a].leader
       /\ t.row.status = auction[a].status \/ t.row.status = "SEALED_ENDGAME"
  BY <1>2, <1>4 DEF BidPending
<1>13. \/ /\ t.at = "balances" /\ t.rows = {}
          /\ t.todo = IF Displaces(r) THEN <<own, other>> ELSE <<own>>
       \/ /\ t.at = "balances" /\ Displaces(r) /\ t.rows = {u} /\ t.todo = <<other>>
          /\ t.draft[u] = Applied(own)
       \/ /\ t.at = "commit"
          /\ t.rows = IF Displaces(r) THEN {u, l} ELSE {u}
          /\ t.draft[u] = Applied(own)
          /\ Displaces(r) => t.draft[l] = Applied(other)
  <2>1. \/ /\ tx[r].rows = {}
           /\ tx[r].todo = IF Displaces(r) THEN <<own, other>> ELSE <<own>>
        \/ /\ Displaces(r) /\ tx[r].rows = {u} /\ tx[r].todo = <<other>>
           /\ tx[r].draft[u] = Applied(own)
    BY <1>1, <1>2 DEF BidPending
  <2> HIDE DEF own, other, l, u
  <2>2. CASE tx[r].rows = {} /\ Displaces(r) /\ tx[r].todo = <<own, other>>
    <3>1. c = own /\ Tail(tx[r].todo) = <<other>> /\ Len(tx[r].todo) = 2
      BY <2>2
    <3> QED
      BY <1>4, <1>6, <1>9, <2>2, <3>1
  <2>3. CASE tx[r].rows = {} /\ ~Displaces(r) /\ tx[r].todo = <<own>>
    <3>1. c = own /\ Len(tx[r].todo) = 1
      BY <2>3
    <3> QED
      BY <1>4, <1>6, <1>9, <2>3, <3>1
  <2>4. CASE /\ Displaces(r) /\ tx[r].rows = {u} /\ tx[r].todo = <<other>>
             /\ tx[r].draft[u] = Applied(own)
    <3>1. c = other /\ Len(tx[r].todo) = 1
      BY <2>4
    <3> QED
      BY <1>3, <1>4, <1>6, <1>9, <1>11, <2>4, <3>1
  <2> QED
    BY <2>1, <2>2, <2>3, <2>4
<1>14. BidPending(r)'
  <2>1. k' = k /\ a' = a /\ u' = u /\ l' = l /\ own' = own /\ other' = other
    BY <1>4, <1>5, <1>7, <1>8
  <2>2. /\ auction'[a] = auction[a] /\ tx'[r].row = t.row /\ tx'[r].at = t.at
        /\ tx'[r].rows = t.rows /\ tx'[r].todo = t.todo /\ tx'[r].draft = t.draft
    BY <1>5, <1>7
  <2>3. /\ auction'[a].status \in {"LIVE", "SEALED_ENDGAME"} /\ Seller[a] # u
        /\ HighEnough(a, Bid[k].amount)'
        /\ tx'[r].row.current = auction'[a].current /\ tx'[r].row.leader = auction'[a].leader
        /\ tx'[r].row.status = auction'[a].status \/ tx'[r].row.status = "SEALED_ENDGAME"
    BY <1>8, <1>12, <2>2
  <2> HIDE DEF own, other, l
  <2>4. \/ /\ tx'[r].at = "balances" /\ tx'[r].rows = {}
           /\ tx'[r].todo = IF Displaces(r)' THEN <<own', other'>> ELSE <<own'>>
        \/ /\ tx'[r].at = "balances" /\ Displaces(r)' /\ tx'[r].rows = {u}
           /\ tx'[r].todo = <<other'>> /\ tx'[r].draft[u] = Applied(own)'
        \/ /\ tx'[r].at = "commit"
           /\ tx'[r].rows = IF Displaces(r)' THEN {u, l'} ELSE {u}
           /\ tx'[r].draft[u] = Applied(own)'
           /\ Displaces(r)' => tx'[r].draft[l'] = Applied(other)'
    BY <1>8, <1>10, <1>13, <2>1, <2>2
  <2> QED
    BY <2>1, <2>3, <2>4 DEF BidPending, own, other, l
<1>15. RequestFits(r)'
  BY <1>2, <1>4, <1>5, <1>14 DEF RequestFits
<1>16. \A b \in Auctions : HoldsAuction(r, b)' => HoldsAuction(r, b)
  BY <1>1, <1>2, <1>4, <1>5 DEF HoldsAuction
<1>17. \A v \in t.rows : v \in tx[r].rows \/ BalanceFree(r, v)
  BY <1>1, <1>4
<1> QED
  BY <1>1, <1>4, <1>15, <1>16, <1>17, QuietStep

-----------------------------------------------------------------------------
(* The steps of the settlement before it commits *)

LEMMA SettlerFacts ==
  ASSUME Inv
  PROVE  /\ Typed /\ SettlerFits /\ tx[Settler] \in Transaction /\ Settler \in Procs
         /\ tx[Settler].lots \subseteq Auctions /\ tx[Settler].lot \in Nat
         /\ \A a \in Auctions : AuctionFits(a)
BY ProcFacts DEF Inv, Typed, Transaction

LEMMA PaidType ==
  ASSUME Inv, NEW u \in Users
  PROVE  Paid(u) \in Int
<1> DEFINE f == [a \in Auctions |-> IF a \in tx[Settler].lots /\ a <= tx[Settler].lot
                                    THEN Payout(a, u) ELSE 0]
<1>1. \A a \in Auctions : Payout(a, u) \in Int
  BY SettlerFacts, PayoutType
<1>2. NumAuctions \in Nat /\ \A a \in 1..NumAuctions : f[a] \in Int
  BY <1>1, BidsAssumption DEF Auctions
<1> HIDE DEF f
<1>3. Total(f, NumAuctions) \in Int
  BY <1>2, TotalType
<1> QED
  BY <1>3 DEF Paid, f

\* The next lot adds its payouts.
LEMMA PaidGrows ==
  ASSUME Inv, UNCHANGED tables, NEW a \in tx[Settler].lots, a > tx[Settler].lot,
         \A b \in tx[Settler].lots : b > tx[Settler].lot => a <= b,
         tx'[Settler].lots = tx[Settler].lots, tx'[Settler].lot = a,
         NEW u \in Users
  PROVE  Paid(u)' = Paid(u) + Payout(a, u)
<1> DEFINE lots == tx[Settler].lots
           lot == tx[Settler].lot
           f == [b \in Auctions |-> IF b \in lots /\ b <= lot THEN Payout(b, u) ELSE 0]
           g == [b \in Auctions |-> IF b \in tx'[Settler].lots /\ b <= tx'[Settler].lot
                                    THEN Payout(b, u)' ELSE 0]
           d == Payout(a, u)
<1>1. \A b \in Auctions : Payout(b, u) \in Int /\ Payout(b, u)' = Payout(b, u)
  BY SettlerFacts, PayoutType, PayoutStays DEF tables
<1>2. /\ NumAuctions \in Nat /\ Auctions = 1..NumAuctions /\ a \in Auctions
      /\ lots \subseteq Auctions /\ lot \in Nat
  BY SettlerFacts, BidsAssumption DEF Auctions
<1>3. \A b \in Auctions : b \in lots => (b <= a <=> b <= lot \/ b = a)
  BY <1>2
<1>4. \A b \in Auctions : g[b] = IF b \in lots /\ (b <= lot \/ b = a) THEN Payout(b, u) ELSE 0
  BY <1>1, <1>3
<1>5. f[a] = 0
  BY <1>2
<1>6. /\ a \in 1..NumAuctions /\ d \in Int
      /\ \A b \in 1..NumAuctions : f[b] \in Int
      /\ \A b \in 1..NumAuctions : g[b] = IF b = a THEN f[b] + d ELSE f[b]
  <2>1. \A b \in Auctions : f[b] \in Int
    BY <1>1
  <2>2. g[a] = f[a] + d
    BY <1>1, <1>2, <1>4, <1>5
  <2>3. \A b \in Auctions : b # a => g[b] = f[b]
    BY <1>4
  <2> HIDE DEF f, g
  <2>4. \A b \in Auctions : g[b] = IF b = a THEN f[b] + d ELSE f[b]
    BY <2>2, <2>3
  <2> HIDE DEF d
  <2> QED
    BY <1>1, <1>2, <2>1, <2>4 DEF d
<1> HIDE DEF f, g, d
<1>7. Total(g, NumAuctions) = Total(f, NumAuctions) + d
  <2>1. NumAuctions \in Nat
    BY <1>2
  <2> QED
    BY ONLY <1>6, <2>1, TotalUpdate
<1>8. Paid(u)' = Total(g, NumAuctions) /\ Paid(u) = Total(f, NumAuctions)
  BY DEF Paid, f, g
<1> QED
  BY <1>7, <1>8 DEF d

\* Before the first lot nothing is paid.
LEMMA PaidNothing ==
  ASSUME tx'[Settler].lot = 0, NEW u \in Users
  PROVE  Paid(u)' = 0
<1> DEFINE f == [a \in Auctions |-> IF a \in tx'[Settler].lots /\ a <= tx'[Settler].lot
                                    THEN Payout(a, u)' ELSE 0]
<1>1. NumAuctions \in Nat /\ \A a \in 1..NumAuctions : f[a] = 0
  BY BidsAssumption DEF Auctions
<1>2. Paid(u)' = Total(f, NumAuctions)
  BY DEF Paid
<1> HIDE DEF f
<1> QED
  BY <1>1, <1>2, TotalZero

LEMMA SettlementStartsKeeps ==
  ASSUME Inv, SettlementStarts
  PROVE  Inv'
<1> DEFINE due == {a \in Auctions : /\ auction[a].status \in {"LIVE", "SEALED_ENDGAME"}
                                    /\ time[a] = "over"}
           t == [tx[Settler] EXCEPT !.at = "lots", !.lots = due]
<1>1. /\ Typed /\ SettlerFits /\ tx[Settler] \in Transaction /\ Settler \in Procs
      /\ tx[Settler].at = "idle" /\ due # {} /\ (\A a \in due : AuctionFree(a))
      /\ UNCHANGED <<tables, time>>
  BY SettlerFacts DEF SettlementStarts
<1>2. due \subseteq Auctions /\ \A a \in due : auction[a].status \in {"LIVE", "SEALED_ENDGAME"}
  OBVIOUS
<1> HIDE DEF due
<1>3. t \in Transaction
  BY <1>1, <1>2 DEF Transaction
<1>4. tx' = [tx EXCEPT ![Settler] = t]
  BY <1>1 DEF SettlementStarts, Typed, due
<1>5. /\ t.at = "lots" /\ t.key = NoOne /\ t.rows = {} /\ t.lots = due /\ t.lot = 0
      /\ t.todo = <<>>
  BY <1>1 DEF SettlerFits, Transaction
<1> HIDE DEF t
<1>6. tx'[Settler] = t /\ auction' = auction
  BY <1>1, <1>4 DEF Typed, tables
<1>7. \A u \in Users : Paid(u)' = 0
  BY <1>5, <1>6, PaidNothing
<1>8. \A u : Rest(tx'[Settler].todo, u) = 0
  BY <1>5, <1>6, RestNone
<1>9. SettlerFits'
  BY <1>1, <1>2, <1>5, <1>6, <1>7, <1>8 DEF SettlerFits
<1>10. \A a \in Auctions : HoldsAuction(Settler, a)' => HoldsAuction(Settler, a) \/ AuctionFree(a)
  BY <1>1, <1>5, <1>6 DEF HoldsAuction
<1>11. Settler \notin Requests
  BY ProcFacts
<1> QED
  BY <1>1, <1>3, <1>4, <1>5, <1>9, <1>10, <1>11, QuietStep

LEMMA SettlerAdvances ==
  ASSUME Inv, Advances(Settler)
  PROVE  Inv'
<1> DEFINE t == Advanced(Settler)
           todo == tx[Settler].todo
           c == Head(todo)
<1>1. /\ Typed /\ SettlerFits /\ tx[Settler] \in Transaction /\ Settler \in Procs
      /\ tx[Settler].lots \subseteq Auctions
      /\ tx[Settler].at = "balances" /\ todo # <<>> /\ UNCHANGED <<tables, time>>
      /\ BalanceFree(Settler, c.user) /\ Covered(Changed(Settler, c))
      /\ tx' = [tx EXCEPT ![Settler] = t]
  BY SettlerFacts DEF Advances
<1>2. /\ c \in Move /\ c.user \in Users /\ t \in Transaction
      /\ t.rows = tx[Settler].rows \cup {c.user} /\ t.draft[c.user] = Changed(Settler, c)
      /\ \A v \in Users \ {c.user} : t.draft[v] = tx[Settler].draft[v]
      /\ t.todo = Tail(todo)
      /\ t.key = NoOne /\ t.lots = tx[Settler].lots /\ t.lot = tx[Settler].lot
      /\ t.at = IF Len(todo) > 1 THEN "balances" ELSE "lots"
  BY <1>1, AdvancedFacts DEF SettlerFits
<1>3. Changed(Settler, c).available =
        (IF c.user \in tx[Settler].rows THEN tx[Settler].draft[c.user]
         ELSE balance[c.user]).available + Gain(c, c.user)
  BY <1>1, <1>2, ChangedFacts
<1> HIDE DEF t
<1>4. tx'[Settler] = t /\ auction' = auction /\ balance' = balance /\ sealed' = sealed
  BY <1>1 DEF Typed, tables
<1>5. \A u \in Users : Paid(u)' = Paid(u) /\ Paid(u) \in Int
  BY <1>1, <1>2, <1>4, PaidStays, PaidType
<1>6. /\ todo \in Seq(Move) /\ Tail(todo) \in Seq(Move)
      /\ (Len(todo) > 1 <=> Tail(todo) # <<>>)
  <2>1. todo \in Seq(Move) /\ todo # <<>>
    BY <1>1 DEF Transaction
  <2> HIDE DEF todo
  <2>2. Tail(todo) \in Seq(Move) /\ Len(Tail(todo)) = Len(todo) - 1 /\ Len(todo) \in Nat
    BY <2>1
  <2>3. \A s \in Seq(Move) : s = <<>> <=> Len(s) = 0
    OBVIOUS
  <2>4. Tail(todo) = <<>> <=> Len(Tail(todo)) = 0
    BY <2>2, <2>3
  <2>5. Len(Tail(todo)) \in Nat
    BY <2>2
  <2>6. Len(todo) > 1 <=> Len(Tail(todo)) # 0
    BY <2>2, <2>5
  <2> QED
    BY <2>1, <2>2, <2>4, <2>6
<1>7. \A u \in Users : /\ Rest(todo, u) = Gain(c, u) + Rest(Tail(todo), u)
                       /\ Rest(Tail(todo), u) \in Int /\ Gain(c, u) \in Int
  BY <1>1, <1>2, <1>6, RestHead, RestType, GainType
<1>8. \A u \in Users : u # c.user => Gain(c, u) = 0
  BY DEF Gain
<1>9. ASSUME NEW u \in Users
      PROVE  IF u \in t.rows
             THEN t.draft[u].available + Rest(t.todo, u) = balance[u].available + Paid(u)
             ELSE Rest(t.todo, u) = Paid(u)
  <2>1. IF u \in tx[Settler].rows
        THEN tx[Settler].draft[u].available + Rest(todo, u) = balance[u].available + Paid(u)
        ELSE Rest(todo, u) = Paid(u)
    BY <1>1 DEF SettlerFits
  <2>2. balance[u].available \in Int /\ tx[Settler].draft[u].available \in Int
    BY <1>1 DEF Typed, Transaction, Funds
  <2> HIDE DEF todo
  <2>3. CASE u # c.user
    <3>1. Rest(Tail(todo), u) = Rest(todo, u)
      BY <1>7, <1>8, <2>3
    <3> QED
      BY <1>2, <2>1, <2>3, <3>1
  <2>4. CASE u = c.user
    <3>1. u \in t.rows
      BY <1>2, <2>4
    <3>2. t.draft[u].available = (IF u \in tx[Settler].rows THEN tx[Settler].draft[u].available
                                  ELSE balance[u].available) + Gain(c, u)
      BY <1>2, <1>3, <2>4
    <3>3. t.draft[u].available + Rest(Tail(todo), u) =
            (IF u \in tx[Settler].rows THEN tx[Settler].draft[u].available
             ELSE balance[u].available) + Rest(todo, u)
      BY <1>7, <2>2, <3>2
    <3> QED
      BY <1>2, <2>1, <3>1, <3>3
  <2> QED
    BY <2>3, <2>4
<1>10. SettlerFits'
  BY <1>1, <1>2, <1>4, <1>5, <1>6, <1>9 DEF SettlerFits
<1>11. \A a \in Auctions : HoldsAuction(Settler, a)' => HoldsAuction(Settler, a)
  BY <1>1, <1>2, <1>4 DEF HoldsAuction
<1>12. \A v \in t.rows : v \in tx[Settler].rows \/ BalanceFree(Settler, v)
  BY <1>1, <1>2
<1>13. Settler \notin Requests
  BY ProcFacts
<1> QED
  BY <1>1, <1>2, <1>10, <1>11, <1>12, <1>13, QuietStep

LEMMA NextLotKeeps ==
  ASSUME Inv, NextLot
  PROVE  Inv'
<1> DEFINE lots == tx[Settler].lots
           lot == tx[Settler].lot
           more == {a \in lots : a > lot}
<1>1. /\ Typed /\ SettlerFits /\ tx[Settler] \in Transaction /\ Settler \in Procs
      /\ lots \subseteq Auctions /\ lot \in Nat /\ tx[Settler].at = "lots"
      /\ tx[Settler].key = NoOne /\ lots # {} /\ tx[Settler].todo = <<>>
      /\ UNCHANGED <<tables, time>>
  BY SettlerFacts DEF NextLot, SettlerFits
<1>2. \A a \in Auctions : a \in Nat
  BY BidsAssumption DEF Auctions
<1>3. \A u : Rest(<<>>, u) = 0
  BY RestNone
<1>4. \A a \in lots : auction[a].status \in {"LIVE", "SEALED_ENDGAME"}
  BY <1>1 DEF SettlerFits
<1>5. \A u \in Users : IF u \in tx[Settler].rows
                       THEN tx[Settler].draft[u].available = balance[u].available + Paid(u)
                       ELSE Paid(u) = 0
  <2>1. SUFFICES ASSUME NEW u \in Users
                 PROVE  IF u \in tx[Settler].rows
                        THEN tx[Settler].draft[u].available = balance[u].available + Paid(u)
                        ELSE Paid(u) = 0
    OBVIOUS
  <2>2. /\ IF u \in tx[Settler].rows
           THEN tx[Settler].draft[u].available + Rest(tx[Settler].todo, u) =
                  balance[u].available + Paid(u)
           ELSE Rest(tx[Settler].todo, u) = Paid(u)
        /\ Rest(tx[Settler].todo, u) = 0
    BY <1>1, <1>3 DEF SettlerFits
  <2>3. tx[Settler].draft[u].available \in Int
    BY <1>1 DEF Transaction, Funds
  <2> QED
    BY <2>2, <2>3
<1>6. Settler \notin Requests
  BY ProcFacts
\* What is left to show of a step that leaves the locks and the drafts alone.
<1>7. ASSUME NEW t \in Transaction, tx' = [tx EXCEPT ![Settler] = t],
             t.at \in {"lots", "balances", "commit"}, t.key = NoOne,
             t.lots = lots, t.rows = tx[Settler].rows, t.draft = tx[Settler].draft,
             t.at # "balances" <=> t.todo = <<>>,
             t.at = "commit" => \A a \in lots : a <= t.lot,
             \A u \in Users : Paid(u)' = Paid(u) + Rest(t.todo, u)
      PROVE  Inv'
  <2>1. tx'[Settler] = t /\ auction' = auction /\ balance' = balance
    BY <1>1, <1>7 DEF Typed, tables
  <2>2. \A u \in Users : /\ Paid(u) \in Int /\ Rest(t.todo, u) \in Int
                         /\ balance[u].available \in Int
    BY <1>1, PaidType, RestType DEF Transaction, Typed, Funds
  <2>3. \A u \in Users : IF u \in t.rows
                         THEN t.draft[u].available + Rest(t.todo, u) = balance[u].available + Paid(u)'
                         ELSE Rest(t.todo, u) = Paid(u)'
    BY <1>5, <1>7, <2>2
  <2>4. SettlerFits'
    BY <1>1, <1>4, <1>7, <2>1, <2>3 DEF SettlerFits
  <2>5. \A a \in Auctions : HoldsAuction(Settler, a)' => HoldsAuction(Settler, a)
    BY <1>7, <2>1 DEF HoldsAuction
  <2> QED
    BY <1>1, <1>6, <1>7, <2>4, <2>5, QuietStep
<1>8. CASE more = {} /\ tx' = [tx EXCEPT ![Settler].at = "commit"]
  <2> DEFINE t == [tx[Settler] EXCEPT !.at = "commit"]
  <2>1. t \in Transaction
    BY <1>1 DEF Transaction
  <2>2. tx' = [tx EXCEPT ![Settler] = t]
    BY <1>1, <1>8 DEF Typed
  <2>3. /\ t.at = "commit" /\ t.key = NoOne /\ t.lots = lots /\ t.rows = tx[Settler].rows
        /\ t.draft = tx[Settler].draft /\ t.todo = <<>> /\ t.lot = lot
    BY <1>1 DEF Transaction
  <2> HIDE DEF t
  <2>4. tx'[Settler] = t
    BY <1>1, <2>2 DEF Typed
  <2>5. \A a \in lots : a <= t.lot
    BY <1>1, <1>2, <1>8, <2>3
  <2>6. \A u \in Users : Paid(u)' = Paid(u) /\ Paid(u) \in Int
    BY <1>1, <2>3, <2>4, PaidStays, PaidType DEF tables
  <2>7. \A u \in Users : Paid(u)' = Paid(u) + Rest(t.todo, u)
    BY <1>3, <2>3, <2>6
  <2> QED
    BY <1>7, <2>1, <2>2, <2>3, <2>5, <2>7
<1>9. ASSUME NEW a \in more, \A b \in more : a <= b, Bidders(a) = {},
             tx' = [tx EXCEPT ![Settler].lot = a]
      PROVE  Inv'
  <2> DEFINE t == [tx[Settler] EXCEPT !.lot = a]
  <2>1. a \in lots /\ a > lot /\ a \in Nat /\ (\A b \in lots : b > lot => a <= b)
    BY <1>1, <1>2, <1>9
  <2>2. t \in Transaction
    BY <1>1, <2>1 DEF Transaction
  <2>3. tx' = [tx EXCEPT ![Settler] = t]
    BY <1>1, <1>9 DEF Typed
  <2>4. /\ t.at = "lots" /\ t.key = NoOne /\ t.lots = lots /\ t.rows = tx[Settler].rows
        /\ t.draft = tx[Settler].draft /\ t.todo = <<>> /\ t.lot = a
    BY <1>1, <2>1 DEF Transaction
  <2> HIDE DEF t
  <2>5. tx'[Settler] = t
    BY <1>1, <2>3 DEF Typed
  <2>6. \A u \in Users : Paid(u)' = Paid(u) + Payout(a, u)
    BY <1>1, <2>1, <2>4, <2>5, PaidGrows
  <2>7. \A u \in Users : Paid(u)' = Paid(u) + Rest(t.todo, u)
    BY <1>3, <1>9, <2>4, <2>6 DEF Payout
  <2> QED
    BY <1>7, <2>2, <2>3, <2>4, <2>7
<1>10. ASSUME NEW a \in more, \A b \in more : a <= b, Bidders(a) # {}, NEW losers \in Ranked(a),
              tx' = [tx EXCEPT ![Settler].lot = a, ![Settler].at = "balances",
                               ![Settler].todo = Payments(a, losers)]
       PROVE  Inv'
  <2> DEFINE t == [tx[Settler] EXCEPT !.lot = a, !.at = "balances", !.todo = Payments(a, losers)]
  <2>1. /\ a \in lots /\ a > lot /\ a \in Nat /\ (\A b \in lots : b > lot => a <= b)
        /\ a \in Auctions /\ AuctionFits(a)
    BY <1>1, <1>2, <1>10, SettlerFacts
  <2>2. Payments(a, losers) \in Seq(Move) /\ Payments(a, losers) # <<>>
    <3>1. /\ Payments(a, losers) \in Seq(Move)
          /\ Cardinality(Bidders(a) \ {Winner(a)}) \in Nat
          /\ Len(Payments(a, losers)) = Cardinality(Bidders(a) \ {Winner(a)}) + 3
      BY <1>1, <1>10, <2>1, PaymentTerms
    <3>2. Len(Payments(a, losers)) # 0 /\ Len(<<>>) = 0
      BY <3>1
    <3> QED
      BY <3>1, <3>2
  <2>3. t \in Transaction
    BY <1>1, <2>1, <2>2 DEF Transaction
  <2>4. tx' = [tx EXCEPT ![Settler] = t]
    BY <1>1, <1>10 DEF Typed
  <2>5. /\ t.at = "balances" /\ t.key = NoOne /\ t.lots = lots /\ t.rows = tx[Settler].rows
        /\ t.draft = tx[Settler].draft /\ t.todo = Payments(a, losers) /\ t.lot = a
    BY <1>1, <2>1 DEF Transaction
  <2> HIDE DEF t
  <2>6. tx'[Settler] = t
    BY <1>1, <2>4 DEF Typed
  <2>7. \A u \in Users : Paid(u)' = Paid(u) + Payout(a, u)
    BY <1>1, <2>1, <2>5, <2>6, PaidGrows
  <2>8. \A u \in Users : Rest(t.todo, u) = Payout(a, u)
    BY <1>1, <1>10, <2>1, <2>5, PaymentsPay
  <2>9. \A u \in Users : Paid(u)' = Paid(u) + Rest(t.todo, u)
    BY <2>7, <2>8
  <2> QED
    BY <1>7, <2>2, <2>3, <2>4, <2>5, <2>9
<1> QED
  BY <1>8, <1>9, <1>10 DEF NextLot

-----------------------------------------------------------------------------
(* Commits *)

\* A transaction ends and writes the rows it has locked.
LEMMA CommitKeeps ==
  ASSUME Inv, NEW p \in Procs, tx' = [tx EXCEPT ![p] = Idle], Typed',
         \A a \in Auctions :
           ~HoldsAuction(p, a) => auction'[a] = auction[a] /\ sealed'[a] = sealed[a],
         \A u \in Users : u \notin tx[p].rows => balance'[u] = balance[u],
         \A a \in Auctions : AuctionFits(a)',
         KeysFit'
  PROVE  Inv'
<1>1. Typed /\ LocksFit
  BY DEF Inv
<1>2. tx'[p] = Idle /\ \A q \in Procs \ {p} : tx'[q] = tx[q]
  BY <1>1 DEF Typed
<1>3. \A q \in Procs \ {p} : /\ q \in Requests => RequestFits(q)'
                             /\ q = Settler => SettlerFits'
  <2>1. SUFFICES ASSUME NEW q \in Procs \ {p}
                 PROVE  /\ q \in Requests => RequestFits(q)'
                        /\ q = Settler => SettlerFits'
    OBVIOUS
  <2>2. \A a \in Auctions :
          HoldsAuction(q, a) => auction'[a] = auction[a] /\ sealed'[a] = sealed[a]
    BY <1>1 DEF LocksFit
  <2>3. \A u \in tx[q].rows : balance'[u] = balance[u]
    BY <1>1 DEF LocksFit, Typed, Transaction
  <2>4. balance' \in [Users -> Funds]
    BY DEF Typed
  <2> QED
    BY <1>2, <2>2, <2>3, <2>4, OthersFit
<1>4. Idle.rows = {}
  BY DEF Idle
<1>5. LocksFit'
  BY <1>2, <1>4, IdleFits, LocksStay
<1>6. (\A r \in Requests : RequestFits(r)') /\ SettlerFits'
  BY <1>2, <1>3, IdleFits, ProcFacts
<1> QED
  BY <1>5, <1>6 DEF Inv

LEMMA WrittenFacts ==
  ASSUME Typed, NEW p \in Procs
  PROVE  /\ Written(p) \in [Users -> Funds]
         /\ \A u \in Users : u \notin tx[p].rows => Written(p)[u] = balance[u]
BY DEF Written, Typed, Transaction

\* What a bid that commits may rely on.
LEMMA PendingFacts ==
  ASSUME Inv, NEW r \in Requests, tx[r].at = "commit"
  PROVE  LET k == tx[r].key
             a == Bid[k].auction
             u == Bid[k].user
         IN
         /\ k \in Keys /\ k # NoOne /\ BidPending(r) /\ HoldsAuction(r, a)
         /\ a \in Auctions /\ u \in Users /\ Bid[k].amount \in Nat /\ Bid[k].amount > 0
         /\ Bid[k].amount >= MinimumBidFor(auction[a].current)
         /\ Bid[k].amount > auction[a].current
         /\ Bid[k] = [user |-> u, auction |-> a, amount |-> Bid[k].amount]
         /\ tx[r].row \in Row /\ auction[a].current \in Nat
         /\ tx[r].row.current = auction[a].current /\ tx[r].row.leader = auction[a].leader
         /\ auction[a].status \in {"LIVE", "SEALED_ENDGAME"}
         /\ tx[r].row.status = auction[a].status \/ tx[r].row.status = "SEALED_ENDGAME"
         /\ Seller[a] # u
<1> DEFINE k == tx[r].key
           a == Bid[k].auction
           u == Bid[k].user
<1>1. /\ Typed /\ RequestFits(r) /\ tx[r] \in Transaction
      /\ k # NoOne /\ k \in Keys /\ BidPending(r)
  BY RequestFacts DEF RequestFits
<1>2. a \in Auctions /\ u \in Users /\ Bid[k].amount \in Nat
  BY <1>1, BidFacts
<1>3. Bid[k] \in [user : Users, auction : Auctions, amount : Nat]
  BY <1>1, BidsAssumption
<1>4. auction[a].current \in Nat /\ tx[r].row \in Row
  BY <1>1, <1>2 DEF Typed, Row, Transaction
<1>5. HighEnough(a, Bid[k].amount) /\ auction[a].status \in {"LIVE", "SEALED_ENDGAME"}
      /\ Seller[a] # u
      /\ tx[r].row.current = auction[a].current /\ tx[r].row.leader = auction[a].leader
  BY <1>1 DEF BidPending
<1>6. tx[r].row.status = auction[a].status \/ tx[r].row.status = "SEALED_ENDGAME"
  BY <1>1 DEF BidPending
<1>7. HoldsAuction(r, a)
  BY <1>1 DEF HoldsAuction
<1> HIDE DEF k, a, u
<1>8. Bid[k].amount >= MinimumBidFor(auction[a].current)
  BY <1>5 DEF HighEnough
<1>9. Bid[k].amount > 0 /\ Bid[k].amount > auction[a].current
  <2>1. /\ MinimumBidFor(auction[a].current) \in Nat
        /\ MinimumBidFor(auction[a].current) >= auction[a].current + Unit
    BY <1>4, MinimumBidGrows
  <2> QED
    BY <1>2, <1>4, <1>8, <2>1 DEF Unit
<1>10. Bid[k] = [user |-> u, auction |-> a, amount |-> Bid[k].amount]
  BY <1>3 DEF u, a
<1> QED
  BY <1>1, <1>2, <1>4, <1>5, <1>6, <1>7, <1>8, <1>9, <1>10 DEF k, a, u

LEMMA OpenBidKeeps ==
  ASSUME Inv, NEW r \in Requests, NEW k \in Keys, k = tx[r].key,
         BidCommits(r), CommitsOpen(r)
  PROVE  Inv'
<1> DEFINE a == Bid[k].auction
           u == Bid[k].user
           led == [tx[r].row EXCEPT !.current = Bid[k].amount, !.leader = u]
<1>1. /\ Typed /\ KeysFit /\ r \in Procs /\ (\A b \in Auctions : AuctionFits(b))
      /\ tx[r].at = "commit"
  BY RequestFacts DEF Inv, BidCommits
<1>2. /\ k \in Keys /\ a \in Auctions /\ u \in Users /\ Bid[k].amount \in Nat
      /\ HoldsAuction(r, a) /\ Bid[k].amount > auction[a].current /\ auction[a].current \in Nat
      /\ tx[r].row \in Row /\ auction[a].status \in {"LIVE", "SEALED_ENDGAME"}
      /\ tx[r].row.status = auction[a].status \/ tx[r].row.status = "SEALED_ENDGAME"
  BY <1>1, PendingFacts
<1>3. /\ bids' = bids \cup {k} /\ auction' = [auction EXCEPT ![a] = led] /\ sealed' = sealed
      /\ balance' = Written(r) /\ done' = done \cup {k} /\ tx' = [tx EXCEPT ![r] = Idle]
      /\ sale' = sale /\ tx[r].row.status = "LIVE"
      /\ time' = time \/ time' = [time EXCEPT ![a] = "early"]
  BY DEF BidCommits, CommitsOpen, Ends
<1>4. /\ led \in Row /\ led.current = Bid[k].amount /\ led.status = "LIVE"
  BY <1>2, <1>3 DEF Row
<1>5. auction[a].status = "LIVE"
  BY <1>2, <1>3
<1> HIDE DEF led
<1>6. /\ auction' \in [Auctions -> Row] /\ auction'[a] = led
      /\ \A b \in Auctions : b # a => auction'[b] = auction[b]
  BY <1>1, <1>2, <1>3, <1>4 DEF Typed
<1>7. Typed'
  <2>1. time' \in [Auctions -> {"early", "late", "over"}]
    BY <1>1, <1>3 DEF Typed
  <2>2. tx' \in [Procs -> Transaction]
    BY <1>1, <1>3, IdleType DEF Typed
  <2>3. balance' \in [Users -> Funds]
    BY <1>1, <1>3, WrittenFacts
  <2> QED
    BY <1>1, <1>2, <1>3, <1>6, <2>1, <2>2, <2>3 DEF Typed
<1>8. \A b \in Auctions : AuctionFits(b)'
  <2>1. AuctionFits(a) /\ \A v \in Users : sealed[a][v].max \in Nat
    BY <1>1, <1>2 DEF Typed
  <2>2. \A v \in Users : ~(sealed[a][v].max > 0)
    BY <1>5, <2>1 DEF AuctionFits
  <2>3. AuctionFits(a)'
    BY <1>3, <1>4, <1>6, <2>1, <2>2 DEF AuctionFits
  <2>4. ASSUME NEW b \in Auctions, b # a PROVE AuctionFits(b)'
    <3>1. AuctionFits(b) /\ auction'[b] = auction[b] /\ sealed'[b] = sealed[b]
      BY <1>1, <1>3, <1>6, <2>4
    <3> HIDE DEF a
    <3> QED
      BY ONLY <3>1 DEF AuctionFits
  <2> QED
    BY <2>3, <2>4
<1>9. KeysFit'
  <2>1. \A j \in Keys : /\ auction[Bid[j].auction].current \in Nat /\ Bid[j].amount \in Nat
                        /\ Bid[j].auction \in Auctions
    BY <1>1, BidFacts DEF Typed, Row
  <2>2. \A j \in Keys : auction'[Bid[j].auction].current >= auction[Bid[j].auction].current
    BY <1>2, <1>4, <1>6, <2>1
  <2>3. auction'[a].current = Bid[k].amount
    BY <1>4, <1>6
  <2>4. \A j \in Keys : auction'[Bid[j].auction].current \in Nat
    BY <1>6, <2>1 DEF Row
  <2>5. bids \subseteq Keys /\ done \subseteq Keys
    BY <1>1 DEF Typed
  <2>6. \A j \in bids : auction'[Bid[j].auction].current >= Bid[j].amount
    <3>1. \A j \in bids : auction[Bid[j].auction].current >= Bid[j].amount
      BY <1>1 DEF KeysFit
    <3> QED
      BY <2>1, <2>2, <2>4, <2>5, <3>1
  <2>7. \A j \in bids' : auction'[Bid[j].auction].current >= Bid[j].amount
    BY <1>2, <1>3, <2>3, <2>6
  <2>8. \A j \in done' : j \in bids' \/ sealed'[Bid[j].auction][Bid[j].user].key # NoOne
    BY <1>1, <1>3 DEF KeysFit
  <2> QED
    BY <2>7, <2>8 DEF KeysFit
<1>10. \A b \in Auctions :
         ~HoldsAuction(r, b) => auction'[b] = auction[b] /\ sealed'[b] = sealed[b]
  BY <1>2, <1>3, <1>6
<1>11. \A v \in Users : v \notin tx[r].rows => balance'[v] = balance[v]
  BY <1>1, <1>3, WrittenFacts
<1> QED
  BY <1>1, <1>3, <1>7, <1>8, <1>9, <1>10, <1>11, CommitKeeps

LEMMA SealedBidKeeps ==
  ASSUME Inv, NEW r \in Requests, NEW k \in Keys, k = tx[r].key,
         BidCommits(r), CommitsSealed(r)
  PROVE  Inv'
<1> DEFINE a == Bid[k].auction
           u == Bid[k].user
           new == [max |-> Bid[k].amount, key |-> k]
<1>1. /\ Typed /\ KeysFit /\ r \in Procs /\ (\A b \in Auctions : AuctionFits(b))
      /\ tx[r].at = "commit"
  BY RequestFacts DEF Inv, BidCommits
<1>2. /\ k \in Keys /\ k # NoOne /\ a \in Auctions /\ u \in Users /\ Bid[k].amount \in Nat
      /\ HoldsAuction(r, a) /\ Bid[k].amount > 0
      /\ Bid[k].amount >= MinimumBidFor(auction[a].current)
      /\ Bid[k] = [user |-> u, auction |-> a, amount |-> Bid[k].amount]
      /\ tx[r].row \in Row /\ auction[a].status \in {"LIVE", "SEALED_ENDGAME"}
      /\ tx[r].row.current = auction[a].current
  BY <1>1, PendingFacts
<1>3. /\ auction' = [auction EXCEPT ![a] = tx[r].row] /\ sealed' = [sealed EXCEPT ![a][u] = new]
      /\ bids' = bids /\ time' = time /\ balance' = Written(r) /\ done' = done \cup {k}
      /\ tx' = [tx EXCEPT ![r] = Idle] /\ sale' = sale /\ tx[r].row.status = "SEALED_ENDGAME"
  BY DEF BidCommits, CommitsSealed, Ends
<1>4. new \in [max : Nat, key : Keys \cup {NoOne}] /\ new.max = Bid[k].amount /\ new.key = k
  BY <1>2
<1> HIDE DEF new
<1>5. /\ auction' \in [Auctions -> Row] /\ auction'[a] = tx[r].row
      /\ \A b \in Auctions : b # a => auction'[b] = auction[b]
  BY <1>1, <1>2, <1>3 DEF Typed
<1>6. /\ sealed' \in [Auctions -> [Users -> [max : Nat, key : Keys \cup {NoOne}]]]
      /\ sealed'[a][u] = new
      /\ \A v \in Users : v # u => sealed'[a][v] = sealed[a][v]
      /\ \A b \in Auctions : b # a => sealed'[b] = sealed[b]
  BY <1>1, <1>2, <1>3, <1>4 DEF Typed
<1>7. Typed'
  <2>1. tx' \in [Procs -> Transaction]
    BY <1>1, <1>3, IdleType DEF Typed
  <2>2. balance' \in [Users -> Funds]
    BY <1>1, <1>3, WrittenFacts
  <2> QED
    BY <1>1, <1>2, <1>3, <1>5, <1>6, <2>1, <2>2 DEF Typed
<1>8. \A b \in Auctions : AuctionFits(b)'
  <2>1. AuctionFits(a)
    BY <1>1, <1>2
  <2>2. auction'[a].status = "SEALED_ENDGAME" /\ auction'[a].current = auction[a].current
    BY <1>2, <1>3, <1>5
  <2>3. /\ sealed'[a][u].max > 0 => sealed'[a][u].max >= MinimumBidFor(auction'[a].current)
        /\ sealed'[a][u].key = NoOne <=> sealed'[a][u].max = 0
        /\ Bid[sealed'[a][u].key] = [user |-> u, auction |-> a, amount |-> sealed'[a][u].max]
    <3>1. sealed'[a][u].max = Bid[k].amount /\ sealed'[a][u].key = k
      BY <1>4, <1>6
    <3>2. Bid[k].amount >= MinimumBidFor(auction'[a].current)
      BY <1>2, <2>2
    <3>3. Bid[k].amount # 0 /\ k # NoOne
      BY <1>2
    <3>4. Bid[k] = [user |-> u, auction |-> a, amount |-> Bid[k].amount]
      BY <1>2
    <3> HIDE DEF u, a
    <3> QED
      BY <3>1, <3>2, <3>3, <3>4
  <2>4. ASSUME NEW v \in Users, v # u
        PROVE  /\ sealed'[a][v].max > 0 => sealed'[a][v].max >= MinimumBidFor(auction'[a].current)
               /\ sealed'[a][v].key = NoOne <=> sealed'[a][v].max = 0
               /\ sealed'[a][v].key # NoOne =>
                    Bid[sealed'[a][v].key] = [user |-> v, auction |-> a, amount |-> sealed'[a][v].max]
    BY <1>6, <2>1, <2>2, <2>4 DEF AuctionFits
  <2>5. AuctionFits(a)'
    BY <2>2, <2>3, <2>4 DEF AuctionFits
  <2>6. ASSUME NEW b \in Auctions, b # a PROVE AuctionFits(b)'
    <3>1. AuctionFits(b) /\ auction'[b] = auction[b] /\ sealed'[b] = sealed[b]
      BY <1>1, <1>5, <1>6, <2>6
    <3> HIDE DEF a, u
    <3> QED
      BY ONLY <3>1 DEF AuctionFits
  <2> QED
    BY <2>5, <2>6
<1>9. KeysFit'
  <2>1. \A j \in Keys : Bid[j].auction \in Auctions /\ Bid[j].user \in Users
    BY BidFacts
  <2>2. \A j \in Keys : auction'[Bid[j].auction].current = auction[Bid[j].auction].current
    BY <1>2, <1>5, <2>1
  <2>3. \A j \in Keys : \/ sealed'[Bid[j].auction][Bid[j].user].key = k
                        \/ sealed'[Bid[j].auction][Bid[j].user] = sealed[Bid[j].auction][Bid[j].user]
    BY <1>4, <1>6, <2>1
  <2>4. sealed'[a][u].key = k
    BY <1>4, <1>6
  <2>5. bids \subseteq Keys /\ done \subseteq Keys
    BY <1>1 DEF Typed
  <2>6. \A j \in bids' : auction'[Bid[j].auction].current >= Bid[j].amount
    BY <1>1, <1>3, <2>2, <2>5 DEF KeysFit
  <2>7. \A j \in done' : j \in bids' \/ sealed'[Bid[j].auction][Bid[j].user].key # NoOne
    BY <1>1, <1>2, <1>3, <2>3, <2>4, <2>5 DEF KeysFit
  <2> QED
    BY <2>6, <2>7 DEF KeysFit
<1>10. \A b \in Auctions :
         ~HoldsAuction(r, b) => auction'[b] = auction[b] /\ sealed'[b] = sealed[b]
  BY <1>2, <1>5, <1>6
<1>11. \A v \in Users : v \notin tx[r].rows => balance'[v] = balance[v]
  BY <1>1, <1>3, WrittenFacts
<1> QED
  BY <1>1, <1>3, <1>7, <1>8, <1>9, <1>10, <1>11, CommitKeeps

LEMMA SettlementCommitsKeeps ==
  ASSUME Inv, SettlementCommits
  PROVE  Inv'
<1> DEFINE lots == tx[Settler].lots
           Sold(a) == IF Bidders(a) = {} THEN NoSale
                      ELSE [winner |-> Winner(a), gross |-> Price(a)]
<1>1. /\ Typed /\ KeysFit /\ Settler \in Procs /\ (\A a \in Auctions : AuctionFits(a))
      /\ lots \subseteq Auctions
      /\ \A a \in lots : auction[a].status \in {"LIVE", "SEALED_ENDGAME"}
  BY SettlerFacts DEF Inv, SettlerFits
<1>2. /\ balance' = Written(Settler)
      /\ auction' = [a \in Auctions |->
                       IF a \in lots THEN [auction[a] EXCEPT !.status = "SETTLED"] ELSE auction[a]]
      /\ sale' = [a \in Auctions |-> IF a \in lots THEN Sold(a) ELSE sale[a]]
      /\ tx' = [tx EXCEPT ![Settler] = Idle]
      /\ time' = time /\ sealed' = sealed /\ bids' = bids /\ done' = done
  BY DEF SettlementCommits, Ends
<1>3. \A a \in Auctions : /\ auction'[a] \in Row
                          /\ auction'[a].current = auction[a].current
                          /\ a \notin lots => auction'[a] = auction[a]
                          /\ a \in lots => auction'[a].status = "SETTLED"
  BY <1>1, <1>2 DEF Typed, Row
<1>4. \A a \in Auctions : Sold(a) \in [winner : Users \cup {Nobody}, gross : Nat]
  <2>1. SUFFICES ASSUME NEW a \in Auctions
                 PROVE  Sold(a) \in [winner : Users \cup {Nobody}, gross : Nat]
    OBVIOUS
  <2>2. CASE Bidders(a) = {}
    BY <2>2 DEF NoSale
  <2>3. CASE Bidders(a) # {}
    <3>1. Winner(a) \in Users /\ Price(a) \in Nat
      BY <1>1, <2>3, WinnerFacts
    <3> QED
      BY <2>3, <3>1
  <2> QED
    BY <2>2, <2>3
<1> HIDE DEF Sold
<1>5. Typed'
  <2>1. auction' \in [Auctions -> Row]
    BY <1>2, <1>3
  <2>2. tx' \in [Procs -> Transaction]
    BY <1>1, <1>2, IdleType DEF Typed
  <2>3. balance' \in [Users -> Funds]
    BY <1>1, <1>2, WrittenFacts
  <2>4. sale' \in [Auctions -> [winner : Users \cup {Nobody}, gross : Nat]]
    BY <1>1, <1>2, <1>4 DEF Typed
  <2> QED
    BY <1>1, <1>2, <2>1, <2>2, <2>3, <2>4 DEF Typed
<1>6. \A a \in Auctions : AuctionFits(a)'
  <2>1. SUFFICES ASSUME NEW a \in Auctions PROVE AuctionFits(a)'
    OBVIOUS
  <2>2. CASE a \in lots
    <3>1. auction'[a].status = "SETTLED" /\ auction'[a].current = auction[a].current
      BY <1>3, <2>2
    <3> QED
      BY <1>1, <1>2, <3>1 DEF AuctionFits
  <2>3. CASE a \notin lots
    BY <1>1, <1>2, <1>3, <2>3 DEF AuctionFits
  <2> QED
    BY <2>2, <2>3
<1>7. KeysFit'
  <2>1. \A k \in Keys : auction'[Bid[k].auction].current = auction[Bid[k].auction].current
    BY <1>3, BidFacts
  <2>2. bids \subseteq Keys
    BY <1>1 DEF Typed
  <2> QED
    BY <1>1, <1>2, <2>1, <2>2 DEF KeysFit
<1>8. \A a \in Auctions :
        ~HoldsAuction(Settler, a) => auction'[a] = auction[a] /\ sealed'[a] = sealed[a]
  BY <1>2, <1>3 DEF HoldsAuction
<1>9. \A u \in Users : u \notin tx[Settler].rows => balance'[u] = balance[u]
  BY <1>1, <1>2, WrittenFacts
<1> QED
  BY <1>1, <1>2, <1>5, <1>6, <1>7, <1>8, <1>9, CommitKeeps

-----------------------------------------------------------------------------
(* The rest of the service *)

\* Whoever holds an auction found it running, and it still is.
LEMMA HeldIsRunning ==
  ASSUME Inv, NEW a \in Auctions, ~AuctionFree(a)
  PROVE  auction[a].status \in {"LIVE", "SEALED_ENDGAME"}
<1>1. PICK q \in Procs : HoldsAuction(q, a)
  BY DEF AuctionFree
<1>2. CASE q = Settler
  BY <1>1, <1>2, SettlerFacts DEF HoldsAuction, SettlerFits
<1>3. CASE q \in Requests
  <2>1. RequestFits(q)
    BY <1>3, RequestFacts
  <2>2. /\ tx[q].at \in {"balances", "commit"} /\ Bid[tx[q].key].auction = a
    BY <1>1, <2>1 DEF HoldsAuction, RequestFits
  <2>3. BidPending(q)
    BY <2>1, <2>2 DEF RequestFits
  <2> QED
    BY <2>2, <2>3 DEF BidPending
<1> QED
  BY <1>2, <1>3, ProcFacts

\* A change of an auction nobody holds, to which every bid still fits.
LEMMA RowStepKeeps ==
  ASSUME Inv, NEW a \in Auctions, AuctionFree(a), NEW row \in Row,
         auction' = [auction EXCEPT ![a] = row], row.current = auction[a].current,
         UNCHANGED <<balance, sealed, bids, sale, done, time, tx>>,
         row.status \in {"LIVE", "SEALED_ENDGAME"},
         row.status = "LIVE" => \A u \in Users : sealed[a][u].max = 0
  PROVE  Inv'
<1>1. /\ Typed /\ KeysFit /\ LocksFit /\ (\A b \in Auctions : AuctionFits(b))
  BY DEF Inv
<1>2. /\ auction' \in [Auctions -> Row] /\ auction'[a] = row
      /\ \A b \in Auctions : b # a => auction'[b] = auction[b]
  BY <1>1 DEF Typed
<1>3. Typed'
  BY <1>1, <1>2 DEF Typed
<1>4. AuctionFits(a)'
  BY <1>1, <1>2 DEF AuctionFits
<1>5. ASSUME NEW b \in Auctions, b # a PROVE AuctionFits(b)'
  <2>1. AuctionFits(b) /\ auction'[b] = auction[b] /\ sealed'[b] = sealed[b]
    BY <1>1, <1>2, <1>5
  <2> QED
    BY ONLY <2>1 DEF AuctionFits
<1>6. KeysFit'
  <2>1. \A k \in Keys : auction'[Bid[k].auction].current = auction[Bid[k].auction].current
    BY <1>2, BidFacts
  <2>2. bids \subseteq Keys
    BY <1>1 DEF Typed
  <2> QED
    BY <1>1, <2>1, <2>2 DEF KeysFit
<1>7. LocksFit'
  BY <1>1 DEF LocksFit, HoldsAuction
<1>8. \A q \in Procs : /\ q \in Requests => RequestFits(q)'
                       /\ q = Settler => SettlerFits'
  BY <1>2, <1>3, OthersFit DEF AuctionFree, Typed
<1> QED
  BY <1>3, <1>4, <1>5, <1>6, <1>7, <1>8, ProcFacts DEF Inv

LEMMA OpensKeeps ==
  ASSUME Inv, NEW a \in Auctions, Opens(a)
  PROVE  Inv'
<1> DEFINE row == [auction[a] EXCEPT !.status = "LIVE"]
<1>1. Typed /\ AuctionFits(a) /\ auction[a].status = "FREE"
  BY DEF Inv, Opens
<1>2. AuctionFree(a)
  BY <1>1, HeldIsRunning
<1>3. row \in Row /\ row.current = auction[a].current /\ row.status = "LIVE"
  BY <1>1 DEF Typed, Row
<1>4. auction' = [auction EXCEPT ![a] = row]
  BY <1>1 DEF Opens, Typed
<1>5. \A u \in Users : sealed[a][u].max = 0
  <2>1. \A u \in Users : sealed[a][u].max \in Nat /\ ~(sealed[a][u].max > 0)
    BY <1>1 DEF AuctionFits, Typed
  <2> QED
    BY <2>1
<1> HIDE DEF row
<1>6. UNCHANGED <<balance, sealed, bids, sale, done, time, tx>>
  BY DEF Opens
<1> QED
  BY <1>2, <1>3, <1>4, <1>5, <1>6, RowStepKeeps

LEMMA IsSealedKeeps ==
  ASSUME Inv, NEW a \in Auctions, IsSealed(a)
  PROVE  Inv'
<1>1. Typed /\ AuctionFree(a) /\ Promoted(a) \in Row
  BY PromotedFacts DEF Inv, IsSealed
<1>2. Promoted(a).status = "SEALED_ENDGAME" /\ Promoted(a).current = auction[a].current
  BY <1>1 DEF Promoted, IsSealed, Typed, Row
<1>3. /\ auction' = [auction EXCEPT ![a] = Promoted(a)]
      /\ UNCHANGED <<balance, sealed, bids, sale, done, time, tx>>
  BY DEF IsSealed
<1> QED
  BY <1>1, <1>2, <1>3, RowStepKeeps

LEMMA TimePassesKeeps ==
  ASSUME Inv, NEW a \in Auctions, TimePasses(a)
  PROVE  Inv'
<1>1. UNCHANGED <<tables, tx>>
  BY DEF TimePasses
<1>2. time' \in [Auctions -> {"early", "late", "over"}]
  BY DEF TimePasses, Inv, Typed
<1>3. /\ auction' = auction /\ balance' = balance /\ sealed' = sealed /\ bids' = bids
      /\ sale' = sale /\ done' = done /\ tx' = tx
  BY <1>1 DEF tables
<1>4. Typed'
  BY <1>2, <1>3 DEF Inv, Typed
<1>5. LocksFit' /\ KeysFit' /\ \A b \in Auctions : AuctionFits(b)'
  BY <1>3 DEF Inv, LocksFit, HoldsAuction, KeysFit, AuctionFits
<1>6. \A q \in Procs : /\ q \in Requests => RequestFits(q)'
                       /\ q = Settler => SettlerFits'
  BY <1>3, <1>4, OthersFit DEF Typed
<1> QED
  BY <1>4, <1>5, <1>6, ProcFacts DEF Inv

LEMMA RestartKeeps ==
  ASSUME Inv, Restart
  PROVE  Inv'
<1>1. /\ auction' = auction /\ balance' = balance /\ sealed' = sealed /\ bids' = bids
      /\ sale' = sale /\ done' = done /\ time' = time /\ tx' = [p \in Procs |-> Idle]
  BY DEF Restart, tables
<1>2. \A p \in Procs : tx'[p] = Idle
  BY <1>1
<1>3. Typed'
  BY <1>1, IdleType DEF Inv, Typed
<1>4. KeysFit' /\ \A b \in Auctions : AuctionFits(b)'
  BY <1>1 DEF Inv, KeysFit, AuctionFits
<1>5. \A p \in Procs : /\ \A a \in Auctions : ~HoldsAuction(p, a)'
                       /\ RequestFits(p)'
                       /\ p = Settler => SettlerFits'
  BY <1>2, IdleFits
<1>6. LocksFit'
  <2>1. \A p \in Procs : tx'[p].rows = {}
    BY <1>2 DEF Idle
  <2> QED
    BY <1>5, <2>1 DEF LocksFit
<1> QED
  BY <1>3, <1>4, <1>5, <1>6, ProcFacts DEF Inv

-----------------------------------------------------------------------------
LEMMA InvInit == Init => Inv
<1> SUFFICES ASSUME Init PROVE Inv
  OBVIOUS
<1>1. /\ auction = [a \in Auctions |-> FreeRow] /\ time = [a \in Auctions |-> "early"]
      /\ balance = [u \in Users |-> [NoFunds EXCEPT !.available =
                                       IF u = Platform THEN 0 ELSE StartingFunds]]
      /\ sealed = [a \in Auctions |-> [u \in Users |-> NoBid]]
      /\ bids = {} /\ done = {} /\ sale = [a \in Auctions |-> NoSale]
      /\ tx = [p \in Procs |-> Idle]
  BY DEF Init
<1>2. Typed
  <2>1. [a \in Auctions |-> FreeRow] \in [Auctions -> Row]
    BY IdleType
  <2>2. balance \in [Users -> Funds]
    BY <1>1, BidsAssumption DEF NoFunds, Funds
  <2>3. NoBid \in [max : Nat, key : Keys \cup {NoOne}]
    BY DEF NoBid
  <2>4. NoSale \in [winner : Users \cup {Nobody}, gross : Nat]
    BY DEF NoSale
  <2>5. tx \in [Procs -> Transaction]
    BY <1>1, IdleType
  <2> QED
    BY <1>1, <2>1, <2>2, <2>3, <2>4, <2>5 DEF Typed
<1>3. \A a \in Auctions : AuctionFits(a)
  BY <1>1 DEF AuctionFits, FreeRow, NoBid
<1>4. KeysFit
  BY <1>1 DEF KeysFit
<1>5. /\ Idle.at = "idle" /\ Idle.key = NoOne /\ Idle.rows = {} /\ Idle.lots = {}
      /\ Idle.lot = 0 /\ Idle.todo = <<>>
  BY DEF Idle
<1>6. \A p \in Procs : tx[p] = Idle
  BY <1>1
<1>7. LocksFit
  BY <1>5, <1>6 DEF LocksFit, HoldsAuction
<1>8. \A r \in Requests : RequestFits(r)
  BY <1>5, <1>6, ProcFacts DEF RequestFits
<1>9. SettlerFits
  <2>1. \A u \in Users : Paid(u) = 0
    <3>1. SUFFICES ASSUME NEW u \in Users PROVE Paid(u) = 0
      OBVIOUS
    <3> DEFINE f == [a \in Auctions |-> IF a \in tx[Settler].lots /\ a <= tx[Settler].lot
                                        THEN Payout(a, u) ELSE 0]
    <3>2. NumAuctions \in Nat /\ \A a \in 1..NumAuctions : f[a] = 0
      BY <1>5, <1>6, ProcFacts, BidsAssumption DEF Auctions
    <3>3. Paid(u) = Total(f, NumAuctions)
      BY DEF Paid
    <3> HIDE DEF f
    <3> QED
      BY <3>2, <3>3, TotalZero
  <2>2. \A u : Rest(tx[Settler].todo, u) = 0
    BY <1>5, <1>6, ProcFacts, RestNone
  <2> QED
    BY <1>5, <1>6, <2>1, <2>2, ProcFacts DEF SettlerFits
<1> QED
  BY <1>2, <1>3, <1>4, <1>7, <1>8, <1>9 DEF Inv

LEMMA PlaceBidKeeps ==
  ASSUME Inv, NEW r \in Requests, PlaceBid(r)
  PROVE  Inv'
<1>1. Typed /\ RequestFits(r) /\ r \in Procs /\ (tx[r].key # NoOne => tx[r].key \in Keys)
  BY RequestFacts
<1>2. CASE LockAuction(r)
  BY <1>2, LockAuctionKeeps
<1>3. CASE IsPaced(r)
  BY <1>1, <1>3, AbortKeeps DEF IsPaced
<1>4. CASE ChangesBalance(r)
  BY <1>1, <1>4, ChangesBalanceCases, RequestAdvances, AbortKeeps
<1>5. CASE BidCommits(r)
  <2>1. tx[r].at = "commit" /\ (CommitsOpen(r) \/ CommitsSealed(r))
    BY <1>5 DEF BidCommits
  <2>2. tx[r].key \in Keys
    BY <1>1, <2>1 DEF RequestFits
  <2> QED
    BY <1>5, <2>1, <2>2, OpenBidKeeps, SealedBidKeeps
<1>6. CASE DeadlockVictim(r)
  BY <1>1, <1>6, AbortKeeps DEF DeadlockVictim
<1> QED
  BY <1>2, <1>3, <1>4, <1>5, <1>6 DEF PlaceBid

LEMMA SettlementKeeps ==
  ASSUME Inv, Settlement
  PROVE  Inv'
<1>1. Typed /\ Settler \in Procs
  BY SettlerFacts
<1>2. CASE SettlementStarts
  BY <1>2, SettlementStartsKeeps
<1>3. CASE NextLot
  BY <1>3, NextLotKeeps
<1>4. CASE ChangesBalance(Settler)
  BY <1>1, <1>4, ChangesBalanceCases, SettlerAdvances, AbortKeeps
<1>5. CASE SettlementCommits
  BY <1>5, SettlementCommitsKeeps
<1>6. CASE DeadlockVictim(Settler)
  BY <1>1, <1>6, AbortKeeps DEF DeadlockVictim
<1> QED
  BY <1>2, <1>3, <1>4, <1>5, <1>6 DEF Settlement

LEMMA InvNext == Inv /\ [Next]_vars => Inv'
<1> SUFFICES ASSUME Inv, [Next]_vars PROVE Inv'
  OBVIOUS
<1>1. CASE \E r \in Requests, k \in Keys : Arrive(r, k)
  BY <1>1, ArriveKeeps
<1>2. CASE \E r \in Requests : PlaceBid(r)
  BY <1>2, PlaceBidKeeps
<1>3. CASE Settlement
  BY <1>3, SettlementKeeps
<1>4. CASE \E a \in Auctions : Opens(a) \/ TimePasses(a) \/ IsSealed(a)
  BY <1>4, OpensKeeps, TimePassesKeeps, IsSealedKeeps
<1>5. CASE Restart
  BY <1>5, RestartKeeps
<1>6. CASE UNCHANGED vars
  <2>1. /\ auction' = auction /\ balance' = balance /\ sealed' = sealed /\ bids' = bids
        /\ sale' = sale /\ done' = done /\ time' = time /\ tx' = tx
    BY <1>6 DEF vars, tables
  <2>2. Typed' /\ KeysFit' /\ LocksFit' /\ \A b \in Auctions : AuctionFits(b)'
    BY <2>1 DEF Inv, Typed, KeysFit, LocksFit, HoldsAuction, AuctionFits
  <2>3. \A q \in Procs : /\ q \in Requests => RequestFits(q)'
                         /\ q = Settler => SettlerFits'
    BY <2>1, <2>2, OthersFit DEF Typed
  <2> QED
    BY <2>2, <2>3, ProcFacts DEF Inv
<1> QED
  BY <1>1, <1>2, <1>3, <1>4, <1>5, <1>6 DEF Next

\* What a request or a settlement has read and locked holds until it commits, over
\* every interleaving with the others, aborts and restarts: the rows it has drafted
\* are the rows of the tables with its changes made, and what is left to pay is what
\* the sales of its lots promise (auctionService.ts, placeBid and settleAuctions).
THEOREM DraftsFit == Spec => []Inv
BY InvInit, InvNext, PTL DEF Spec

-----------------------------------------------------------------------------
(* The escrow promise *)

\* The escrow's own copies of the arithmetic are the same.
LEMMA SameArithmetic ==
  /\ PromisedEscrow!Users = Users /\ PromisedEscrow!Auctions = Auctions
  /\ PromisedEscrow!Nobody = Nobody /\ PromisedEscrow!NoSale = NoSale
  /\ \A x : PromisedEscrow!MinimumBidFor(x) = MinimumBidFor(x)
  /\ \A x : PromisedEscrow!AuctionFee(x) = AuctionFee(x)
  /\ \A f, n : PromisedEscrow!Total(f, n) = Total(f, n)
<1>1. /\ PromisedEscrow!Users = Users /\ PromisedEscrow!Auctions = Auctions
      /\ PromisedEscrow!Nobody = Nobody
  BY DEF PromisedEscrow!Users, Users, PromisedEscrow!Auctions, Auctions,
         PromisedEscrow!Nobody, Nobody
<1>2. PromisedEscrow!NoSale = NoSale
  BY <1>1 DEF PromisedEscrow!NoSale, NoSale
<1>3. \A x : PromisedEscrow!MinimumBidFor(x) = MinimumBidFor(x)
  BY DEF PromisedEscrow!MinimumBidFor, MinimumBidFor, PromisedEscrow!MinIncrement,
         MinIncrement, PromisedEscrow!Percent, Percent, PromisedEscrow!AtLeast, AtLeast,
         PromisedEscrow!Unit, Unit
<1>4. \A x : PromisedEscrow!AuctionFee(x) = AuctionFee(x)
  BY DEF PromisedEscrow!AuctionFee, AuctionFee, PromisedEscrow!Percent, Percent
<1>5. \A f, n : PromisedEscrow!Total(f, n) = Total(f, n)
  BY DEF PromisedEscrow!Total, Total
<1> QED
  BY <1>1, <1>2, <1>3, <1>4, <1>5

LEMMA PhasesAre ==
  /\ PhaseOf("FREE") = "none" /\ PhaseOf("LIVE") = "open"
  /\ PhaseOf("SEALED_ENDGAME") = "veiled" /\ PhaseOf("SETTLED") = "done"
BY DEF PhaseOf

\* The escrow's view, after a step.
Standing(a, u) == IF auction[a].status = "SETTLED" THEN 0 ELSE Pledge(a, u)
SellerOf(a)    == IF auction[a].status = "FREE" THEN Platform ELSE Seller[a]

LEMMA ViewAfter ==
  /\ Available' = [u \in Users |-> balance'[u].available]
  /\ Pledges' = [a \in Auctions |-> [u \in Users |-> Standing(a, u)']]
  /\ VisiblePrices' = [a \in Auctions |-> auction'[a].current]
  /\ Phases' = [a \in Auctions |-> PhaseOf(auction'[a].status)]
  /\ Sellers' = [a \in Auctions |-> SellerOf(a)']
BY DEF Available, Pledges, VisiblePrices, Phases, PhaseOf, Sellers, Standing, SellerOf

LEMMA ViewOf ==
  /\ \A a \in Auctions, u \in Users : Pledges[a][u] = Standing(a, u)
  /\ \A a \in Auctions : /\ VisiblePrices[a] = auction[a].current
                         /\ Phases[a] = PhaseOf(auction[a].status)
                         /\ Sellers[a] = SellerOf(a)
  /\ \A u \in Users : Available[u] = balance[u].available
BY DEF Available, Pledges, VisiblePrices, Phases, Sellers, Standing, SellerOf

\* What a step leaves alone of an auction, the escrow sees unchanged.
LEMMA UnseenAuction ==
  ASSUME NEW a \in Auctions, auction'[a] = auction[a], sealed'[a] = sealed[a]
  PROVE  /\ \A u \in Users : Standing(a, u)' = Standing(a, u)
         /\ SellerOf(a)' = SellerOf(a)
BY DEF Standing, SellerOf, Pledge

LEMMA Unseen ==
  ASSUME UNCHANGED tables
  PROVE  UNCHANGED PromisedEscrow!vars
<1>1. auction' = auction /\ balance' = balance /\ sealed' = sealed /\ sale' = sale
  BY DEF tables
<1>2. Pledges' = Pledges
  <2>1. [a \in Auctions |-> [u \in Users |-> Standing(a, u)']] = Pledges
    BY <1>1, UnseenAuction DEF Pledges, Standing
  <2> QED
    BY <2>1, ViewAfter
<1>3. Sellers' = Sellers
  <2>1. [a \in Auctions |-> SellerOf(a)'] = Sellers
    BY <1>1, UnseenAuction DEF Sellers, SellerOf
  <2> QED
    BY <2>1, ViewAfter
<1>4. Available' = Available /\ VisiblePrices' = VisiblePrices /\ Phases' = Phases
  BY <1>1, ViewAfter DEF Available, VisiblePrices, Phases
<1> QED
  BY <1>1, <1>2, <1>3, <1>4 DEF PromisedEscrow!vars

LEMMA EscrowInit == Init => PromisedEscrow!Init
<1> SUFFICES ASSUME Init PROVE PromisedEscrow!Init
  OBVIOUS
<1>1. /\ auction = [a \in Auctions |-> FreeRow]
      /\ balance = [u \in Users |-> [NoFunds EXCEPT !.available =
                                       IF u = Platform THEN 0 ELSE StartingFunds]]
      /\ sealed = [a \in Auctions |-> [u \in Users |-> NoBid]]
      /\ sale = [a \in Auctions |-> NoSale]
  BY DEF Init
<1>2. Available = [u \in Users |-> IF u = Platform THEN 0 ELSE StartingFunds]
  BY <1>1 DEF Available, NoFunds
<1>3. \A a \in Auctions : /\ auction[a].status = "FREE" /\ auction[a].current = 0
                          /\ \A u \in Users : sealed[a][u].max = 0
  BY <1>1 DEF FreeRow, NoBid
<1>4. Pledges = [a \in Auctions |-> [u \in Users |-> 0]]
  BY <1>3 DEF Pledges, Pledge
<1>5. /\ VisiblePrices = [a \in Auctions |-> 0]
      /\ Phases = [a \in Auctions |-> "none"]
      /\ Sellers = [a \in Auctions |-> Platform]
  BY <1>3, PhasesAre DEF VisiblePrices, Phases, Sellers
<1> QED
  BY <1>1, <1>2, <1>4, <1>5, SameArithmetic DEF PromisedEscrow!Init

\* A creation offers, and somebody who looks in the last minute draws the veil.
LEMMA OpeningOffers ==
  ASSUME Inv, NEW a \in Auctions, Opens(a)
  PROVE  PromisedEscrow!Offer(a, Seller[a])
<1>1. /\ Typed /\ AuctionFits(a) /\ auction[a].status = "FREE"
      /\ auction' = [auction EXCEPT ![a].status = "LIVE"]
      /\ balance' = balance /\ sealed' = sealed /\ sale' = sale
  BY DEF Inv, Opens
<1>2. /\ auction'[a].status = "LIVE" /\ auction'[a].current = auction[a].current
      /\ auction'[a].leader = auction[a].leader
      /\ \A b \in Auctions : b # a => auction'[b] = auction[b]
  BY <1>1 DEF Typed, Row
<1>3. \A b \in Auctions, u \in Users : Standing(b, u)' = Standing(b, u)
  BY <1>1, <1>2, UnseenAuction DEF Standing, Pledge
<1>4. Pledges' = Pledges
  <2>1. [b \in Auctions |-> [u \in Users |-> Standing(b, u)']] = Pledges
    BY <1>3 DEF Pledges, Standing
  <2> QED
    BY <2>1, ViewAfter
<1>5. \A b \in Auctions : SellerOf(b)' = IF b = a THEN Seller[a] ELSE SellerOf(b)
  BY <1>2, <1>1 DEF SellerOf
<1>6. Sellers' = [Sellers EXCEPT ![a] = Seller[a]]
  <2>1. [b \in Auctions |-> SellerOf(b)'] = [Sellers EXCEPT ![a] = Seller[a]]
    BY <1>5 DEF Sellers, SellerOf
  <2> QED
    BY <2>1, ViewAfter
<1>7. Phases' = [Phases EXCEPT ![a] = "open"] /\ Phases[a] = "none"
  <2>1. \A b \in Auctions : PhaseOf(auction'[b].status) =
                              IF b = a THEN "open" ELSE PhaseOf(auction[b].status)
    BY <1>2, PhasesAre
  <2> QED
    BY <1>1, <2>1, ViewAfter, ViewOf, PhasesAre DEF Phases
<1>8. Available' = Available /\ VisiblePrices' = VisiblePrices
  BY <1>1, <1>2, ViewAfter DEF Available, VisiblePrices
<1> QED
  BY <1>1, <1>4, <1>6, <1>7, <1>8 DEF PromisedEscrow!Offer

LEMMA LookingVeils ==
  ASSUME Inv, NEW a \in Auctions, IsSealed(a)
  PROVE  PromisedEscrow!Veil({a})
<1>1. /\ Typed /\ auction[a].status = "LIVE" /\ time[a] = "late"
      /\ auction' = [auction EXCEPT ![a] = Promoted(a)]
      /\ balance' = balance /\ sealed' = sealed /\ sale' = sale
  BY DEF Inv, IsSealed
<1>2. /\ auction'[a].status = "SEALED_ENDGAME" /\ auction'[a].current = auction[a].current
      /\ auction'[a].leader = auction[a].leader
      /\ \A b \in Auctions : b # a => auction'[b] = auction[b]
  BY <1>1 DEF Typed, Row, Promoted
<1>3. \A b \in Auctions, u \in Users : Standing(b, u)' = Standing(b, u)
  BY <1>1, <1>2, UnseenAuction DEF Standing, Pledge
<1>4. Pledges' = Pledges
  <2>1. [b \in Auctions |-> [u \in Users |-> Standing(b, u)']] = Pledges
    BY <1>3 DEF Pledges, Standing
  <2> QED
    BY <2>1, ViewAfter
<1>5. Sellers' = Sellers
  <2>1. \A b \in Auctions : SellerOf(b)' = SellerOf(b)
    BY <1>1, <1>2 DEF SellerOf
  <2>2. [b \in Auctions |-> SellerOf(b)'] = Sellers
    BY <2>1 DEF Sellers, SellerOf
  <2> QED
    BY <2>2, ViewAfter
<1>6. /\ Phases' = [b \in Auctions |-> IF b \in {a} THEN "veiled" ELSE Phases[b]]
      /\ Phases[a] = "open"
  <2>1. \A b \in Auctions : PhaseOf(auction'[b].status) =
                              IF b = a THEN "veiled" ELSE PhaseOf(auction[b].status)
    BY <1>2, PhasesAre
  <2> QED
    BY <1>1, <2>1, ViewAfter, ViewOf, PhasesAre DEF Phases
<1>7. Available' = Available /\ VisiblePrices' = VisiblePrices
  BY <1>1, <1>2, ViewAfter DEF Available, VisiblePrices
<1> QED
  BY <1>1, <1>4, <1>5, <1>6, <1>7, SameArithmetic DEF PromisedEscrow!Veil

\* The balances a bid has drafted.
LEMMA DraftedBid ==
  ASSUME Inv, NEW r \in Requests, NEW k \in Keys, k = tx[r].key, tx[r].at = "commit"
  PROVE  LET a == Bid[k].auction
             u == Bid[k].user
             l == auction[a].leader
         IN
         /\ Written(r)[u].available = balance[u].available - (Bid[k].amount - Pledge(a, u))
         /\ Displaces(r) =>
              /\ l \in Users /\ l # u
              /\ Written(r)[l].available = balance[l].available + auction[a].current
         /\ \A v \in Users : v # u /\ ~(Displaces(r) /\ v = l) => Written(r)[v] = balance[v]
<1> DEFINE a == Bid[k].auction
           u == Bid[k].user
           l == auction[a].leader
<1>1. /\ Typed /\ r \in Procs /\ BidPending(r) /\ a \in Auctions /\ u \in Users
      /\ Bid[k].amount \in Nat /\ auction[a].current \in Nat
  BY PendingFacts, RequestFacts
<1>2. /\ tx[r].rows = IF Displaces(r) THEN {u, l} ELSE {u}
      /\ tx[r].draft[u] = Applied(OwnChange(k))
      /\ Displaces(r) => tx[r].draft[l] = Applied(LeaderChange(k))
  BY <1>1 DEF BidPending
<1>3. Displaces(r) => l # u /\ l \in Users
  BY <1>1 DEF Displaces, Typed, Row
<1>4. /\ balance[u].available \in Nat /\ Pledge(a, u) \in Nat
      /\ l \in Users => balance[l].available \in Nat
  BY <1>1, PledgeType DEF Typed, Funds
<1>5. Applied(OwnChange(k)).available =
        balance[u].available - (Bid[k].amount - Pledge(a, u)) + 0
  BY DEF Applied, OwnChange, Change
<1>6. Applied(LeaderChange(k)).available =
        balance[l].available - (-auction[a].current) + 0
  BY DEF Applied, LeaderChange, Change
<1>7. \A v \in Users : Written(r)[v] = IF v \in tx[r].rows THEN tx[r].draft[v] ELSE balance[v]
  BY DEF Written
<1>8. Written(r)[u].available = balance[u].available - (Bid[k].amount - Pledge(a, u))
  <2>1. Written(r)[u] = Applied(OwnChange(k))
    BY <1>1, <1>2, <1>7
  <2> QED
    BY <1>1, <1>4, <1>5, <2>1
<1>9. Displaces(r) => Written(r)[l].available = balance[l].available + auction[a].current
  <2>1. SUFFICES ASSUME Displaces(r)
                 PROVE  Written(r)[l].available = balance[l].available + auction[a].current
    OBVIOUS
  <2>2. Written(r)[l] = Applied(LeaderChange(k))
    BY <1>2, <1>3, <1>7, <2>1
  <2>3. balance[l].available \in Nat /\ auction[a].current \in Nat
    BY <1>1, <1>3, <1>4, <2>1
  <2> HIDE DEF l, a
  <2> QED
    BY <1>6, <2>2, <2>3
<1>10. \A v \in Users : v # u /\ ~(Displaces(r) /\ v = l) => Written(r)[v] = balance[v]
  BY <1>2, <1>7
<1> QED
  BY <1>3, <1>8, <1>9, <1>10

LEMMA OpenBidOutbids ==
  ASSUME Inv, NEW r \in Requests, NEW k \in Keys, k = tx[r].key,
         BidCommits(r), CommitsOpen(r)
  PROVE  PromisedEscrow!Outbid(Bid[k].auction, Bid[k].user, Bid[k].amount)
<1> DEFINE a == Bid[k].auction
           u == Bid[k].user
           l == auction[a].leader
           led == [tx[r].row EXCEPT !.current = Bid[k].amount, !.leader = u]
<1>1. /\ Typed /\ AuctionFits(a) /\ a \in Auctions /\ u \in Users /\ Bid[k].amount \in Nat
      /\ Bid[k].amount >= MinimumBidFor(auction[a].current) /\ auction[a].current \in Nat
      /\ tx[r].row \in Row /\ tx[r].row.leader = l /\ Seller[a] # u
      /\ auction[a].status \in {"LIVE", "SEALED_ENDGAME"}
      /\ tx[r].row.status = auction[a].status \/ tx[r].row.status = "SEALED_ENDGAME"
      /\ tx[r].at = "commit"
  BY PendingFacts DEF Inv, BidCommits
<1>2. /\ auction' = [auction EXCEPT ![a] = led] /\ sealed' = sealed /\ sale' = sale
      /\ balance' = Written(r) /\ tx[r].row.status = "LIVE"
  BY DEF BidCommits, CommitsOpen
<1>3. auction[a].status = "LIVE"
  BY <1>1, <1>2
<1>4. /\ auction'[a] = led /\ \A b \in Auctions : b # a => auction'[b] = auction[b]
  BY <1>1, <1>2 DEF Typed
<1>5. /\ auction'[a].current = Bid[k].amount /\ auction'[a].leader = u
      /\ auction'[a].status = "LIVE"
  <2>1. led.current = Bid[k].amount /\ led.leader = u /\ led.status = tx[r].row.status
    BY <1>1 DEF Row
  <2> HIDE DEF led
  <2> QED
    BY <1>2, <1>4, <2>1
<1> HIDE DEF led
<1>6. \A v \in Users : sealed[a][v].max = 0
  <2>1. \A v \in Users : sealed[a][v].max \in Nat /\ ~(sealed[a][v].max > 0)
    BY <1>1, <1>3 DEF AuctionFits, Typed
  <2> QED
    BY <2>1
<1>7. \A v \in Users : Standing(a, v) = IF l = v THEN auction[a].current ELSE 0
  BY <1>3, <1>6 DEF Standing, Pledge
<1>8. ASSUME NEW b \in Auctions, NEW v \in Users
      PROVE  Standing(b, v)' = IF b = a THEN (IF v = u THEN Bid[k].amount ELSE 0)
                               ELSE Standing(b, v)
  <2>1. CASE b # a
    BY <1>2, <1>4, <2>1, UnseenAuction
  <2>2. CASE b = a
    <3>1. sealed'[a][v].max = 0
      BY <1>2, <1>6
    <3>2. Pledge(a, v)' = IF v = u THEN Bid[k].amount ELSE 0
      BY <1>5, <3>1 DEF Pledge
    <3> QED
      BY <1>5, <2>2, <3>2 DEF Standing
  <2> QED
    BY <2>1, <2>2
<1>9. Pledges' = [Pledges EXCEPT ![a] = [v \in Users |-> IF v = u THEN Bid[k].amount ELSE 0]]
  <2>1. [b \in Auctions |-> [v \in Users |-> Standing(b, v)']]
          = [Pledges EXCEPT ![a] = [v \in Users |-> IF v = u THEN Bid[k].amount ELSE 0]]
    BY <1>8 DEF Pledges, Standing
  <2> QED
    BY <2>1, ViewAfter
<1>10. VisiblePrices' = [VisiblePrices EXCEPT ![a] = Bid[k].amount]
  BY <1>4, <1>5, ViewAfter DEF VisiblePrices
<1>11. Sellers' = Sellers /\ Sellers[a] = Seller[a]
  <2>1. \A b \in Auctions : SellerOf(b)' = SellerOf(b)
    BY <1>3, <1>4, <1>5 DEF SellerOf
  <2>2. [b \in Auctions |-> SellerOf(b)'] = Sellers
    BY <2>1 DEF Sellers, SellerOf
  <2> QED
    BY <1>1, <1>3, <2>2, ViewAfter, ViewOf DEF SellerOf
<1>12. Phases' = Phases /\ Phases[a] = "open"
  <2>1. \A b \in Auctions : PhaseOf(auction'[b].status) = PhaseOf(auction[b].status)
    BY <1>3, <1>4, <1>5
  <2> QED
    BY <1>1, <1>3, <2>1, ViewAfter, ViewOf, PhasesAre DEF Phases
<1>13. Written(r) \in [Users -> Funds] /\ \A v \in Users : balance[v].available \in Nat
  BY <1>1, WrittenFacts, RequestFacts DEF Typed, Funds
<1>14. /\ Written(r)[u].available = balance[u].available - (Bid[k].amount - Pledge(a, u))
       /\ Displaces(r) =>
            /\ l \in Users /\ l # u
            /\ Written(r)[l].available = balance[l].available + auction[a].current
       /\ \A v \in Users : v # u /\ ~(Displaces(r) /\ v = l) => Written(r)[v] = balance[v]
  BY <1>1, DraftedBid
<1>15. Displaces(r) <=> l \notin {u, Nobody}
  BY <1>2 DEF Displaces
<1>16. Pledge(a, u) = Standing(a, u)
  BY <1>3 DEF Standing
<1>17. ASSUME NEW v \in Users
       PROVE  Written(r)[v].available =
                balance[v].available + Standing(a, v) - (IF v = u THEN Bid[k].amount ELSE 0)
  <2>1. v # Nobody
    BY ProcFacts
  <2>2. /\ balance[v].available \in Nat /\ Standing(a, v) \in Nat /\ Bid[k].amount \in Nat
        /\ Standing(a, v) = IF l = v THEN auction[a].current ELSE 0
    <3>1. Standing(a, v) = IF l = v THEN auction[a].current ELSE 0
      BY <1>7
    <3>2. balance[v].available \in Nat /\ Bid[k].amount \in Nat /\ auction[a].current \in Nat
      BY <1>1, <1>13
    <3> HIDE DEF a, l
    <3> QED
      BY <3>1, <3>2
  <2>3. CASE v = u
    <3>1. Written(r)[v].available = balance[v].available - (Bid[k].amount - Standing(a, v))
      BY <1>14, <1>16, <2>3
    <3> HIDE DEF a, u, l
    <3> QED
      BY <2>2, <2>3, <3>1
  <2>4. CASE v # u /\ v = l
    <3>1. Written(r)[v].available = balance[v].available + auction[a].current
      BY <1>14, <1>15, <2>1, <2>4
    <3> HIDE DEF a, u, l
    <3> QED
      BY <2>2, <2>4, <3>1
  <2>5. CASE v # u /\ v # l
    <3>1. Written(r)[v] = balance[v]
      BY <1>14, <2>5
    <3> HIDE DEF a, u, l
    <3> QED
      BY <2>2, <2>5, <3>1
  <2> QED
    BY <2>3, <2>4, <2>5
<1>18. Available' = [v \in Users |-> Available[v] + Pledges[a][v]
                                     - (IF v = u THEN Bid[k].amount ELSE 0)]
  <2>1. \A v \in Users : Available[v] = balance[v].available /\ Pledges[a][v] = Standing(a, v)
    BY <1>1, ViewOf
  <2>2. [v \in Users |-> Written(r)[v].available]
          = [v \in Users |-> Available[v] + Pledges[a][v] - (IF v = u THEN Bid[k].amount ELSE 0)]
    BY <1>17, <2>1
  <2> QED
    BY <1>2, <2>2, ViewAfter
<1>19. Available[u] + Pledges[a][u] >= Bid[k].amount
  <2>1. Written(r)[u].available \in Nat
    BY <1>1, <1>13 DEF Funds
  <2>2. Standing(a, u) \in Nat
    <3>1. Standing(a, u) = IF l = u THEN auction[a].current ELSE 0
      BY <1>1, <1>7
    <3> QED
      BY <1>1, <3>1
  <2>3. /\ Available[u] = balance[u].available /\ Pledges[a][u] = Standing(a, u)
        /\ balance[u].available \in Nat /\ Bid[k].amount \in Nat
        /\ Written(r)[u].available = balance[u].available + Standing(a, u) - Bid[k].amount
    BY <1>1, <1>13, <1>17, ViewOf
  <2> HIDE DEF a, u
  <2> QED
    BY <2>1, <2>2, <2>3
<1>20. VisiblePrices[a] = auction[a].current
  BY <1>1, ViewOf
<1> QED
  BY <1>1, <1>2, <1>9, <1>10, <1>11, <1>12, <1>18, <1>19, <1>20, SameArithmetic
     DEF PromisedEscrow!Outbid

LEMMA SealedBidRevises ==
  ASSUME Inv, NEW r \in Requests, NEW k \in Keys, k = tx[r].key,
         BidCommits(r), CommitsSealed(r)
  PROVE  PromisedEscrow!Revise(Bid[k].auction, Bid[k].user, Bid[k].amount)
<1> DEFINE a == Bid[k].auction
           u == Bid[k].user
           new == [max |-> Bid[k].amount, key |-> k]
<1>1. /\ Typed /\ a \in Auctions /\ u \in Users /\ Bid[k].amount \in Nat /\ Bid[k].amount > 0
      /\ Bid[k].amount >= MinimumBidFor(auction[a].current) /\ auction[a].current \in Nat
      /\ tx[r].row.current = auction[a].current /\ tx[r].row.leader = auction[a].leader
      /\ auction[a].status \in {"LIVE", "SEALED_ENDGAME"} /\ Seller[a] # u
      /\ tx[r].at = "commit"
  BY PendingFacts DEF Inv, BidCommits
<1>2. /\ auction' = [auction EXCEPT ![a] = tx[r].row] /\ sealed' = [sealed EXCEPT ![a][u] = new]
      /\ sale' = sale /\ balance' = Written(r) /\ tx[r].row.status = "SEALED_ENDGAME"
  BY DEF BidCommits, CommitsSealed
<1>3. new.max = Bid[k].amount
  OBVIOUS
<1> HIDE DEF new
<1>4. /\ auction'[a].current = auction[a].current /\ auction'[a].leader = auction[a].leader
      /\ auction'[a].status = "SEALED_ENDGAME"
      /\ \A b \in Auctions : b # a => auction'[b] = auction[b]
  BY <1>1, <1>2 DEF Typed
<1>5. /\ sealed'[a][u].max = Bid[k].amount
      /\ \A v \in Users : v # u => sealed'[a][v] = sealed[a][v]
      /\ \A b \in Auctions : b # a => sealed'[b] = sealed[b]
  BY <1>1, <1>2, <1>3 DEF Typed
<1>6. ASSUME NEW b \in Auctions, NEW v \in Users
      PROVE  Standing(b, v)' = IF b = a /\ v = u THEN Bid[k].amount ELSE Standing(b, v)
  <2>1. CASE b # a
    BY <1>4, <1>5, <2>1, UnseenAuction
  <2>2. CASE b = a /\ v # u
    BY <1>1, <1>4, <1>5, <2>2 DEF Standing, Pledge
  <2>3. CASE b = a /\ v = u
    BY <1>1, <1>4, <1>5, <2>3 DEF Standing, Pledge
  <2> QED
    BY <2>1, <2>2, <2>3
<1>7. Pledges' = [Pledges EXCEPT ![a][u] = Bid[k].amount]
  <2>1. [b \in Auctions |-> [v \in Users |-> Standing(b, v)']]
          = [Pledges EXCEPT ![a][u] = Bid[k].amount]
    <3> DEFINE x == Bid[k].amount
    <3>1. /\ Pledges = [b \in Auctions |-> Pledges[b]]
          /\ Pledges[a] = [v \in Users |-> Standing(a, v)]
          /\ \A b \in Auctions : Pledges[b] = [v \in Users |-> Standing(b, v)]
      BY <1>1 DEF Pledges, Standing
    <3>2. [v \in Users |-> Standing(a, v)'] = [Pledges[a] EXCEPT ![u] = x]
      <4>1. \A v \in Users : Standing(a, v)' = IF v = u THEN x ELSE Standing(a, v)
        BY <1>1, <1>6
      <4>2. [Pledges[a] EXCEPT ![u] = x] =
              [v \in Users |-> IF v = u THEN x ELSE Standing(a, v)]
        BY <3>1
      <4> QED
        BY <4>1, <4>2
    <3>3. \A b \in Auctions : b # a => [v \in Users |-> Standing(b, v)'] = Pledges[b]
      BY <1>6, <3>1
    <3> HIDE DEF x, u, a
    <3>4. [Pledges EXCEPT ![a][u] = x] =
            [b \in Auctions |-> IF b = a THEN [Pledges[a] EXCEPT ![u] = x] ELSE Pledges[b]]
      BY <1>1, <3>1
    <3> QED
      BY <3>2, <3>3, <3>4 DEF x
  <2> QED
    BY <2>1, ViewAfter
<1>8. VisiblePrices' = VisiblePrices
  BY <1>4, ViewAfter DEF VisiblePrices
<1>9. Sellers' = Sellers /\ Sellers[a] = Seller[a]
  <2>1. \A b \in Auctions : SellerOf(b)' = SellerOf(b)
    BY <1>1, <1>4 DEF SellerOf
  <2>2. [b \in Auctions |-> SellerOf(b)'] = Sellers
    BY <2>1 DEF Sellers, SellerOf
  <2>3. SellerOf(a) = Seller[a]
    BY <1>1 DEF SellerOf
  <2> QED
    BY <1>1, <2>2, <2>3, ViewAfter, ViewOf
<1>10. Phases[a] \in {"open", "veiled"} /\ Phases' = [Phases EXCEPT ![a] = "veiled"]
  <2>1. \A b \in Auctions : PhaseOf(auction'[b].status) =
                              IF b = a THEN "veiled" ELSE PhaseOf(auction[b].status)
    BY <1>4, PhasesAre
  <2>2. PhaseOf(auction[a].status) \in {"open", "veiled"}
    BY <1>1, PhasesAre
  <2> QED
    BY <1>1, <2>1, <2>2, ViewAfter, ViewOf DEF Phases
<1>11. Written(r) \in [Users -> Funds] /\ \A v \in Users : balance[v].available \in Nat
  BY <1>1, WrittenFacts, RequestFacts DEF Typed, Funds
<1>12. ~Displaces(r)
  BY <1>2 DEF Displaces
<1>13. /\ Written(r)[u].available = balance[u].available - (Bid[k].amount - Pledge(a, u))
       /\ \A v \in Users : v # u => Written(r)[v] = balance[v]
  BY <1>1, <1>12, DraftedBid
<1>14. Standing(a, u) = Pledge(a, u) /\ Pledge(a, u) \in Nat
  BY <1>1, PledgeType DEF Standing
<1>15. Written(r)[u].available = balance[u].available + Standing(a, u) - Bid[k].amount
  BY <1>1, <1>11, <1>13, <1>14
<1>16. Available' = [Available EXCEPT ![u] = @ + Pledges[a][u] - Bid[k].amount]
  <2>1. Pledges[a][u] = Standing(a, u)
    BY <1>1, ViewOf
  <2>2. [v \in Users |-> Written(r)[v].available]
          = [Available EXCEPT ![u] = @ + Standing(a, u) - Bid[k].amount]
    BY <1>1, <1>13, <1>15 DEF Available
  <2> QED
    BY <1>2, <2>1, <2>2, ViewAfter
<1>17. Available[u] + Pledges[a][u] >= Bid[k].amount
  <2>1. Written(r)[u].available \in Nat
    BY <1>1, <1>11 DEF Funds
  <2> QED
    BY <1>1, <1>11, <1>14, <1>15, <2>1, ViewOf
<1>18. VisiblePrices[a] = auction[a].current
  BY <1>1, ViewOf
<1> QED
  BY <1>1, <1>2, <1>7, <1>8, <1>9, <1>10, <1>16, <1>17, <1>18, SameArithmetic
     DEF PromisedEscrow!Revise

\* What the settlement worker pays for a lot is what the escrow pays out for its sale,
\* and the sale is one the escrow calls fair.
SaleOf(a) == IF Bidders(a) = {} THEN NoSale ELSE [winner |-> Winner(a), gross |-> Price(a)]

LEMMA SaleFacts ==
  ASSUME Typed, NEW a \in Auctions, AuctionFits(a),
         auction[a].status \in {"LIVE", "SEALED_ENDGAME"}
  PROVE  /\ SaleOf(a) \in [winner : Users \cup {Nobody}, gross : Nat]
         /\ \A u \in Users : PromisedEscrow!Payout(a, u, SaleOf(a)) = Payout(a, u)
         /\ PromisedEscrow!Fair(a, SaleOf(a))
<1>1. \A u \in Users : /\ Pledges[a][u] = Pledge(a, u) /\ Pledge(a, u) \in Nat /\ u # Nobody
                       /\ Stakes(a)[u] = Pledge(a, u)
  BY ViewOf, PledgeType, ProcFacts DEF Standing, Stakes
<1>2. VisiblePrices[a] = auction[a].current /\ Sellers[a] = Seller[a]
  BY ViewOf DEF SellerOf
<1>3. ASSUME NEW u \in Users
      PROVE  PromisedEscrow!Payout(a, u, SaleOf(a)) =
               Pledge(a, u) - (IF u = SaleOf(a).winner THEN SaleOf(a).gross ELSE 0)
               + (IF u = Seller[a] THEN SaleOf(a).gross - AuctionFee(SaleOf(a).gross) ELSE 0)
               + (IF u = Platform THEN AuctionFee(SaleOf(a).gross) ELSE 0)
  BY <1>1, <1>2, SameArithmetic DEF PromisedEscrow!Payout
<1>4. CASE Bidders(a) = {}
  <2>1. SaleOf(a) = NoSale /\ NoSale.winner = Nobody /\ NoSale.gross = 0
    BY <1>4 DEF SaleOf, NoSale
  <2>2. SaleOf(a) \in [winner : Users \cup {Nobody}, gross : Nat]
    BY <2>1 DEF NoSale
  <2>3. \A u \in Users : Pledge(a, u) = 0
    BY <1>1, <1>4 DEF Bidders, Candidates
  <2>4. AuctionFee(0) = 0
    BY DEF AuctionFee, Percent
  <2>5. \A u \in Users : PromisedEscrow!Payout(a, u, SaleOf(a)) = 0
    BY <1>1, <1>3, <2>1, <2>3, <2>4
  <2>6. PromisedEscrow!Fair(a, SaleOf(a))
    BY <1>1, <2>1, <2>3, SameArithmetic DEF PromisedEscrow!Fair
  <2> QED
    BY <1>4, <2>2, <2>5, <2>6 DEF Payout
<1>5. CASE Bidders(a) # {}
  <2>1. /\ Winner(a) \in Users /\ Price(a) \in Nat
        /\ auction[a].current <= Price(a) /\ Price(a) <= Pledge(a, Winner(a))
        /\ \A u \in Users \ {Winner(a)} : Pledge(a, u) <= Price(a)
    BY <1>5, WinnerFacts
  <2>2. SaleOf(a).winner = Winner(a) /\ SaleOf(a).gross = Price(a)
    BY <1>5 DEF SaleOf
  <2>3. SaleOf(a) \in [winner : Users \cup {Nobody}, gross : Nat]
    BY <1>5, <2>1 DEF SaleOf
  <2>4. \A u \in Users : PromisedEscrow!Payout(a, u, SaleOf(a)) = Payout(a, u)
    BY <1>3, <1>5, <2>2 DEF Payout
  <2>5. /\ SaleOf(a).winner # Nobody
        /\ VisiblePrices[a] <= SaleOf(a).gross
        /\ SaleOf(a).gross <= Pledges[a][SaleOf(a).winner]
        /\ \A u \in Users \ {SaleOf(a).winner} : Pledges[a][u] <= SaleOf(a).gross
    BY <1>1, <1>2, <2>1, <2>2
  <2>6. PromisedEscrow!Fair(a, SaleOf(a))
    BY <2>5, SameArithmetic DEF PromisedEscrow!Fair
  <2> QED
    BY <2>3, <2>4, <2>6
<1> QED
  BY <1>4, <1>5

\* All lots are done: what is drafted is what the escrow pays.
LEMMA DraftedSettlement ==
  ASSUME Inv, tx[Settler].at = "commit", NEW u \in Users
  PROVE  LET pay == [a \in Auctions |-> IF a \in tx[Settler].lots THEN Payout(a, u) ELSE 0]
         IN  Written(Settler)[u].available = balance[u].available + Total(pay, NumAuctions)
<1> DEFINE lots == tx[Settler].lots
           pay == [a \in Auctions |-> IF a \in lots THEN Payout(a, u) ELSE 0]
           f == [a \in Auctions |-> IF a \in lots /\ a <= tx[Settler].lot
                                    THEN Payout(a, u) ELSE 0]
<1>1. /\ Typed /\ SettlerFits /\ tx[Settler].todo = <<>> /\ \A a \in lots : a <= tx[Settler].lot
  BY SettlerFacts DEF SettlerFits
<1>2. pay = f
  BY <1>1
<1>3. Paid(u) = Total(pay, NumAuctions)
  BY <1>2 DEF Paid
<1>4. Rest(tx[Settler].todo, u) = 0
  BY <1>1, RestNone
<1>5. IF u \in tx[Settler].rows
      THEN tx[Settler].draft[u].available + Rest(tx[Settler].todo, u) =
             balance[u].available + Paid(u)
      ELSE Rest(tx[Settler].todo, u) = Paid(u)
  BY <1>1 DEF SettlerFits
<1>6. /\ balance[u].available \in Int /\ tx[Settler].draft[u].available \in Int /\ Paid(u) \in Int
  BY <1>1, PaidType, SettlerFacts DEF Typed, Transaction, Funds
<1>7. Written(Settler)[u].available = balance[u].available + Paid(u)
  <2>1. Written(Settler)[u] = IF u \in tx[Settler].rows THEN tx[Settler].draft[u] ELSE balance[u]
    BY DEF Written
  <2> QED
    BY <1>4, <1>5, <1>6, <2>1
<1> HIDE DEF pay
<1> QED
  BY <1>3, <1>7 DEF pay

LEMMA SettlementConcludes ==
  ASSUME Inv, SettlementCommits
  PROVE  PromisedEscrow!Conclude(tx[Settler].lots, {}) /\ tx[Settler].lots \in SUBSET Auctions
<1> SUFFICES ASSUME NEW lots, lots = tx[Settler].lots
             PROVE  PromisedEscrow!Conclude(lots, {}) /\ lots \in SUBSET Auctions
  OBVIOUS
<1> DEFINE pay(u) == [a \in Auctions |-> IF a \in lots THEN Payout(a, u) ELSE 0]
<1>1. /\ Typed /\ (\A a \in Auctions : AuctionFits(a))
      /\ lots \subseteq Auctions /\ lots # {} /\ tx[Settler].at = "commit"
      /\ \A a \in lots : auction[a].status \in {"LIVE", "SEALED_ENDGAME"}
  BY SettlerFacts DEF SettlerFits, SettlementCommits
<1>2. /\ balance' = Written(Settler)
      /\ auction' = [a \in Auctions |->
                       IF a \in lots THEN [auction[a] EXCEPT !.status = "SETTLED"] ELSE auction[a]]
      /\ sale' = [a \in Auctions |-> IF a \in lots THEN SaleOf(a) ELSE sale[a]]
      /\ sealed' = sealed
  BY DEF SettlementCommits, SaleOf
<1>3. \A a \in Auctions : /\ auction'[a].current = auction[a].current
                          /\ a \notin lots => auction'[a] = auction[a]
                          /\ a \in lots => auction'[a].status = "SETTLED"
  BY <1>1, <1>2 DEF Typed, Row
<1>4. ASSUME NEW a \in Auctions, NEW u \in Users
      PROVE  Standing(a, u)' = IF a \in lots THEN 0 ELSE Standing(a, u)
  <2>1. CASE a \in lots
    BY <1>3, <2>1 DEF Standing
  <2>2. CASE a \notin lots
    BY <1>2, <1>3, <2>2, UnseenAuction
  <2> QED
    BY <2>1, <2>2
<1>5. Pledges' = [a \in Auctions |-> IF a \in lots THEN [u \in Users |-> 0] ELSE Pledges[a]]
  <2>1. \A a \in Auctions : Pledges[a] = [u \in Users |-> Standing(a, u)]
    BY DEF Pledges, Standing
  <2>2. [a \in Auctions |-> [u \in Users |-> Standing(a, u)']]
          = [a \in Auctions |-> IF a \in lots THEN [u \in Users |-> 0] ELSE Pledges[a]]
    BY <1>4, <2>1
  <2> QED
    BY <2>2, ViewAfter
<1>6. VisiblePrices' = VisiblePrices
  BY <1>3, ViewAfter DEF VisiblePrices
<1>7. Sellers' = Sellers
  <2>1. \A a \in Auctions : SellerOf(a)' = SellerOf(a)
    BY <1>1, <1>3 DEF SellerOf
  <2>2. [a \in Auctions |-> SellerOf(a)'] = Sellers
    BY <2>1 DEF Sellers, SellerOf
  <2> QED
    BY <2>2, ViewAfter
<1>8. /\ Phases' = [a \in Auctions |->
           IF a \in lots THEN "done" ELSE IF a \in {} THEN "closed" ELSE Phases[a]]
      /\ \A a \in lots : Phases[a] \in {"open", "veiled", "closed"}
  <2>1. \A a \in Auctions : PhaseOf(auction'[a].status) =
                              IF a \in lots THEN "done" ELSE PhaseOf(auction[a].status)
    BY <1>3, PhasesAre
  <2>2. \A a \in lots : PhaseOf(auction[a].status) \in {"open", "veiled", "closed"}
    BY <1>1, PhasesAre
  <2> QED
    BY <1>1, <2>1, <2>2, ViewAfter, ViewOf DEF Phases
<1>9. \A a \in Auctions : a \in lots =>
        /\ SaleOf(a) \in [winner : Users \cup {Nobody}, gross : Nat]
        /\ \A u \in Users : PromisedEscrow!Payout(a, u, SaleOf(a)) = Payout(a, u)
        /\ PromisedEscrow!Fair(a, SaleOf(a))
  BY <1>1, SaleFacts
<1>10. sale' \in [Auctions -> PromisedEscrow!Sale]
  <2>1. PromisedEscrow!Sale = [winner : Users \cup {Nobody}, gross : Nat]
    BY SameArithmetic DEF PromisedEscrow!Sale
  <2> QED
    BY <1>1, <1>2, <1>9, <2>1 DEF Typed
<1>11. \A a \in Auctions :
         IF a \in lots THEN PromisedEscrow!Fair(a, sale'[a]) ELSE sale'[a] = sale[a]
  BY <1>2, <1>9
<1>12. \A u \in Users :
         [a \in Auctions |-> IF a \in lots THEN PromisedEscrow!Payout(a, u, sale'[a]) ELSE 0]
           = pay(u)
  BY <1>2, <1>9
<1>13. \A u \in Users :
         Written(Settler)[u].available = balance[u].available + Total(pay(u), NumAuctions)
  BY <1>1, DraftedSettlement
<1>14. Available' = [u \in Users |-> Available[u] + PromisedEscrow!Total(
         [a \in Auctions |-> IF a \in lots THEN PromisedEscrow!Payout(a, u, sale'[a]) ELSE 0],
         NumAuctions)]
  <2>1. \A u \in Users : PromisedEscrow!Total(
          [a \in Auctions |-> IF a \in lots THEN PromisedEscrow!Payout(a, u, sale'[a]) ELSE 0],
          NumAuctions) = Total(pay(u), NumAuctions)
    BY <1>12, SameArithmetic
  <2> HIDE DEF pay
  <2>2. [u \in Users |-> Written(Settler)[u].available] =
          [u \in Users |-> Available[u] + PromisedEscrow!Total(
             [a \in Auctions |-> IF a \in lots THEN PromisedEscrow!Payout(a, u, sale'[a]) ELSE 0],
             NumAuctions)]
    BY <1>13, <2>1, ViewOf
  <2> QED
    BY <1>2, <2>2, ViewAfter
<1> QED
  BY <1>1, <1>5, <1>6, <1>7, <1>8, <1>10, <1>11, <1>14, SameArithmetic
     DEF PromisedEscrow!Conclude

-----------------------------------------------------------------------------
LEMMA PlaceBidRefines ==
  ASSUME Inv, NEW r \in Requests, PlaceBid(r)
  PROVE  [PromisedEscrow!Next]_(PromisedEscrow!vars)
<1>1. CASE BidCommits(r)
  <2>1. tx[r].at = "commit" /\ (CommitsOpen(r) \/ CommitsSealed(r))
    BY <1>1 DEF BidCommits
  <2>2. PICK k \in Keys : k = tx[r].key
    BY <2>1, RequestFacts DEF RequestFits
  <2>3. /\ Bid[k].auction \in Auctions /\ Bid[k].user \in Users
        /\ Bid[k].amount \in {Bid[j].amount : j \in Keys}
    BY BidFacts
  <2>4. \/ PromisedEscrow!Outbid(Bid[k].auction, Bid[k].user, Bid[k].amount)
        \/ PromisedEscrow!Revise(Bid[k].auction, Bid[k].user, Bid[k].amount)
    BY <1>1, <2>1, <2>2, OpenBidOutbids, SealedBidRevises
  <2> QED
    BY <2>3, <2>4, SameArithmetic DEF PromisedEscrow!Next
<1>2. CASE ~BidCommits(r)
  <2>1. UNCHANGED tables
    BY <1>2 DEF PlaceBid, LockAuction, IsPaced, ChangesBalance, DeadlockVictim
  <2> QED
    BY <2>1, Unseen
<1> QED
  BY <1>1, <1>2

LEMMA SettlementRefines ==
  ASSUME Inv, Settlement
  PROVE  [PromisedEscrow!Next]_(PromisedEscrow!vars)
<1>1. CASE SettlementCommits
  <2>1. PICK S \in SUBSET Auctions : PromisedEscrow!Conclude(S, {})
    BY <1>1, SettlementConcludes
  <2>2. {} \in SUBSET (Auctions \ S)
    OBVIOUS
  <2> QED
    BY <2>1, <2>2, SameArithmetic DEF PromisedEscrow!Next
<1>2. CASE ~SettlementCommits
  <2>1. UNCHANGED tables
    BY <1>2 DEF Settlement, SettlementStarts, NextLot, ChangesBalance, DeadlockVictim
  <2> QED
    BY <2>1, Unseen
<1> QED
  BY <1>1, <1>2

LEMMA StepsRefine == Inv /\ [Next]_vars => [PromisedEscrow!Next]_(PromisedEscrow!vars)
<1> SUFFICES ASSUME Inv, [Next]_vars PROVE [PromisedEscrow!Next]_(PromisedEscrow!vars)
  OBVIOUS
<1>1. ASSUME NEW r \in Requests, NEW k \in Keys, Arrive(r, k)
      PROVE  [PromisedEscrow!Next]_(PromisedEscrow!vars)
  BY <1>1, Unseen DEF Arrive
<1>2. CASE \E r \in Requests : PlaceBid(r)
  BY <1>2, PlaceBidRefines
<1>3. CASE Settlement
  BY <1>3, SettlementRefines
<1>4. ASSUME NEW a \in Auctions, Opens(a)
      PROVE  [PromisedEscrow!Next]_(PromisedEscrow!vars)
  <2>1. PromisedEscrow!Offer(a, Seller[a]) /\ Seller[a] \in Users
    BY <1>4, OpeningOffers, BidsAssumption
  <2> QED
    BY <2>1, SameArithmetic DEF PromisedEscrow!Next
<1>5. ASSUME NEW a \in Auctions, TimePasses(a)
      PROVE  [PromisedEscrow!Next]_(PromisedEscrow!vars)
  BY <1>5, Unseen DEF TimePasses
<1>6. ASSUME NEW a \in Auctions, IsSealed(a)
      PROVE  [PromisedEscrow!Next]_(PromisedEscrow!vars)
  <2>1. PromisedEscrow!Veil({a}) /\ {a} \in SUBSET Auctions
    BY <1>6, LookingVeils
  <2> QED
    BY <2>1, SameArithmetic DEF PromisedEscrow!Next
<1>7. CASE Restart
  BY <1>7, Unseen DEF Restart
<1>8. CASE UNCHANGED vars
  BY <1>8, Unseen DEF vars
<1> QED
  BY <1>1, <1>2, <1>3, <1>4, <1>5, <1>6, <1>7, <1>8 DEF Next

\* Interleaved lock by lock, with waits, deadlocks, aborts and restarts, bids and
\* settlements are the whole steps of the escrow on the tables as they are when they
\* commit (auctionService.ts, placeBid and settleAuctions), whatever the number of
\* requests, users, keys and auctions.
THEOREM BidsEscrowed == Spec => BidsImplementEscrow
<1>1. Spec => []Inv
  BY DraftsFit
<1>2. Spec => [][Next]_vars /\ Init
  BY DEF Spec
<1> QED
  BY <1>1, <1>2, EscrowInit, StepsRefine, PTL DEF BidsImplementEscrow, PromisedEscrow!Spec

-----------------------------------------------------------------------------
(* Keys that act again *)

\* A request ends with a change of the tables only by its own commit.
LEMMA OnlyCommitsWrite ==
  ASSUME Inv, [Next]_vars, NEW r \in Requests,
         tx[r].at = "commit", tx'[r].at = "idle", tables' # tables
  PROVE  BidCommits(r)
<1>1. tx[r] # tx'[r] /\ r # Settler /\ tx \in [Procs -> Transaction]
  BY ProcFacts DEF Inv, Typed
<1>2. ~\E q \in Requests, k \in Keys : Arrive(q, k)
  BY DEF Arrive
<1>3. ASSUME NEW q \in Requests, PlaceBid(q) PROVE BidCommits(r)
  <2>1. BidCommits(q)
    BY <1>3 DEF PlaceBid, LockAuction, IsPaced, ChangesBalance, DeadlockVictim
  <2>2. tx' = [tx EXCEPT ![q] = Idle]
    BY <2>1 DEF BidCommits, Ends
  <2>3. q = r
    BY <1>1, <2>2, ProcFacts
  <2> QED
    BY <2>1, <2>3
<1>4. ~Settlement
  <2>1. SUFFICES ASSUME Settlement PROVE FALSE
    OBVIOUS
  <2>2. SettlementCommits
    BY <2>1 DEF Settlement, SettlementStarts, NextLot, ChangesBalance, DeadlockVictim
  <2>3. tx' = [tx EXCEPT ![Settler] = Idle]
    BY <2>2 DEF SettlementCommits, Ends
  <2> QED
    BY <1>1, <2>3, ProcFacts
<1>5. ~\E a \in Auctions : Opens(a) \/ TimePasses(a) \/ IsSealed(a)
  BY <1>1 DEF Opens, TimePasses, IsSealed
<1>6. ~Restart
  BY DEF Restart
<1>7. vars' # vars
  BY DEF vars
<1> QED
  BY <1>2, <1>3, <1>4, <1>5, <1>6, <1>7 DEF Next

\* A sealed bid that is still its bidder's changes nothing when it is made again.
LEMMA RepeatedBidIsQuiet ==
  ASSUME Inv, NEW r \in Requests, BidCommits(r), NEW k \in Keys, k = tx[r].key,
         k \in done, sealed[Bid[k].auction][Bid[k].user].key = k
  PROVE  tables' = tables
<1> DEFINE a == Bid[k].auction
           u == Bid[k].user
<1>1. tx[r].at = "commit" /\ Typed /\ AuctionFits(a)
  BY BidFacts DEF BidCommits, Inv
<1>2. /\ a \in Auctions /\ u \in Users /\ Bid[k].amount \in Nat /\ Bid[k].amount > 0
      /\ k # NoOne /\ BidPending(r) /\ tx[r].row \in Row
      /\ tx[r].row.current = auction[a].current /\ tx[r].row.leader = auction[a].leader
      /\ auction[a].status \in {"LIVE", "SEALED_ENDGAME"}
      /\ (tx[r].row.status = auction[a].status \/ tx[r].row.status = "SEALED_ENDGAME")
  BY <1>1, PendingFacts
<1>3. sealed[a][u].key = k
  OBVIOUS
<1>4. sealed[a][u] = [max |-> Bid[k].amount, key |-> k]
  <2>1. sealed[a][u].max = Bid[k].amount
    <3>1. Bid[sealed[a][u].key] = [user |-> u, auction |-> a, amount |-> sealed[a][u].max]
      <4> HIDE DEF a, u
      <4> QED
        BY <1>1, <1>2, <1>3 DEF AuctionFits
    <3>2. Bid[k] = [user |-> u, auction |-> a, amount |-> sealed[a][u].max]
      BY <1>3, <3>1
    <3> QED
      BY ONLY <3>2
  <2>2. sealed[a][u] \in [max : Nat, key : Keys \cup {NoOne}]
    <3>1. a \in Auctions /\ u \in Users
      BY <1>2
    <3>2. sealed \in [Auctions -> [Users -> [max : Nat, key : Keys \cup {NoOne}]]]
      BY <1>1 DEF Typed
    <3> HIDE DEF a, u
    <3> QED
      BY ONLY <3>1, <3>2
  <2> QED
    BY <2>1, <2>2
<1>5. auction[a].status = "SEALED_ENDGAME" /\ tx[r].row.status = "SEALED_ENDGAME"
  <2>1. sealed[a][u].max > 0
    BY <1>2, <1>4
  <2> HIDE DEF a, u
  <2>2. auction[a].status \in {"SEALED_ENDGAME", "SETTLED"}
    BY <1>1, <1>2, <2>1 DEF AuctionFits
  <2> QED
    BY <1>2, <2>2
<1>6. tx[r].row = auction[a]
  <2>1. auction[a] \in Row
    BY <1>1, <1>2 DEF Typed
  <2> HIDE DEF a
  <2> QED
    BY <1>2, <1>5, <2>1 DEF Row
<1>7. tx[r].rows = {u} /\ tx[r].draft[u] = Applied(OwnChange(k))
  BY <1>1, <1>2, <1>5 DEF BidPending, Displaces
<1>8. Applied(OwnChange(k)) = balance[u]
  <2>1. OwnChange(k) = [user |-> u, by |-> 0, gain |-> 0]
    BY <1>2, <1>4 DEF OwnChange, Change, Pledge
  <2>2. balance[u] \in Funds
    BY <1>1, <1>2 DEF Typed
  <2> QED
    BY <2>1, <2>2 DEF Applied, Funds
<1>9. Written(r) = balance
  BY <1>1, <1>7, <1>8 DEF Written, Typed
<1>10. CommitsSealed(r)
  BY <1>5 DEF BidCommits, CommitsOpen
<1>11. auction' = auction /\ sealed' = sealed /\ bids' = bids
  <2>1. auction' = [auction EXCEPT ![a] = tx[r].row] /\ bids' = bids
        /\ sealed' = [sealed EXCEPT ![a][u] = [max |-> Bid[k].amount, key |-> k]]
    BY <1>10 DEF CommitsSealed
  <2>2. auction' = [auction EXCEPT ![a] = auction[a]]
        /\ sealed' = [sealed EXCEPT ![a][u] = sealed[a][u]]
    BY <1>4, <1>6, <2>1
  <2>3. /\ auction \in [Auctions -> Row]
        /\ sealed \in [Auctions -> [Users -> [max : Nat, key : Keys \cup {NoOne}]]]
    BY <1>1 DEF Typed
  <2> HIDE DEF a, u
  <2> QED
    BY <1>2, <2>1, <2>2, <2>3
<1>12. balance' = balance /\ done' = done /\ sale' = sale
  BY <1>9 DEF BidCommits
<1> QED
  BY <1>11, <1>12 DEF tables

LEMMA ReturnedBidIsReplaced ==
  ASSUME Inv, [Next]_vars, NEW r \in Requests, tx[r].at = "commit", tx'[r].at = "idle",
         NEW k \in Keys, k = tx[r].key, k \in done, tables' # tables
  PROVE  k \notin bids /\ sealed[Bid[k].auction][Bid[k].user].key \notin {NoOne, k}
<1>1. BidCommits(r)
  BY OnlyCommitsWrite
<1>2. k \notin bids
  <2>1. Bid[k].amount > auction[Bid[k].auction].current
        /\ Bid[k].amount \in Nat /\ auction[Bid[k].auction].current \in Nat
    BY PendingFacts
  <2>2. k \in bids => auction[Bid[k].auction].current >= Bid[k].amount
    BY DEF Inv, KeysFit
  <2> QED
    BY <2>1, <2>2
<1>3. sealed[Bid[k].auction][Bid[k].user].key # NoOne
  BY <1>2 DEF Inv, KeysFit
<1>4. sealed[Bid[k].auction][Bid[k].user].key # k
  BY <1>1, RepeatedBidIsQuiet
<1> QED
  BY <1>2, <1>3, <1>4

\* A key that has been carried out has no second effect, however often and whenever
\* it is sent again, unless it was a sealed bid that its bidder has since replaced by
\* another (placeBid looks for the key in the two tables only, and a sealed bid is
\* overwritten in place), whatever the number of requests, users, keys and auctions.
THEOREM OnlyReplacedBidsActAgain == Spec => OnlyReplacedBidsReturn
<1> DEFINE Once ==
      \A r \in Requests :
        LET k == tx[r].key
            own == sealed[Bid[k].auction][Bid[k].user]
        IN  tx[r].at = "commit" /\ tx'[r].at = "idle" /\ k \in done /\ tables' # tables =>
              k \notin bids /\ own.key \notin {NoOne, k}
<1>1. Inv /\ [Next]_vars => Once
  <2> SUFFICES ASSUME Inv, [Next]_vars, NEW r \in Requests,
                      tx[r].at = "commit", tx'[r].at = "idle", tx[r].key \in done,
                      tables' # tables
               PROVE  /\ tx[r].key \notin bids
                      /\ sealed[Bid[tx[r].key].auction][Bid[tx[r].key].user].key
                           \notin {NoOne, tx[r].key}
    OBVIOUS
  <2>1. PICK k \in Keys : k = tx[r].key
    BY PendingFacts
  <2>2. k \notin bids /\ sealed[Bid[k].auction][Bid[k].user].key \notin {NoOne, k}
    BY <2>1, ReturnedBidIsReplaced
  <2> QED
    BY <2>1, <2>2
<1>2. Spec => []Inv
  BY DraftsFit
<1>3. Spec => [][Next]_vars
  BY DEF Spec
<1>4. Inv /\ [Next]_vars => [Once]_vars
  BY <1>1
<1> HIDE DEF Once
<1>5. Spec => [][Once]_vars
  BY <1>2, <1>3, <1>4, PTL
<1> QED
  BY <1>5 DEF OnlyReplacedBidsReturn, Once
=============================================================================
