-------------------------- MODULE CardMarketProofs --------------------------
(***************************************************************************)
(* What holds of the marketplace for any number of traders, cards,         *)
(* listings, auctions and requests at a time.                              *)
(*                                                                         *)
(* Books and market states are changed only by the three steps that commit *)
(* something: the end of an auction, a purchase and a settlement.  Inv     *)
(* says what a transaction may rely on until then: its locals describe the *)
(* rows as they are, because it holds them.                                *)
(***************************************************************************)
EXTENDS CardMarket, ArithmeticProofs

-----------------------------------------------------------------------------
(* The invariant *)

RequestSteps == {"idle", "find", "listing", "card", "balances", "commit", "cache", "recover"}
SettlerSteps == {"idle", "lot", "balances", "commit"}

Amounts == [available : Int, held : Int]

Transactions ==
  [at : RequestSteps \cup SettlerSteps, user : Users \cup {NoOne}, listing : Listings \cup {0},
   key : Keys \cup {NoOne}, rows : SUBSET Accounts, draft : [Accounts -> Amounts],
   todo : Seq(Accounts), lots : SUBSET Auctions, lot : Auctions \cup {0}]

Trades ==
  [listing : Listings, buyer : Users, key : Keys, seller : Users, gross : Nat, fee : Nat]

AuctionsType ==
  auction \in [Auctions -> [card : Cards \cup {NoOne}, seller : Users \cup {NoOne},
                            winner : Users \cup {NoOne}, gross : Nat,
                            status : {"NONE", "LIVE", "CLOSED", "SETTLED"}]]

TypeOK ==
  /\ card \in [Cards -> [owner : Users, acquired : Nat, value : Nat,
                         state : {"NONE", "LISTED", "IN_AUCTION"}]]
  /\ listing \in [Listings -> [card : Cards \cup {NoOne}, seller : Users \cup {NoOne},
                               price : Nat, status : {"NONE", "ACTIVE", "SOLD"}]]
  /\ AuctionsType
  /\ balance \in [Accounts -> Amounts]
  /\ trades \subseteq Trades /\ IsFiniteSet(trades)
  /\ cached \in [Users -> [Keys -> Listings \cup {0}]]
  /\ tx \in [Procs -> Transactions]

\* Every offer is one of a card's owner and the card's state says where it is made.
ListingsFit ==
  /\ \A l \in Listings : listing[l].status # "NONE" =>
       listing[l].card \in Cards /\ listing[l].seller \in Users
  /\ \A l \in Listings : listing[l].status = "ACTIVE" =>
       card[listing[l].card].state = "LISTED" /\ card[listing[l].card].owner = listing[l].seller
  /\ \A l, m \in Listings :
       listing[l].status = "ACTIVE" /\ listing[m].status = "ACTIVE"
         /\ listing[l].card = listing[m].card => l = m
  /\ \A c \in Cards : card[c].state = "LISTED" =>
       \E l \in Listings : listing[l].status = "ACTIVE" /\ listing[l].card = c

Open(i) == auction[i].status \in {"LIVE", "CLOSED"}

AuctionsFit ==
  /\ \A i \in Auctions :
       /\ auction[i].status # "NONE" => auction[i].card \in Cards /\ auction[i].seller \in Users
       /\ auction[i].status \in {"NONE", "LIVE"} => auction[i].winner = NoOne
       /\ auction[i].winner = NoOne => auction[i].gross = 0
       /\ auction[i].winner # NoOne => auction[i].winner # auction[i].seller
       /\ auction[i].status = "NONE" => auction[i].card = NoOne
  /\ \A i \in Auctions : Open(i) =>
       /\ card[auction[i].card].state = "IN_AUCTION"
       /\ card[auction[i].card].owner = auction[i].seller
  /\ \A i, j \in Auctions : Open(i) /\ Open(j) /\ auction[i].card = auction[j].card => i = j
  /\ \A c \in Cards : card[c].state = "IN_AUCTION" =>
       \E i \in Auctions : Open(i) /\ auction[i].card = c

TradesFit ==
  /\ \A t \in trades : listing[t.listing].status = "SOLD"
  /\ \A t, s \in trades : t.listing = s.listing => t = s
  /\ \A t, s \in trades : t.buyer = s.buyer /\ t.key = s.key => t = s
  /\ \A l \in Listings : listing[l].status = "SOLD" => \E t \in trades : t.listing = l

Booked(u, k, l) == \E t \in trades : t.buyer = u /\ t.key = k /\ t.listing = l

CacheFits == \A u \in Users, k \in Keys : cached[u][k] # 0 => Booked(u, k, cached[u][k])

-----------------------------------------------------------------------------
(* What a running purchase relies on *)

Holding(q) == q.at \in {"card", "balances", "commit"}

\* It knows who buys what, locks its balances in order and its listing for itself.
Known(q) ==
  /\ q.at \in RequestSteps /\ q.lots = {}
  /\ q.at # "idle" => q.user \in Users /\ q.listing \in Listings /\ q.key \in Keys
  /\ q.at = "cache" => Booked(q.user, q.key, q.listing)
  /\ Holding(q) => listing[q.listing].status = "ACTIVE" /\ listing[q.listing].seller # q.user

Ordered(q) ==
  LET u == q.user
      s == listing[q.listing].seller
  IN
  /\ q.at \notin {"balances", "commit"} => q.rows = {}
  /\ q.at = "balances" => \/ q.rows = {} /\ q.todo = <<u, s, Platform>>
                          \/ q.rows = {u} /\ q.todo = <<s, Platform>>
                          \/ q.rows = {u, s} /\ q.todo = <<Platform>>
  /\ q.at = "commit" => q.rows = {u, s, Platform}

\* What the purchase of listing l by u does to account a.
Share(u, l, a) ==
  IF a = u THEN -listing[l].price
  ELSE IF a = listing[l].seller THEN SellerNet(l)
  ELSE IF a = Platform THEN TradeFee(listing[l].price) ELSE 0

Drafted(q) ==
  \A a \in q.rows :
    /\ q.draft[a].available = balance[a].available + Share(q.user, q.listing, a)
    /\ q.draft[a].available >= 0
    /\ q.draft[a].held = balance[a].held

PurchaseFits(q) == Known(q) /\ Ordered(q) /\ Drafted(q)

-----------------------------------------------------------------------------
(* What a running settlement relies on *)

Left(q) == Range(q.todo)

\* The lots whose payments to and from a are in the draft.
Paid(q, a) ==
  {i \in q.lots : i < q.lot \/ (i = q.lot /\ (q.at = "balances" => a \notin Left(q)))}

Credit(i, a) ==
  (IF a = auction[i].seller THEN auction[i].gross - AuctionFee(auction[i].gross) ELSE 0)
    + (IF a = Platform THEN AuctionFee(auction[i].gross) ELSE 0)

Debit(i, a) == IF a = auction[i].winner THEN auction[i].gross ELSE 0

CreditOf(S, a) == Total([i \in Auctions |-> IF i \in S THEN Credit(i, a) ELSE 0], MaxAuctions)
DebitOf(S, a)  == Total([i \in Auctions |-> IF i \in S THEN Debit(i, a) ELSE 0], MaxAuctions)

InTurn(q) ==
  /\ q.at \in SettlerSteps /\ q.listing = 0
  /\ q.at = "idle" => q.lots = {} /\ q.rows = {}
  /\ \A i \in q.lots : auction[i].status = "CLOSED"
  /\ q.at = "balances" =>
       /\ q.lot \in q.lots /\ auction[q.lot].winner # NoOne
       /\ q.todo \in {<<auction[q.lot].winner, auction[q.lot].seller, Platform>>,
                      <<auction[q.lot].seller, Platform>>, <<Platform>>}
  /\ q.at = "commit" => \A i \in q.lots : i <= q.lot

Funds(q, a) == IF a \in q.rows THEN q.draft[a] ELSE balance[a]

Adds(q) ==
  \A a \in Accounts :
    /\ Funds(q, a).available = balance[a].available + CreditOf(Paid(q, a), a)
    /\ Funds(q, a).held = balance[a].held - DebitOf(Paid(q, a), a)

SettlementFits(q) == InTurn(q) /\ Adds(q)

\* No row is locked twice.
Apart(q, t) ==
  /\ q.rows \cap t.rows = {}
  /\ ~(Holding(q) /\ Holding(t) /\ q.listing = t.listing)

ProcsFit ==
  /\ \A r \in Requests : PurchaseFits(tx[r])
  /\ SettlementFits(tx[Settler])
  /\ \A p, r \in Procs : p # r => Apart(tx[p], tx[r])

\* BooksBalance by account.
Holds(a) == [i \in Auctions |-> IF auction[i].status = "CLOSED" /\ auction[i].winner = a
                               THEN auction[i].gross ELSE 0]
Settles(a) == [i \in Auctions |-> IF auction[i].status = "SETTLED" THEN LotShare(i, a) ELSE 0]
Deals(a) == [t \in trades |-> TradeShare(t, a)]

Balanced(a) ==
  /\ balance[a].available >= 0
  /\ balance[a].held = Total(Holds(a), MaxAuctions)
  /\ balance[a].available + balance[a].held
       = StartingFunds[a] + SumFunction(Deals(a)) + Total(Settles(a), MaxAuctions)

Inv ==
  /\ TypeOK /\ ListingsFit /\ AuctionsFit /\ TradesFit /\ CacheFits
  /\ (\A a \in Accounts : Balanced(a)) /\ ProcsFit

-----------------------------------------------------------------------------
(* Rows and records *)

LEMMA SeqFacts ==
  ASSUME NEW a, NEW b, NEW c
  PROVE  /\ Head(<<a, b, c>>) = a /\ Tail(<<a, b, c>>) = <<b, c>> /\ Len(<<a, b, c>>) = 3
         /\ Head(<<a, b>>) = a /\ Tail(<<a, b>>) = <<b>> /\ Len(<<a, b>>) = 2
         /\ Head(<<a>>) = a /\ Tail(<<a>>) = <<>> /\ Len(<<a>>) = 1
OBVIOUS

LEMMA IdleFacts ==
  /\ Idle \in Transactions /\ Idle.at = "idle" /\ Idle.user = NoOne /\ Idle.listing = 0
  /\ Idle.key = NoOne /\ Idle.rows = {} /\ Idle.todo = <<>> /\ Idle.lots = {} /\ Idle.lot = 0
BY DEF Idle, Transactions, RequestSteps, Amounts

\* The fields of a transaction that goes on, and of one that has ended.
LEMMA ProceedFacts ==
  ASSUME NEW q \in Transactions, NEW step \in RequestSteps \cup SettlerSteps
  PROVE  LET x == [q EXCEPT !.at = step] IN
         /\ x \in Transactions /\ x.at = step
         /\ x.user = q.user /\ x.listing = q.listing /\ x.key = q.key /\ x.rows = q.rows
         /\ x.draft = q.draft /\ x.todo = q.todo /\ x.lots = q.lots /\ x.lot = q.lot
BY DEF Transactions

LEMMA RequestFacts ==
  ASSUME NEW r \in Procs, tx \in [Procs -> Transactions], NEW step \in RequestSteps
  PROVE  LET x == Request(r, step) IN
         /\ x \in Transactions /\ x.at = step
         /\ x.user = tx[r].user /\ x.listing = tx[r].listing /\ x.key = tx[r].key
         /\ x.rows = {} /\ x.todo = <<>> /\ x.lots = {} /\ x.lot = 0
<1>1. tx[r].user \in Users \cup {NoOne} /\ tx[r].listing \in Listings \cup {0}
      /\ tx[r].key \in Keys \cup {NoOne}
  BY DEF Transactions
<1>2. Idle \in Transactions
  BY IdleFacts
<1> QED
  BY <1>1, <1>2 DEF Request, Idle, Transactions

\* One more balance is locked and written.
LEMMA WriteFacts ==
  ASSUME NEW p \in Procs, tx \in [Procs -> Transactions], NEW a \in Accounts, NEW b \in Amounts,
         Tail(tx[p].todo) \in Seq(Accounts), WriteBalance(p, a, b)
  PROVE  \E x \in Transactions :
           /\ tx' = [tx EXCEPT ![p] = x]
           /\ x.user = tx[p].user /\ x.listing = tx[p].listing /\ x.key = tx[p].key
           /\ x.rows = tx[p].rows \cup {a} /\ x.todo = Tail(tx[p].todo)
           /\ x.draft = [tx[p].draft EXCEPT ![a] = b]
           /\ x.lots = tx[p].lots /\ x.lot = tx[p].lot
           /\ x.at = IF Len(tx[p].todo) > 1 THEN tx[p].at
                     ELSE IF p = Settler THEN "lot" ELSE "commit"
<1> DEFINE q == tx[p]
           step == IF Len(q.todo) > 1 THEN q.at ELSE IF p = Settler THEN "lot" ELSE "commit"
           x == [q EXCEPT !.rows = @ \cup {a}, !.draft[a] = b, !.todo = Tail(@), !.at = step]
<1>1. q \in Transactions
  OBVIOUS
<1>2. step \in RequestSteps \cup SettlerSteps
  BY <1>1 DEF Transactions, RequestSteps, SettlerSteps
<1>3. x.user = q.user /\ x.listing = q.listing /\ x.key = q.key /\ x.lots = q.lots /\ x.lot = q.lot
  BY <1>1 DEF Transactions
<1>4. x.rows = q.rows \cup {a} /\ x.draft = [q.draft EXCEPT ![a] = b] /\ x.todo = Tail(q.todo) /\ x.at = step
  BY <1>1 DEF Transactions
<1>5. x \in Transactions
  BY <1>1, <1>2 DEF Transactions
<1>6. tx' = [tx EXCEPT ![p] = x]
  BY <1>1 DEF WriteBalance
<1> QED
  BY <1>3, <1>4, <1>5, <1>6

LEMMA Requesters ==
  ASSUME NEW r \in Requests
  PROVE  r \in Procs /\ r # Settler
BY MarketAssumption DEF Procs

LEMMA SettlerIsAProc == Settler \in Procs /\ \A p \in Procs : p # Settler => p \in Requests
BY DEF Procs

\* Users and the platform are different accounts.
LEMMA AccountFacts ==
  /\ \A u \in Users : u \in Accounts /\ u # Platform /\ u # NoOne
  /\ Platform \in Accounts /\ Platform # NoOne
BY MarketAssumption DEF Accounts

-----------------------------------------------------------------------------
(* What the steps of others leave a transaction with *)

LEMMA PurchaseStays ==
  ASSUME NEW q, PurchaseFits(q), trades \subseteq trades',
         Holding(q) => listing'[q.listing] = listing[q.listing],
         \A a \in q.rows : balance'[a] = balance[a]
  PROVE  PurchaseFits(q)'
<1>1. Known(q)'
  BY DEF PurchaseFits, Known, Holding, Booked
<1>2. CASE Holding(q)
  <2>1. listing'[q.listing] = listing[q.listing]
    BY <1>2
  <2>2. Ordered(q)'
    BY <2>1 DEF PurchaseFits, Ordered
  <2>3. \A a : Share(q.user, q.listing, a)' = Share(q.user, q.listing, a)
    BY <2>1 DEF Share, SellerNet
  <2>4. Drafted(q)'
    BY <2>3 DEF PurchaseFits, Drafted
  <2> QED
    BY <1>1, <2>2, <2>4 DEF PurchaseFits
<1>3. CASE ~Holding(q)
  <2>1. q.rows = {} /\ q.at \notin {"balances", "commit"}
    BY <1>3 DEF PurchaseFits, Ordered, Holding
  <2> QED
    BY <1>1, <2>1 DEF PurchaseFits, Ordered, Drafted
<1> QED
  BY <1>2, <1>3

LEMMA PaymentsType ==
  ASSUME NEW S, NEW a, AuctionsType
  PROVE  /\ \A i \in Auctions : Credit(i, a) \in Nat /\ Debit(i, a) \in Nat
         /\ CreditOf(S, a) \in Int /\ DebitOf(S, a) \in Int
<1> DEFINE f == [i \in Auctions |-> IF i \in S THEN Credit(i, a) ELSE 0]
           g == [i \in Auctions |-> IF i \in S THEN Debit(i, a) ELSE 0]
<1>1. ASSUME NEW i \in Auctions PROVE Credit(i, a) \in Nat /\ Debit(i, a) \in Nat
  <2>1. auction[i].gross \in Nat
    BY DEF AuctionsType
  <2>2. AuctionFee(auction[i].gross) \in Nat /\ auction[i].gross - AuctionFee(auction[i].gross) \in Nat
    BY <2>1, AuctionFeeBound
  <2> QED
    BY <2>1, <2>2 DEF Credit, Debit
<1>2. f \in [1..MaxAuctions -> Int] /\ g \in [1..MaxAuctions -> Int]
  BY <1>1 DEF Auctions
<1>3. Total(f, MaxAuctions) \in Int /\ Total(g, MaxAuctions) \in Int
  <2> HIDE DEF f, g
  <2> QED
    BY <1>2, TotalType, MarketAssumption
<1> QED
  BY <1>1, <1>3 DEF CreditOf, DebitOf

LEMMA SettlementStays ==
  ASSUME NEW q, SettlementFits(q), AuctionsType, balance \in [Accounts -> Amounts],
         balance' \in [Accounts -> Amounts],
         \A i \in q.lots : auction'[i] = auction[i],
         \A a \in q.rows : balance'[a] = balance[a]
  PROVE  SettlementFits(q)'
<1>1. InTurn(q)'
  BY DEF SettlementFits, InTurn
<1>2. ASSUME NEW a \in Accounts
      PROVE  /\ CreditOf(Paid(q, a), a)' = CreditOf(Paid(q, a), a)
             /\ DebitOf(Paid(q, a), a)' = DebitOf(Paid(q, a), a)
  <2>1. \A i \in Paid(q, a) : auction'[i] = auction[i]
    BY DEF Paid
  <2>2. Paid(q, a)' = Paid(q, a)
    BY DEF Paid, Left
  <2>3. [i \in Auctions |-> IF i \in Paid(q, a) THEN Credit(i, a) ELSE 0]'
          = [i \in Auctions |-> IF i \in Paid(q, a) THEN Credit(i, a) ELSE 0]
    BY <2>1, <2>2 DEF Credit
  <2>4. [i \in Auctions |-> IF i \in Paid(q, a) THEN Debit(i, a) ELSE 0]'
          = [i \in Auctions |-> IF i \in Paid(q, a) THEN Debit(i, a) ELSE 0]
    BY <2>1, <2>2 DEF Debit
  <2> QED
    BY <2>3, <2>4 DEF CreditOf, DebitOf
<1>3. ASSUME NEW a \in Accounts
      PROVE  /\ Funds(q, a)'.available = balance'[a].available + CreditOf(Paid(q, a), a)
             /\ Funds(q, a)'.held = balance'[a].held - DebitOf(Paid(q, a), a)
  <2>1. /\ Funds(q, a).available = balance[a].available + CreditOf(Paid(q, a), a)
        /\ Funds(q, a).held = balance[a].held - DebitOf(Paid(q, a), a)
    BY DEF SettlementFits, Adds
  <2>2. CASE a \in q.rows
    BY <2>1, <2>2 DEF Funds
  <2>3. CASE a \notin q.rows
    <3>1. balance[a].available \in Int /\ balance'[a].available \in Int
          /\ balance[a].held \in Int /\ balance'[a].held \in Int
      BY DEF Amounts
    <3>2. CreditOf(Paid(q, a), a) \in Int /\ DebitOf(Paid(q, a), a) \in Int
      BY PaymentsType
    <3>3. CreditOf(Paid(q, a), a) = 0 /\ DebitOf(Paid(q, a), a) = 0
      BY <2>1, <2>3, <3>1, <3>2 DEF Funds
    <3>4. Funds(q, a)' = balance'[a]
      BY <2>3 DEF Funds
    <3> QED
      BY <3>1, <3>3, <3>4
  <2> QED
    BY <2>2, <2>3
<1>4. Adds(q)'
  BY <1>2, <1>3 DEF Adds
<1> QED
  BY <1>1, <1>4 DEF SettlementFits

LEMMA ProcsStep ==
  ASSUME Inv, TypeOK', NEW p \in Procs, NEW x \in Transactions, tx' = [tx EXCEPT ![p] = x],
         trades \subseteq trades',
         \A r \in Requests \ {p} : Holding(tx[r]) => listing'[tx[r].listing] = listing[tx[r].listing],
         \A r \in Procs \ {p} : \A a \in tx[r].rows : balance'[a] = balance[a],
         p # Settler => \A i \in tx[Settler].lots : auction'[i] = auction[i],
         p # Settler => PurchaseFits(x)',
         p = Settler => SettlementFits(x)',
         \A r \in Procs \ {p} : Apart(tx[r], x)
  PROVE  ProcsFit'
<1>1. /\ tx \in [Procs -> Transactions] /\ tx'[p] = x
      /\ \A r \in Procs : r # p => tx'[r] = tx[r]
  BY DEF Inv, TypeOK
<1>2. ASSUME NEW r \in Requests PROVE PurchaseFits(tx[r])'
  <2>0. r \in Procs /\ r # Settler
    BY Requesters
  <2>1. PICK y : y = tx'[r]
    OBVIOUS
  <2>2. CASE r = p
    <3>1. y = x /\ PurchaseFits(x)'
      BY <2>0, <2>1, <2>2, <1>1
    <3>2. PurchaseFits(y)'
      BY <3>1
    <3> QED
      BY <2>1, <3>2 DEF PurchaseFits, Known, Ordered, Drafted, Holding, Booked, Share, SellerNet
  <2>3. CASE r # p
    <3>1. y = tx[r]
      BY <2>0, <2>1, <2>3, <1>1
    <3>2. PurchaseFits(y)
      BY <3>1 DEF Inv, ProcsFit
    <3>3. /\ Holding(y) => listing'[y.listing] = listing[y.listing]
          /\ \A a \in y.rows : balance'[a] = balance[a]
      BY <3>1, <2>0, <2>3
    <3>4. PurchaseFits(y)'
      BY <3>2, <3>3, PurchaseStays
    <3> QED
      BY <2>1, <3>4 DEF PurchaseFits, Known, Ordered, Drafted, Holding, Booked, Share, SellerNet
  <2> QED
    BY <2>2, <2>3
<1>3. SettlementFits(tx[Settler])'
  <2>0. Settler \in Procs
    BY SettlerIsAProc
  <2>1. PICK y : y = tx'[Settler]
    OBVIOUS
  <2>2. SettlementFits(y)'
    <3>1. CASE Settler = p
      BY <3>1, <2>1, <1>1
    <3>2. CASE Settler # p
      <4>1. y = tx[Settler]
        BY <2>0, <2>1, <3>2, <1>1
      <4>2. SettlementFits(y) /\ AuctionsType /\ balance \in [Accounts -> Amounts]
            /\ balance' \in [Accounts -> Amounts]
        BY <4>1 DEF Inv, ProcsFit, TypeOK
      <4>3. /\ \A i \in y.lots : auction'[i] = auction[i]
            /\ \A a \in y.rows : balance'[a] = balance[a]
        BY <4>1, <2>0, <3>2
      <4> QED
        BY <4>2, <4>3, SettlementStays
    <3> QED
      BY <3>1, <3>2
  <2> QED
    BY <2>1, <2>2 DEF SettlementFits, InTurn, Adds, Funds, Paid, Left, CreditOf, DebitOf, Credit, Debit
<1>4. ASSUME NEW q \in Procs, NEW r \in Procs, q # r PROVE Apart(tx[q], tx[r])'
  <2>1. PICK y : y = tx'[q]
    OBVIOUS
  <2>2. PICK z : z = tx'[r]
    OBVIOUS
  <2>3. Apart(y, z)
    <3>1. CASE q = p
      BY <3>1, <2>1, <2>2, <1>1, <1>4 DEF Apart
    <3>2. CASE r = p
      BY <3>2, <2>1, <2>2, <1>1, <1>4
    <3>3. CASE q # p /\ r # p
      BY <3>3, <2>1, <2>2, <1>1, <1>4 DEF Inv, ProcsFit
    <3> QED
      BY <3>1, <3>2, <3>3
  <2> QED
    BY <2>1, <2>2, <2>3 DEF Apart, Holding
<1> QED
  BY <1>2, <1>3, <1>4 DEF ProcsFit

\* A step of p that touches none of the tables; the cache may change.
LEMMA CachedStep ==
  ASSUME Inv, UNCHANGED <<stock, books>>,
         cached' \in [Users -> [Keys -> Listings \cup {0}]], CacheFits',
         NEW p \in Procs, NEW x \in Transactions, tx' = [tx EXCEPT ![p] = x],
         p # Settler => PurchaseFits(x),
         p = Settler => SettlementFits(x),
         \A r \in Procs \ {p} : Apart(tx[r], x)
  PROVE  Inv'
<1>0. /\ card' = card /\ listing' = listing /\ auction' = auction /\ balance' = balance
      /\ trades' = trades
  BY DEF stock, books
<1>1. TypeOK'
  BY <1>0 DEF Inv, TypeOK, AuctionsType
<1>2. ListingsFit' /\ TradesFit'
  BY <1>0 DEF Inv, ListingsFit, TradesFit
<1>3. AuctionsFit'
  BY <1>0 DEF Inv, AuctionsFit, Open
<1>4. \A a \in Accounts : Balanced(a)'
  BY <1>0 DEF Inv, Balanced, Holds, Settles, Deals, LotShare
<1>5. p # Settler => PurchaseFits(x)'
  BY <1>0, PurchaseStays
<1>6. p = Settler => SettlementFits(x)'
  BY <1>0, <1>1, SettlementStays DEF Inv, TypeOK
<1>7. ProcsFit'
  BY <1>0, <1>1, <1>5, <1>6, ProcsStep
<1> QED
  BY <1>1, <1>2, <1>3, <1>4, <1>7 DEF Inv

LEMMA LocalStep ==
  ASSUME Inv, UNCHANGED <<stock, books, cached>>,
         NEW p \in Procs, NEW x \in Transactions, tx' = [tx EXCEPT ![p] = x],
         p # Settler => PurchaseFits(x),
         p = Settler => SettlementFits(x),
         \A r \in Procs \ {p} : Apart(tx[r], x)
  PROVE  Inv'
<1>1. cached' \in [Users -> [Keys -> Listings \cup {0}]]
  BY DEF Inv, TypeOK
<1>2. CacheFits'
  BY DEF Inv, CacheFits, Booked, books
<1> QED
  BY <1>1, <1>2, CachedStep

\* A step of the tables that leaves every transaction its rows.
LEMMA TablesStep ==
  ASSUME Inv, TypeOK', tx' = tx, trades' = trades,
         \A r \in Requests : Holding(tx[r]) => listing'[tx[r].listing] = listing[tx[r].listing],
         \A r \in Procs : \A a \in tx[r].rows : balance'[a] = balance[a],
         \A i \in tx[Settler].lots : auction'[i] = auction[i]
  PROVE  ProcsFit'
<1>1. PICK x : x = tx[Settler]
  OBVIOUS
<1>2. Settler \in Procs /\ tx \in [Procs -> Transactions] /\ x \in Transactions
  BY <1>1, SettlerIsAProc DEF Inv, TypeOK
<1>3. tx' = [tx EXCEPT ![Settler] = x]
  BY <1>1, <1>2
<1>4. SettlementFits(x) /\ AuctionsType /\ balance \in [Accounts -> Amounts]
      /\ balance' \in [Accounts -> Amounts]
  BY <1>1 DEF Inv, ProcsFit, TypeOK
<1>5. SettlementFits(x)'
  BY <1>1, <1>2, <1>4, SettlementStays
<1>6. \A r \in Procs \ {Settler} : Apart(tx[r], x)
  BY <1>1, <1>2 DEF Inv, ProcsFit
<1> QED
  BY <1>2, <1>3, <1>5, <1>6, ProcsStep

\* One whose transaction has no rows takes none from others.
LEMMA Rowless ==
  ASSUME NEW x, x.rows = {}, ~Holding(x), NEW q
  PROVE  Apart(q, x)
BY DEF Apart

LEMMA LocalRequest ==
  ASSUME Inv, UNCHANGED <<stock, books, cached>>,
         NEW r \in Requests, NEW x \in Transactions, tx' = [tx EXCEPT ![r] = x],
         x.rows = {}, ~Holding(x), Known(x)
  PROVE  Inv'
<1>1. PurchaseFits(x)
  BY DEF PurchaseFits, Ordered, Drafted, Holding
<1> QED
  BY <1>1, Requesters, Rowless, LocalStep

-----------------------------------------------------------------------------
(* Requests *)

LEMMA ArriveKeeps ==
  ASSUME Inv, NEW r \in Requests, NEW u \in Users, NEW l \in Listings, NEW k \in Keys,
         Arrive(r, u, l, k)
  PROVE  Inv'
<1> DEFINE x == [Idle EXCEPT !.at = "find", !.user = u, !.listing = l, !.key = k]
<1>1. /\ x \in Transactions /\ x.at = "find" /\ x.user = u /\ x.listing = l /\ x.key = k
      /\ x.rows = {} /\ x.lots = {}
  BY IdleFacts DEF Idle, Transactions, RequestSteps
<1>2. Known(x) /\ ~Holding(x)
  BY <1>1 DEF Known, Holding, RequestSteps
<1>3. tx' = [tx EXCEPT ![r] = x] /\ UNCHANGED <<stock, books, cached>>
  BY DEF Arrive
<1> HIDE DEF x
<1> QED
  BY <1>1, <1>2, <1>3, LocalRequest

LEMMA RequestTypes ==
  ASSUME Inv, NEW r \in Requests
  PROVE  /\ r \in Procs /\ r # Settler /\ tx \in [Procs -> Transactions] /\ tx[r] \in Transactions
         /\ PurchaseFits(tx[r])
BY Requesters DEF Inv, ProcsFit, TypeOK

LEMMA RequestAborts ==
  ASSUME Inv, NEW r \in Requests, tx[r].at # "idle", Abort(r), UNCHANGED <<stock, books, cached>>
  PROVE  Inv'
<1> DEFINE x == Request(r, "recover")
<1>1. /\ x \in Transactions /\ x.at = "recover" /\ x.user = tx[r].user
      /\ x.listing = tx[r].listing /\ x.key = tx[r].key /\ x.rows = {} /\ x.lots = {}
  BY RequestTypes, RequestFacts DEF RequestSteps
<1>2. tx' = [tx EXCEPT ![r] = x]
  BY RequestTypes DEF Abort
<1>3. Known(x) /\ ~Holding(x)
  BY <1>1, RequestTypes DEF PurchaseFits, Known, Holding, RequestSteps
<1> HIDE DEF x
<1> QED
  BY <1>1, <1>2, <1>3, LocalRequest

\* A request goes on with what it knows; it holds no row yet or no longer.
LEMMA RequestProceeds ==
  ASSUME Inv, NEW r \in Requests, NEW step \in RequestSteps \ {"card", "balances", "commit"},
         tx[r].at \notin {"idle", "card", "balances", "commit"}, Proceed(r, step),
         step = "cache" => Booked(tx[r].user, tx[r].key, tx[r].listing),
         UNCHANGED <<stock, books, cached>>
  PROVE  Inv'
<1> DEFINE x == [tx[r] EXCEPT !.at = step]
<1>1. /\ x \in Transactions /\ x.at = step /\ x.user = tx[r].user
      /\ x.listing = tx[r].listing /\ x.key = tx[r].key /\ x.rows = tx[r].rows /\ x.lots = tx[r].lots
  BY RequestTypes, ProceedFacts
<1>2. tx' = [tx EXCEPT ![r] = x]
  BY RequestTypes DEF Proceed
<1>3. Known(x) /\ ~Holding(x) /\ x.rows = {}
  BY <1>1, RequestTypes DEF PurchaseFits, Known, Ordered, Holding
<1> HIDE DEF x
<1> QED
  BY <1>1, <1>2, <1>3, LocalRequest

LEMMA RequestAnswered ==
  ASSUME Inv, NEW r \in Requests, Answered(r), UNCHANGED <<stock, books, cached>>
  PROVE  Inv'
<1>1. Known(Idle) /\ ~Holding(Idle) /\ Idle.rows = {} /\ Idle \in Transactions
  BY IdleFacts DEF Known, Holding, RequestSteps
<1> QED
  BY <1>1, LocalRequest DEF Answered

LEMMA FindTradeKeeps ==
  ASSUME Inv, NEW r \in Requests, FindTrade(r)
  PROVE  Inv'
<1>1. tx[r].at = "find" /\ UNCHANGED <<stock, books, cached>>
  BY DEF FindTrade
<1>2. CASE \E t \in Earlier(r) : SameListing(r, t) /\ Proceed(r, "cache")
  <2>1. Booked(tx[r].user, tx[r].key, tx[r].listing) /\ Proceed(r, "cache")
    BY <1>2 DEF Earlier, SameListing, Booked
  <2> QED
    BY <1>1, <2>1, RequestProceeds DEF RequestSteps
<1>3. CASE \E t \in Earlier(r) : ~SameListing(r, t) /\ Abort(r)
  BY <1>1, <1>3, RequestAborts
<1>4. CASE Earlier(r) = {} /\ Proceed(r, "listing")
  BY <1>1, <1>4, RequestProceeds DEF RequestSteps
<1> QED
  BY <1>2, <1>3, <1>4 DEF FindTrade

LEMMA LockListingKeeps ==
  ASSUME Inv, NEW r \in Requests, LockListing(r)
  PROVE  Inv'
<1> DEFINE l == tx[r].listing
           x == [tx[r] EXCEPT !.at = "card"]
<1>1. /\ tx[r].at = "listing" /\ UNCHANGED <<stock, books, cached>>
      /\ \A q \in Procs : ~HoldsListing(q, l)
  BY DEF LockListing
<1>2. CASE OnSale(l, tx[r].user) /\ Proceed(r, "card")
  <2>1. /\ x \in Transactions /\ x.at = "card" /\ x.user = tx[r].user
        /\ x.listing = l /\ x.key = tx[r].key /\ x.rows = tx[r].rows /\ x.lots = tx[r].lots
    BY RequestTypes, ProceedFacts DEF RequestSteps
  <2>2. tx' = [tx EXCEPT ![r] = x]
    BY <1>2, RequestTypes DEF Proceed
  <2>3. x.rows = {} /\ Known(x)
    BY <1>1, <1>2, <2>1, RequestTypes
    DEF PurchaseFits, Known, Ordered, Holding, OnSale, RequestSteps
  <2>4. PurchaseFits(x)
    BY <2>1, <2>3 DEF PurchaseFits, Ordered, Drafted
  <2>5. ASSUME NEW q \in Procs PROVE Apart(tx[q], x)
    BY <1>1, <2>1, <2>3 DEF Apart, HoldsListing, Holding
  <2> HIDE DEF x
  <2> QED
    BY <1>1, <2>1, <2>2, <2>4, <2>5, RequestTypes, LocalStep
<1>3. CASE ~OnSale(l, tx[r].user) /\ Abort(r)
  BY <1>1, <1>3, RequestAborts
<1> QED
  BY <1>2, <1>3 DEF LockListing

\* What a purchase holds makes its accounts known: three different ones.
LEMMA HoldingFacts ==
  ASSUME Inv, NEW r \in Requests, Holding(tx[r])
  PROVE  LET q == tx[r]
             l == listing[q.listing]
         IN
         /\ q.listing \in Listings /\ q.user \in Users /\ q.key \in Keys
         /\ l.status = "ACTIVE" /\ l.seller \in Users /\ l.card \in Cards /\ l.price \in Nat
         /\ l.seller # q.user
         /\ q.user \in Accounts /\ l.seller \in Accounts /\ Platform \in Accounts
         /\ q.user # Platform /\ l.seller # Platform
         /\ q.rows \subseteq {q.user, l.seller, Platform}
<1>1. tx[r].listing \in Listings /\ tx[r].user \in Users /\ tx[r].key \in Keys
      /\ listing[tx[r].listing].status = "ACTIVE"
      /\ listing[tx[r].listing].seller # tx[r].user
  BY RequestTypes DEF PurchaseFits, Known, Holding
<1>2. /\ listing[tx[r].listing].seller \in Users /\ listing[tx[r].listing].card \in Cards
      /\ listing[tx[r].listing].price \in Nat
  BY <1>1 DEF Inv, TypeOK, ListingsFit
<1>3. tx[r].rows \subseteq {tx[r].user, listing[tx[r].listing].seller, Platform}
  BY RequestTypes DEF PurchaseFits, Ordered, Holding
<1> QED
  BY <1>1, <1>2, <1>3, AccountFacts

LEMMA LockCardKeeps ==
  ASSUME Inv, NEW r \in Requests, LockCard(r)
  PROVE  Inv'
<1> DEFINE l == tx[r].listing
           line == <<tx[r].user, listing[l].seller, Platform>>
           x == [tx[r] EXCEPT !.at = "balances", !.todo = line]
<1>1. tx[r].at = "card" /\ UNCHANGED <<stock, books, cached>>
  BY DEF LockCard
<1>2. CASE tx' = [tx EXCEPT ![r].at = "balances", ![r].todo = line]
  <2>0. Holding(tx[r])
    BY <1>1 DEF Holding
  <2>1. line \in Seq(Accounts)
    BY <2>0, HoldingFacts
  <2>2. /\ x \in Transactions /\ x.at = "balances" /\ x.user = tx[r].user
        /\ x.listing = l /\ x.key = tx[r].key /\ x.rows = tx[r].rows /\ x.lots = tx[r].lots
        /\ x.todo = line
    BY <2>1, RequestTypes DEF RequestSteps, Transactions
  <2>3. tx' = [tx EXCEPT ![r] = x]
    BY <1>2, RequestTypes
  <2>4. x.rows = {} /\ Known(x)
    BY <1>1, <2>0, <2>2, RequestTypes
    DEF PurchaseFits, Known, Ordered, Holding, RequestSteps
  <2>5. PurchaseFits(x)
    BY <2>2, <2>4 DEF PurchaseFits, Ordered, Drafted
  <2>6. ASSUME NEW q \in Procs \ {r} PROVE Apart(tx[q], x)
    <3>1. Apart(tx[q], tx[r])
      BY RequestTypes DEF Inv, ProcsFit
    <3> QED
      BY <2>0, <2>2, <2>4, <3>1 DEF Apart, Holding
  <2> HIDE DEF x
  <2> QED
    BY <1>1, <2>2, <2>3, <2>5, <2>6, RequestTypes, LocalStep
<1>3. CASE Abort(r)
  BY <1>1, <1>3, RequestAborts
<1> QED
  BY <1>2, <1>3 DEF LockCard

\* The next balance of a purchase: its turn comes once, and it is not yet written.
LEMMA PayTurn ==
  ASSUME Inv, NEW r \in Requests, tx[r].at = "balances"
  PROVE  LET q == tx[r]
             u == q.user
             s == listing[q.listing].seller
             a == Head(q.todo)
         IN
         /\ a \in Accounts /\ a \notin q.rows
         /\ \/ /\ a = u /\ q.rows = {} /\ Tail(q.todo) = <<s, Platform>> /\ Len(q.todo) = 3
            \/ /\ a = s /\ q.rows = {u} /\ Tail(q.todo) = <<Platform>> /\ Len(q.todo) = 2
            \/ /\ a = Platform /\ q.rows = {u, s} /\ Tail(q.todo) = <<>> /\ Len(q.todo) = 1
<1>1. Holding(tx[r])
  BY DEF Holding
<1>2. Ordered(tx[r])
  BY RequestTypes DEF PurchaseFits
<1> DEFINE q == tx[r]
           u == q.user
           s == listing[q.listing].seller
<1>3. /\ u \in Accounts /\ s \in Accounts /\ Platform \in Accounts
      /\ u # s /\ u # Platform /\ s # Platform
  BY <1>1, HoldingFacts
<1>4. \/ q.rows = {} /\ q.todo = <<u, s, Platform>>
      \/ q.rows = {u} /\ q.todo = <<s, Platform>>
      \/ q.rows = {u, s} /\ q.todo = <<Platform>>
  BY <1>2 DEF Ordered
<1>5. CASE q.rows = {} /\ q.todo = <<u, s, Platform>>
  <2> HIDE DEF u, s
  <2> QED
    BY <1>3, <1>5 DEF u, s
<1>6. CASE q.rows = {u} /\ q.todo = <<s, Platform>>
  BY <1>3, <1>6
<1>7. CASE q.rows = {u, s} /\ q.todo = <<Platform>>
  BY <1>3, <1>7
<1> QED
  BY <1>4, <1>5, <1>6, <1>7

\* One more balance of the purchase is drafted, as the purchase wants it.
LEMMA PayWrites ==
  ASSUME Inv, NEW r \in Requests, tx[r].at = "balances", NEW a \in Accounts, NEW b \in Amounts,
         a = Head(tx[r].todo), BalanceFree(r, a), WriteBalance(r, a, b),
         b.available = balance[a].available + Share(tx[r].user, tx[r].listing, a),
         b.available >= 0, b.held = balance[a].held,
         UNCHANGED <<stock, books, cached>>
  PROVE  Inv'
<1> DEFINE q == tx[r]
           u == q.user
           s == listing[q.listing].seller
<1>1. Holding(q) /\ PurchaseFits(q) /\ q \in Transactions /\ r \in Procs /\ r # Settler
      /\ tx \in [Procs -> Transactions]
  BY RequestTypes DEF Holding
<1>2. /\ a \notin q.rows
      /\ \/ /\ a = u /\ q.rows = {} /\ Tail(q.todo) = <<s, Platform>> /\ Len(q.todo) = 3
         \/ /\ a = s /\ q.rows = {u} /\ Tail(q.todo) = <<Platform>> /\ Len(q.todo) = 2
         \/ /\ a = Platform /\ q.rows = {u, s} /\ Tail(q.todo) = <<>> /\ Len(q.todo) = 1
  BY PayTurn
<1>3. u \in Accounts /\ s \in Accounts /\ Platform \in Accounts
  BY <1>1, HoldingFacts
<1>4. Tail(q.todo) \in Seq(Accounts)
  <2>1. <<s, Platform>> \in Seq(Accounts) /\ <<Platform>> \in Seq(Accounts) /\ <<>> \in Seq(Accounts)
    BY <1>3
  <2> HIDE DEF s
  <2> QED
    BY <1>2, <2>1
<1>5. PICK x \in Transactions :
        /\ tx' = [tx EXCEPT ![r] = x]
        /\ x.user = q.user /\ x.listing = q.listing /\ x.key = q.key
        /\ x.rows = q.rows \cup {a} /\ x.todo = Tail(q.todo)
        /\ x.draft = [q.draft EXCEPT ![a] = b]
        /\ x.lots = q.lots /\ x.lot = q.lot
        /\ x.at = IF Len(q.todo) > 1 THEN q.at ELSE IF r = Settler THEN "lot" ELSE "commit"
  <2>1. /\ r \in Procs /\ tx \in [Procs -> Transactions] /\ a \in Accounts /\ b \in Amounts
        /\ Tail(tx[r].todo) \in Seq(Accounts) /\ WriteBalance(r, a, b)
    BY <1>1, <1>4
  <2> QED
    BY <2>1, WriteFacts
<1>6. x.at = IF Len(q.todo) > 1 THEN "balances" ELSE "commit"
  BY <1>1, <1>5
<1>7. Holding(x)
  BY <1>6 DEF Holding
<1>8. Known(x)
  BY <1>1, <1>5, <1>6 DEF PurchaseFits, Known, Holding, RequestSteps
<1>9. Ordered(x)
  <2>1. CASE a = u /\ q.rows = {} /\ Tail(q.todo) = <<s, Platform>> /\ Len(q.todo) = 3
    <3>1. x.at = "balances" /\ x.rows = {u} /\ x.todo = <<s, Platform>>
      BY <2>1, <1>5, <1>6
    <3> QED
      BY <1>5, <3>1 DEF Ordered
  <2>2. CASE a = s /\ q.rows = {u} /\ Tail(q.todo) = <<Platform>> /\ Len(q.todo) = 2
    <3>1. x.at = "balances" /\ x.rows = {u, s} /\ x.todo = <<Platform>>
      BY <2>2, <1>5, <1>6
    <3> QED
      BY <1>5, <3>1 DEF Ordered
  <2>3. CASE a = Platform /\ q.rows = {u, s} /\ Tail(q.todo) = <<>> /\ Len(q.todo) = 1
    <3>1. x.at = "commit" /\ x.rows = {u, s, Platform}
      BY <2>3, <1>5, <1>6
    <3> QED
      BY <1>5, <3>1 DEF Ordered
  <2> QED
    BY <1>2, <2>1, <2>2, <2>3
<1>10. ASSUME NEW c \in x.rows
       PROVE  /\ x.draft[c].available = balance[c].available + Share(x.user, x.listing, c)
              /\ x.draft[c].available >= 0
              /\ x.draft[c].held = balance[c].held
  <2>1. q.draft \in [Accounts -> Amounts] /\ q.rows \subseteq Accounts
    BY <1>1 DEF Transactions
  <2>2. CASE c = a
    <3>1. x.draft[c] = b
      BY <1>5, <2>1, <2>2
    <3> QED
      BY <1>5, <2>2, <3>1
  <2>3. CASE c # a
    <3>1. c \in q.rows
      BY <1>5, <2>3
    <3>2. x.draft[c] = q.draft[c]
      BY <1>5, <2>1, <2>3, <3>1
    <3> QED
      BY <1>1, <1>5, <3>1, <3>2 DEF PurchaseFits, Drafted
  <2> QED
    BY <2>2, <2>3
<1>11. PurchaseFits(x)
  BY <1>8, <1>9, <1>10 DEF PurchaseFits, Drafted
<1>12. ASSUME NEW p \in Procs \ {r} PROVE Apart(tx[p], x)
  <2>1. Apart(tx[p], q) /\ a \notin tx[p].rows
    BY <1>1 DEF Inv, ProcsFit, BalanceFree
  <2> QED
    BY <1>1, <1>5, <2>1 DEF Apart
<1> QED
  BY <1>1, <1>5, <1>11, <1>12, LocalStep

LEMMA PayBalanceKeeps ==
  ASSUME Inv, NEW r \in Requests, PayBalance(r)
  PROVE  Inv'
<1> DEFINE q == tx[r]
           a == Head(q.todo)
           l == q.listing
           s == listing[l].seller
           price == listing[l].price
           b == ReadBalance(r, a)
<1>1. q.at = "balances" /\ BalanceFree(r, a) /\ UNCHANGED <<stock, books, cached>>
  BY DEF PayBalance
<1>2. a \in Accounts /\ a \notin q.rows /\ (a = q.user \/ a = s \/ a = Platform)
  BY <1>1, PayTurn
<1>3. b = balance[a] /\ b \in Amounts /\ b.available \in Int /\ b.held \in Int /\ b.available >= 0
  BY <1>2 DEF ReadBalance, Inv, TypeOK, Balanced, Amounts
<1>4. Holding(q)
  BY <1>1 DEF Holding
<1>5. /\ price \in Nat /\ q.user # s /\ q.user # Platform /\ s # Platform
  BY <1>4, HoldingFacts
<1>6. TradeFee(price) \in Nat /\ SellerNet(l) \in Nat
  BY <1>5, TradeFeeBound DEF SellerNet
<1>7. ASSUME NEW d \in Int, d = Share(q.user, l, a), b.available + d >= 0,
             WriteBalance(r, a, [b EXCEPT !.available = @ + d])
      PROVE  Inv'
  <2> DEFINE w == [b EXCEPT !.available = @ + d]
  <2>1. w \in Amounts /\ w.available = b.available + d /\ w.held = b.held
    BY <1>3 DEF Amounts
  <2> HIDE DEF w
  <2> QED
    BY <1>1, <1>2, <1>3, <1>7, <2>1, PayWrites DEF w
<1>8. CASE a = q.user /\ CanPay(b, price) /\ WriteBalance(r, a, [b EXCEPT !.available = @ - price])
  <2> DEFINE d == -price
  <2>1. d \in Int /\ b.available + d = b.available - price /\ d = Share(q.user, l, a)
        /\ b.available + d >= 0
    BY <1>3, <1>5, <1>8 DEF Share, CanPay
  <2>2. [b EXCEPT !.available = @ + d] = [b EXCEPT !.available = @ - price]
    BY <2>1
  <2> QED
    BY <1>7, <1>8, <2>1, <2>2
<1>9. CASE a = q.user /\ ~CanPay(b, price) /\ Abort(r)
  BY <1>1, <1>9, RequestAborts
<1>10. CASE a = s /\ WriteBalance(r, a, [b EXCEPT !.available = @ + SellerNet(l)])
  <2>1. SellerNet(l) = Share(q.user, l, a) /\ b.available + SellerNet(l) >= 0
    BY <1>3, <1>5, <1>6, <1>10 DEF Share
  <2> QED
    BY <1>6, <1>7, <1>10, <2>1
<1>11. CASE a = Platform /\ WriteBalance(r, a, [b EXCEPT !.available = @ + TradeFee(price)])
  <2>1. TradeFee(price) = Share(q.user, l, a) /\ b.available + TradeFee(price) >= 0
    BY <1>3, <1>5, <1>6, <1>11 DEF Share
  <2> QED
    BY <1>6, <1>7, <1>11, <2>1
<1> QED
  BY <1>8, <1>9, <1>10, <1>11 DEF PayBalance

LEMMA RecoverKeeps ==
  ASSUME Inv, NEW r \in Requests, Recover(r)
  PROVE  Inv'
<1>1. tx[r].at = "recover" /\ UNCHANGED <<stock, books, cached>>
  BY DEF Recover
<1>2. CASE \E t \in Earlier(r) : SameListing(r, t) /\ Proceed(r, "cache")
  <2>1. Booked(tx[r].user, tx[r].key, tx[r].listing) /\ Proceed(r, "cache")
    BY <1>2 DEF Earlier, SameListing, Booked
  <2> QED
    BY <1>1, <2>1, RequestProceeds DEF RequestSteps
<1>3. CASE Refused(r)
  BY <1>1, <1>3, RequestAnswered DEF Refused
<1> QED
  BY <1>2, <1>3 DEF Recover

LEMMA CacheResponseKeeps ==
  ASSUME Inv, NEW r \in Requests, CacheResponse(r)
  PROVE  Inv'
<1> DEFINE u == tx[r].user
           k == tx[r].key
           l == tx[r].listing
<1>1. tx[r].at = "cache" /\ Answered(r) /\ UNCHANGED <<stock, books>>
  BY DEF CacheResponse
<1>2. u \in Users /\ k \in Keys /\ l \in Listings /\ Booked(u, k, l)
  BY <1>1, RequestTypes DEF PurchaseFits, Known
<1>3. trades' = trades /\ cached \in [Users -> [Keys -> Listings \cup {0}]]
  BY <1>1 DEF books, Inv, TypeOK
<1>4. cached' \in [Users -> [Keys -> Listings \cup {0}]]
      /\ \A v \in Users, j \in Keys :
           cached'[v][j] = cached[v][j] \/ (v = u /\ j = k /\ cached'[v][j] = l)
  <2>1. CASE cached' = [cached EXCEPT ![u][k] = l]
    BY <1>2, <1>3, <2>1
  <2>2. CASE cached' = cached
    BY <1>3, <2>2
  <2> QED
    BY <2>1, <2>2 DEF CacheResponse
<1>5. CacheFits'
  BY <1>2, <1>3, <1>4 DEF Inv, CacheFits, Booked
<1>6. /\ Idle \in Transactions /\ PurchaseFits(Idle) /\ Idle.rows = {} /\ ~Holding(Idle)
  BY IdleFacts DEF PurchaseFits, Known, Ordered, Drafted, Holding, RequestSteps
<1>7. tx' = [tx EXCEPT ![r] = Idle]
  BY <1>1 DEF Answered
<1> QED
  BY <1>1, <1>4, <1>5, <1>6, <1>7, Requesters, Rowless, CachedStep

LEMMA CacheExpiresKeeps ==
  ASSUME Inv, NEW u \in Users, NEW k \in Keys, CacheExpires(u, k)
  PROVE  Inv'
<1>1. tx' = tx /\ UNCHANGED <<stock, books>> /\ cached' = [cached EXCEPT ![u][k] = 0]
  BY DEF CacheExpires
<1>2. trades' = trades /\ cached \in [Users -> [Keys -> Listings \cup {0}]]
  BY <1>1 DEF books, Inv, TypeOK
<1>3. cached' \in [Users -> [Keys -> Listings \cup {0}]]
      /\ \A v \in Users, j \in Keys : cached'[v][j] = cached[v][j] \/ cached'[v][j] = 0
  BY <1>1, <1>2
<1>4. CacheFits'
  BY <1>2, <1>3 DEF Inv, CacheFits, Booked
<1>5. PICK x : x = tx[Settler]
  OBVIOUS
<1>6. Settler \in Procs /\ x \in Transactions /\ tx' = [tx EXCEPT ![Settler] = x]
  BY <1>1, <1>5, SettlerIsAProc DEF Inv, TypeOK
<1>7. SettlementFits(x) /\ \A r \in Procs \ {Settler} : Apart(tx[r], x)
  BY <1>5, <1>6 DEF Inv, ProcsFit
<1> QED
  BY <1>1, <1>3, <1>4, <1>6, <1>7, CachedStep

LEMMA WaitingIsBusy ==
  ASSUME NEW p \in Procs, Deadlocked(p)
  PROVE  tx[p].at # "idle"
BY DEF Deadlocked, WaitsFor

-----------------------------------------------------------------------------
(* Transactions that end without a commit *)

LEMMA NothingPaid ==
  ASSUME NEW a
  PROVE  CreditOf({}, a) = 0 /\ DebitOf({}, a) = 0
<1> DEFINE f == [i \in Auctions |-> IF i \in {} THEN Credit(i, a) ELSE 0]
           g == [i \in Auctions |-> IF i \in {} THEN Debit(i, a) ELSE 0]
<1>1. (\A i \in 1..MaxAuctions : f[i] = 0) /\ (\A i \in 1..MaxAuctions : g[i] = 0)
  BY DEF Auctions
<1>2. Total(f, MaxAuctions) = 0 /\ Total(g, MaxAuctions) = 0
  <2> HIDE DEF f, g
  <2> QED
    BY <1>1, TotalZero, MarketAssumption
<1> QED
  BY <1>2 DEF CreditOf, DebitOf

LEMMA IdleFits ==
  ASSUME Inv
  PROVE  /\ Idle \in Transactions /\ Idle.rows = {} /\ ~Holding(Idle)
         /\ PurchaseFits(Idle) /\ SettlementFits(Idle)
         /\ \A q : Apart(q, Idle)
<1>1. /\ Idle \in Transactions /\ Idle.at = "idle" /\ Idle.listing = 0 /\ Idle.rows = {}
      /\ Idle.lots = {}
  BY IdleFacts
<1>2. PurchaseFits(Idle) /\ ~Holding(Idle)
  BY <1>1 DEF PurchaseFits, Known, Ordered, Drafted, Holding, RequestSteps
<1>3. InTurn(Idle)
  BY <1>1 DEF InTurn, SettlerSteps
<1>4. ASSUME NEW a \in Accounts
      PROVE  /\ Funds(Idle, a).available = balance[a].available + CreditOf(Paid(Idle, a), a)
             /\ Funds(Idle, a).held = balance[a].held - DebitOf(Paid(Idle, a), a)
  <2>1. Paid(Idle, a) = {} /\ Funds(Idle, a) = balance[a]
    BY <1>1 DEF Paid, Funds
  <2>2. balance[a].available \in Int /\ balance[a].held \in Int
    BY DEF Inv, TypeOK, Amounts
  <2> QED
    BY <2>1, <2>2, NothingPaid
<1>5. SettlementFits(Idle)
  BY <1>3, <1>4 DEF SettlementFits, Adds
<1> QED
  BY <1>1, <1>2, <1>5, Rowless

LEMMA SettlerAborts ==
  ASSUME Inv, Abort(Settler), UNCHANGED <<stock, books, cached>>
  PROVE  Inv'
<1>1. tx' = [tx EXCEPT ![Settler] = Idle]
  BY DEF Abort
<1> QED
  BY <1>1, IdleFits, SettlerIsAProc, LocalStep

LEMMA DeadlockVictimKeeps ==
  ASSUME Inv, NEW p \in Procs, DeadlockVictim(p)
  PROVE  Inv'
<1>1. Deadlocked(p) /\ Abort(p) /\ UNCHANGED <<stock, books, cached>>
  BY DEF DeadlockVictim
<1>2. CASE p = Settler
  BY <1>1, <1>2, SettlerAborts
<1>3. CASE p # Settler
  <2>1. p \in Requests
    BY <1>3, SettlerIsAProc
  <2> QED
    BY <1>1, <2>1, RequestAborts, WaitingIsBusy
<1> QED
  BY <1>2, <1>3

LEMMA RestartKeeps ==
  ASSUME Inv, Restart
  PROVE  Inv'
<1>0. /\ card' = card /\ listing' = listing /\ auction' = auction /\ balance' = balance
      /\ trades' = trades /\ cached' = cached /\ tx' = [p \in Procs |-> Idle]
  BY DEF Restart, stock, books
<1>1. TypeOK'
  BY <1>0, IdleFits DEF Inv, TypeOK, AuctionsType
<1>2. ListingsFit' /\ TradesFit' /\ CacheFits'
  BY <1>0 DEF Inv, ListingsFit, TradesFit, CacheFits, Booked
<1>3. AuctionsFit'
  BY <1>0 DEF Inv, AuctionsFit, Open
<1>4. \A a \in Accounts : Balanced(a)'
  BY <1>0 DEF Inv, Balanced, Holds, Settles, Deals, LotShare
<1>5. PICK y : y = Idle
  OBVIOUS
<1>6. PurchaseFits(y)' /\ SettlementFits(y)' /\ \A q : Apart(q, y)
  <2>1. PurchaseFits(y) /\ SettlementFits(y) /\ \A q : Apart(q, y)
    BY <1>5, IdleFits
  <2>2. PurchaseFits(y)'
    BY <1>0, <2>1, PurchaseStays
  <2>3. SettlementFits(y)'
    BY <1>0, <1>1, <2>1, SettlementStays DEF Inv, TypeOK
  <2> QED
    BY <2>1, <2>2, <2>3
<1>7. \A p \in Procs : tx'[p] = y
  BY <1>0, <1>5
<1>8. \A r \in Requests : PurchaseFits(tx[r])'
  BY <1>6, <1>7, Requesters
  DEF PurchaseFits, Known, Ordered, Drafted, Holding, Booked, Share, SellerNet
<1>9. SettlementFits(tx[Settler])'
  BY <1>6, <1>7, SettlerIsAProc
  DEF SettlementFits, InTurn, Adds, Funds, Paid, Left, CreditOf, DebitOf, Credit, Debit
<1>10. \A p, r \in Procs : p # r => Apart(tx[p], tx[r])'
  BY <1>6, <1>7 DEF Apart, Holding
<1>11. ProcsFit'
  BY <1>8, <1>9, <1>10 DEF ProcsFit
<1> QED
  BY <1>1, <1>2, <1>3, <1>4, <1>11 DEF Inv

-----------------------------------------------------------------------------
(* Offers *)

\* The settlement's lots are closed auctions, and it holds no listing.
LEMMA HeldRows ==
  ASSUME Inv
  PROVE  /\ \A i \in tx[Settler].lots : i \in Auctions /\ auction[i].status = "CLOSED"
         /\ \A p \in Procs : tx[p].rows \subseteq Accounts
         /\ tx[Settler].listing \notin Listings
<1>2. \A i \in tx[Settler].lots : i \in Auctions /\ auction[i].status = "CLOSED"
  BY SettlerIsAProc DEF Inv, TypeOK, Transactions, ProcsFit, SettlementFits, InTurn
<1>3. \A p \in Procs : tx[p].rows \subseteq Accounts
  BY DEF Inv, TypeOK, Transactions
<1>4. tx[Settler].listing \notin Listings
  BY DEF Inv, ProcsFit, SettlementFits, InTurn, Listings
<1> QED
  BY <1>2, <1>3, <1>4

LEMMA ListCardKeeps ==
  ASSUME Inv, NEW u \in Users, NEW c \in Cards, NEW price \in Prices, ListCard(u, c, price)
  PROVE  Inv'
<1> DEFINE new == [card |-> c, seller |-> u, price |-> price, status |-> "ACTIVE"]
<1>1. PICK l \in Listings :
        /\ listing[l].status = "NONE"
        /\ listing' = [listing EXCEPT ![l] = new]
  BY DEF ListCard
<1>2. /\ card[c].owner = u /\ card[c].state = "NONE"
      /\ card' = [card EXCEPT ![c].state = "LISTED"]
      /\ auction' = auction /\ balance' = balance /\ trades' = trades
      /\ cached' = cached /\ tx' = tx
  BY DEF ListCard, CanOffer, books
<1>3. TypeOK /\ price \in Nat
  BY MarketAssumption DEF Inv
<1>4. /\ listing'[l].card = c /\ listing'[l].seller = u /\ listing'[l].status = "ACTIVE"
      /\ \A m \in Listings : m # l => listing'[m] = listing[m]
  BY <1>1, <1>3 DEF TypeOK
<1>5. /\ card'[c].state = "LISTED"
      /\ \A d \in Cards : card'[d].owner = card[d].owner
      /\ \A d \in Cards : d # c => card'[d].state = card[d].state
  BY <1>2, <1>3 DEF TypeOK
<1>6. TypeOK'
  <2>1. card' \in [Cards -> [owner : Users, acquired : Nat, value : Nat,
                             state : {"NONE", "LISTED", "IN_AUCTION"}]]
    BY <1>2, <1>3 DEF TypeOK
  <2>2. listing' \in [Listings -> [card : Cards \cup {NoOne}, seller : Users \cup {NoOne},
                                   price : Nat, status : {"NONE", "ACTIVE", "SOLD"}]]
    BY <1>1, <1>3 DEF TypeOK
  <2> QED
    BY <1>2, <1>3, <2>1, <2>2 DEF TypeOK, AuctionsType
<1>7. ListingsFit'
  <2>1. \A m \in Listings : listing[m].status = "ACTIVE" => listing[m].card # c
    BY <1>2 DEF Inv, ListingsFit
  <2>2. \A m \in Listings : listing'[m].status # "NONE" =>
          listing'[m].card \in Cards /\ listing'[m].seller \in Users
    BY <1>4 DEF Inv, ListingsFit
  <2>3. \A m \in Listings : listing'[m].status = "ACTIVE" =>
          card'[listing'[m].card].state = "LISTED"
          /\ card'[listing'[m].card].owner = listing'[m].seller
    BY <1>2, <1>4, <1>5, <2>1 DEF Inv, ListingsFit
  <2>4. \A m, n \in Listings :
          listing'[m].status = "ACTIVE" /\ listing'[n].status = "ACTIVE"
            /\ listing'[m].card = listing'[n].card => m = n
    BY <1>4, <2>1 DEF Inv, ListingsFit
  <2>5. \A d \in Cards : card'[d].state = "LISTED" =>
          \E m \in Listings : listing'[m].status = "ACTIVE" /\ listing'[m].card = d
    BY <1>1, <1>4, <1>5 DEF Inv, ListingsFit
  <2> QED
    BY <2>2, <2>3, <2>4, <2>5 DEF ListingsFit
<1>8. AuctionsFit'
  <2>1. \A i \in Auctions : Open(i) => auction[i].card \in Cards /\ auction[i].card # c
    BY <1>2 DEF Inv, AuctionsFit, Open
  <2> QED
    BY <1>2, <1>5, <2>1 DEF Inv, AuctionsFit, Open
<1>9. TradesFit' /\ CacheFits'
  <2>1. \A m \in Listings : listing'[m].status = "SOLD" <=> listing[m].status = "SOLD"
    BY <1>1, <1>4
  <2>2. \A t \in trades : t.listing \in Listings
    BY <1>3 DEF TypeOK, Trades
  <2> QED
    BY <1>2, <2>1, <2>2 DEF Inv, TradesFit, CacheFits, Booked
<1>10. \A a \in Accounts : Balanced(a)'
  BY <1>2 DEF Inv, Balanced, Holds, Settles, Deals, LotShare
<1>11. ASSUME NEW r \in Requests, Holding(tx[r])
       PROVE  listing'[tx[r].listing] = listing[tx[r].listing]
  BY <1>1, <1>4, <1>11, HoldingFacts
<1>12. ProcsFit'
  BY <1>2, <1>6, <1>11, TablesStep
<1> QED
  BY <1>6, <1>7, <1>8, <1>9, <1>10, <1>12 DEF Inv

LEMMA AuctionOpensKeeps ==
  ASSUME Inv, NEW i \in Auctions, NEW u \in Users, NEW c \in Cards, AuctionOpens(i, u, c)
  PROVE  Inv'
<1> DEFINE new == [NoAuction EXCEPT !.card = c, !.seller = u, !.status = "LIVE"]
<1>1. /\ auction[i].status = "NONE" /\ card[c].owner = u /\ card[c].state = "NONE"
      /\ card' = [card EXCEPT ![c].state = "IN_AUCTION"]
      /\ auction' = [auction EXCEPT ![i] = new]
      /\ listing' = listing /\ balance' = balance /\ trades' = trades
      /\ cached' = cached /\ tx' = tx
  BY DEF AuctionOpens, CanOffer, books
<1>2. TypeOK
  BY DEF Inv
<1>3. /\ new.card = c /\ new.seller = u /\ new.winner = NoOne /\ new.gross = 0
      /\ new.status = "LIVE"
      /\ new \in [card : Cards \cup {NoOne}, seller : Users \cup {NoOne},
                  winner : Users \cup {NoOne}, gross : Nat,
                  status : {"NONE", "LIVE", "CLOSED", "SETTLED"}]
  BY DEF NoAuction
<1>4. auction'[i] = new /\ \A j \in Auctions : j # i => auction'[j] = auction[j]
  BY <1>1, <1>2 DEF TypeOK, AuctionsType
<1>5. /\ card'[c].state = "IN_AUCTION"
      /\ \A d \in Cards : card'[d].owner = card[d].owner
      /\ \A d \in Cards : d # c => card'[d].state = card[d].state
  BY <1>1, <1>2 DEF TypeOK
<1> HIDE DEF new
<1>6. TypeOK'
  <2>1. card' \in [Cards -> [owner : Users, acquired : Nat, value : Nat,
                             state : {"NONE", "LISTED", "IN_AUCTION"}]]
    BY <1>1, <1>2 DEF TypeOK
  <2>2. AuctionsType'
    BY <1>1, <1>2, <1>3 DEF TypeOK, AuctionsType
  <2> QED
    BY <1>1, <1>2, <2>1, <2>2 DEF TypeOK
<1>7. ListingsFit'
  <2>1. \A m \in Listings : listing[m].status = "ACTIVE" =>
          listing[m].card \in Cards /\ listing[m].card # c
    BY <1>1 DEF Inv, ListingsFit
  <2> QED
    BY <1>1, <1>5, <2>1 DEF Inv, ListingsFit
<1>8. AuctionsFit'
  <2>1. \A j \in Auctions : Open(j) => auction[j].card \in Cards /\ auction[j].card # c
    BY <1>1 DEF Inv, AuctionsFit, Open
  <2>2. \A j \in Auctions : Open(j)' <=> (j = i \/ Open(j))
    BY <1>3, <1>4 DEF Open
  <2>3. ~Open(i)
    BY <1>1 DEF Open
  <2>4. \A j \in Auctions :
          /\ auction'[j].status # "NONE" => auction'[j].card \in Cards /\ auction'[j].seller \in Users
          /\ auction'[j].status \in {"NONE", "LIVE"} => auction'[j].winner = NoOne
          /\ auction'[j].winner = NoOne => auction'[j].gross = 0
          /\ auction'[j].winner # NoOne => auction'[j].winner # auction'[j].seller
          /\ auction'[j].status = "NONE" => auction'[j].card = NoOne
    BY <1>3, <1>4 DEF Inv, AuctionsFit
  <2>5. \A j \in Auctions : Open(j)' =>
          /\ card'[auction'[j].card].state = "IN_AUCTION"
          /\ card'[auction'[j].card].owner = auction'[j].seller
    BY <1>1, <1>3, <1>4, <1>5, <2>1, <2>2 DEF Inv, AuctionsFit
  <2>6. \A j, n \in Auctions : Open(j)' /\ Open(n)' /\ auction'[j].card = auction'[n].card => j = n
    BY <1>3, <1>4, <2>1, <2>2 DEF Inv, AuctionsFit
  <2>7. \A d \in Cards : card'[d].state = "IN_AUCTION" =>
          \E j \in Auctions : Open(j)' /\ auction'[j].card = d
    BY <1>3, <1>4, <1>5, <2>2, <2>3 DEF Inv, AuctionsFit
  <2> QED
    BY <2>4, <2>5, <2>6, <2>7 DEF AuctionsFit
<1>9. TradesFit' /\ CacheFits'
  BY <1>1 DEF Inv, TradesFit, CacheFits, Booked
<1>10. \A a \in Accounts : Balanced(a)'
  <2>1. ASSUME NEW a PROVE Holds(a)' = Holds(a) /\ Settles(a)' = Settles(a)
    BY <1>1, <1>3, <1>4 DEF Holds, Settles, LotShare
  <2> QED
    BY <1>1, <2>1 DEF Inv, Balanced, Deals
<1>11. ProcsFit'
  BY <1>1, <1>4, <1>6, HeldRows, TablesStep
<1> QED
  BY <1>6, <1>7, <1>8, <1>9, <1>10, <1>11 DEF Inv

\* Holds and settlements are sums of integers.
LEMMA BooksType ==
  ASSUME AuctionsType, NEW a
  PROVE  /\ \A i \in Auctions : LotShare(i, a) \in Int
         /\ \A i \in 1..MaxAuctions : Holds(a)[i] \in Nat /\ Settles(a)[i] \in Int
         /\ Total(Holds(a), MaxAuctions) \in Int /\ Total(Settles(a), MaxAuctions) \in Int
<1>1. ASSUME NEW i \in Auctions PROVE LotShare(i, a) \in Int /\ auction[i].gross \in Nat
  <2>1. auction[i].gross \in Nat
    BY DEF AuctionsType
  <2>2. AuctionFee(auction[i].gross) \in Nat
    BY <2>1, AuctionFeeBound
  <2> QED
    BY <2>1, <2>2 DEF LotShare
<1>2. \A i \in 1..MaxAuctions : Holds(a)[i] \in Nat /\ Settles(a)[i] \in Int
  BY <1>1 DEF Holds, Settles, Auctions
<1>3. Total(Holds(a), MaxAuctions) \in Int /\ Total(Settles(a), MaxAuctions) \in Int
  <2>1. \A i \in 1..MaxAuctions : Holds(a)[i] \in Int /\ Settles(a)[i] \in Int
    BY <1>2
  <2> QED
    BY <2>1, TotalType, MarketAssumption
<1> QED
  BY <1>1, <1>2, <1>3

\* The sum of the trades is an integer, and a new trade adds its share.
LEMMA DealsType ==
  ASSUME trades \subseteq Trades, IsFiniteSet(trades), NEW a
  PROVE  /\ \A t \in Trades : TradeShare(t, a) \in Int
         /\ SumFunction(Deals(a)) \in Int
         /\ \A t \in Trades \ trades :
              SumFunction([s \in trades \cup {t} |-> TradeShare(s, a)])
                = SumFunction(Deals(a)) + TradeShare(t, a)
<1>1. \A t \in Trades : TradeShare(t, a) \in Int
  BY DEF Trades, TradeShare
<1>2. PICK f : f = Deals(a)
  OBVIOUS
<1>3. DOMAIN f = trades /\ \A t \in trades : f[t] = TradeShare(t, a) /\ f[t] \in Int
  BY <1>1, <1>2 DEF Deals
<1>4. SumFunction(f) \in Int
  BY <1>3, SumType
<1>5. ASSUME NEW t \in Trades, t \notin trades
      PROVE  SumFunction([s \in trades \cup {t} |-> TradeShare(s, a)])
               = SumFunction(f) + TradeShare(t, a)
  <2> DEFINE g == [s \in trades \cup {t} |-> TradeShare(s, a)]
  <2>1. /\ DOMAIN g = trades \cup {t} /\ g[t] = TradeShare(t, a) /\ g[t] \in Int
        /\ \A s \in trades : g[s] = f[s] /\ f[s] \in Int
    BY <1>1, <1>3
  <2> HIDE DEF g
  <2> QED
    BY <1>3, <1>5, <2>1, SumGrows
<1> QED
  BY <1>1, <1>2, <1>4, <1>5

\* Only the status, the winner and the bid of a live auction change when it ends.
LEMMA AuctionEndsKeeps ==
  ASSUME Inv, NEW i \in Auctions, AuctionEnds(i)
  PROVE  Inv'
<1>1. /\ auction[i].status = "LIVE" /\ card' = card /\ listing' = listing /\ trades' = trades
      /\ cached' = cached /\ tx' = tx
  BY DEF AuctionEnds
<1>2. TypeOK
  BY DEF Inv
<1>3. PICK w \in Users \cup {NoOne}, g \in Nat :
        /\ auction' = [auction EXCEPT ![i].status = "CLOSED", ![i].winner = w, ![i].gross = g]
        /\ w = NoOne => g = 0 /\ balance' = balance
        /\ w # NoOne => /\ w # auction[i].seller /\ balance[w].available >= g
                        /\ \A q \in Procs : w \notin tx[q].rows
                        /\ balance' = [balance EXCEPT ![w].available = @ - g, ![w].held = @ + g]
  <2>1. CASE auction' = [auction EXCEPT ![i].status = "CLOSED"] /\ UNCHANGED balance
    <3>1. auction[i].winner = NoOne /\ auction[i].gross = 0
      BY <1>1 DEF Inv, AuctionsFit
    <3>2. auction' = [auction EXCEPT ![i].status = "CLOSED", ![i].winner = NoOne, ![i].gross = 0]
      BY <1>2, <2>1, <3>1 DEF TypeOK, AuctionsType
    <3> QED
      BY <2>1, <3>2
  <2>2. CASE \E w \in Users \ {auction[i].seller}, g \in Prices :
               /\ \A q \in Procs : w \notin tx[q].rows
               /\ balance[w].available >= g
               /\ balance' = [balance EXCEPT ![w].available = @ - g, ![w].held = @ + g]
               /\ auction' = [auction EXCEPT ![i].status = "CLOSED", ![i].winner = w, ![i].gross = g]
    <3>1. \A g \in Prices : g \in Nat
      BY MarketAssumption
    <3> QED
      BY <2>2, <3>1, AccountFacts
  <2> QED
    BY <2>1, <2>2 DEF AuctionEnds
<1>4. /\ auction'[i].card = auction[i].card /\ auction'[i].seller = auction[i].seller
      /\ auction'[i].status = "CLOSED" /\ auction'[i].winner = w /\ auction'[i].gross = g
      /\ \A j \in Auctions : j # i => auction'[j] = auction[j]
      /\ AuctionsType'
  <2> DEFINE rec == [auction[i] EXCEPT !.status = "CLOSED", !.winner = w, !.gross = g]
  <2>1. /\ rec.card = auction[i].card /\ rec.seller = auction[i].seller
        /\ rec.status = "CLOSED" /\ rec.winner = w /\ rec.gross = g
        /\ rec \in [card : Cards \cup {NoOne}, seller : Users \cup {NoOne},
                    winner : Users \cup {NoOne}, gross : Nat,
                    status : {"NONE", "LIVE", "CLOSED", "SETTLED"}]
    <3> DEFINE row == auction[i]
    <3>1. row \in [card : Cards \cup {NoOne}, seller : Users \cup {NoOne},
                   winner : Users \cup {NoOne}, gross : Nat,
                   status : {"NONE", "LIVE", "CLOSED", "SETTLED"}]
      BY <1>2 DEF TypeOK, AuctionsType
    <3> HIDE DEF row
    <3>2. rec = [row EXCEPT !.status = "CLOSED", !.winner = w, !.gross = g]
      BY DEF row
    <3> HIDE DEF rec
    <3>3. /\ rec.card = row.card /\ rec.seller = row.seller
          /\ rec.status = "CLOSED" /\ rec.winner = w /\ rec.gross = g
      BY ONLY <3>1, <3>2
    <3>4. rec \in [card : Cards \cup {NoOne}, seller : Users \cup {NoOne},
                   winner : Users \cup {NoOne}, gross : Nat,
                   status : {"NONE", "LIVE", "CLOSED", "SETTLED"}]
      <4>1. w \in Users \cup {NoOne} /\ g \in Nat
        OBVIOUS
      <4> QED
        BY ONLY <3>1, <3>2, <4>1
    <3> QED
      BY <3>3, <3>4 DEF row
  <2>2. auction' = [auction EXCEPT ![i] = rec]
    BY <1>2, <1>3 DEF TypeOK, AuctionsType
  <2>3. AuctionsType
    BY DEF Inv, TypeOK
  <2> HIDE DEF rec
  <2>4. auction'[i] = rec /\ \A j \in Auctions : j # i => auction'[j] = auction[j]
    BY <1>2, <2>2, <2>3 DEF AuctionsType
  <2>5. AuctionsType'
    BY <1>2, <2>1, <2>2, <2>3 DEF AuctionsType
  <2> QED
    BY <2>1, <2>4, <2>5
<1>5. \A a \in Accounts :
        /\ balance'[a].available = IF a = w THEN balance[a].available - g ELSE balance[a].available
        /\ balance'[a].held = IF a = w THEN balance[a].held + g ELSE balance[a].held
        /\ a # w => balance'[a] = balance[a]
  <2>1. CASE w = NoOne
    BY <1>3, <2>1, MarketAssumption
  <2>2. CASE w # NoOne
    BY <1>2, <1>3, <2>2, AccountFacts DEF TypeOK, Amounts
  <2> QED
    BY <2>1, <2>2
<1>6. balance' \in [Accounts -> Amounts]
  <2>1. CASE w = NoOne
    BY <1>2, <1>3, <2>1 DEF TypeOK
  <2>2. CASE w # NoOne
    BY <1>2, <1>3, <2>2, AccountFacts DEF TypeOK, Amounts
  <2> QED
    BY <2>1, <2>2
<1>7. TypeOK'
  BY <1>1, <1>2, <1>4, <1>6 DEF TypeOK
<1>8. ListingsFit' /\ TradesFit' /\ CacheFits'
  BY <1>1 DEF Inv, ListingsFit, TradesFit, CacheFits, Booked
<1>9. AuctionsFit'
  <2>1. \A j \in Auctions : (Open(j)' <=> Open(j)) /\ auction'[j].card = auction[j].card
                            /\ auction'[j].seller = auction[j].seller
    BY <1>1, <1>4 DEF Open
  <2>2. \A j \in Auctions :
          /\ auction'[j].status # "NONE" => auction'[j].card \in Cards /\ auction'[j].seller \in Users
          /\ auction'[j].status \in {"NONE", "LIVE"} => auction'[j].winner = NoOne
          /\ auction'[j].winner = NoOne => auction'[j].gross = 0
          /\ auction'[j].winner # NoOne => auction'[j].winner # auction'[j].seller
          /\ auction'[j].status = "NONE" => auction'[j].card = NoOne
    <3> TAKE j \in Auctions
    <3>1. CASE j = i
      <4>1. auction[i].card \in Cards /\ auction[i].seller \in Users
        BY <1>1 DEF Inv, AuctionsFit
      <4> QED
        BY <1>3, <1>4, <3>1, <4>1
    <3>2. CASE j # i
      BY <1>4, <3>2 DEF Inv, AuctionsFit
    <3> QED
      BY <3>1, <3>2
  <2> QED
    BY <1>1, <2>1, <2>2 DEF Inv, AuctionsFit
<1>10. ASSUME NEW a \in Accounts PROVE Balanced(a)'
  <2>1. Balanced(a) /\ balance[a].available \in Int /\ balance[a].held \in Int
    BY <1>2 DEF Inv, TypeOK, Amounts
  <2>2. Settles(a)' = Settles(a) /\ Deals(a)' = Deals(a)
    BY <1>1, <1>4 DEF Settles, Deals, LotShare
  <2>3. \A j \in Auctions :
          Holds(a)'[j] = IF j = i THEN Holds(a)[j] + (IF a = w THEN g ELSE 0) ELSE Holds(a)[j]
    BY <1>1, <1>4 DEF Holds
  <2>4. Total(Holds(a)', MaxAuctions) = Total(Holds(a), MaxAuctions) + (IF a = w THEN g ELSE 0)
    <3>1. PICK d \in Int : d = IF a = w THEN g ELSE 0
      OBVIOUS
    <3>2. PICK f : f = Holds(a)
      OBVIOUS
    <3>3. PICK h : h = Holds(a)'
      OBVIOUS
    <3>4. /\ \A j \in 1..MaxAuctions : f[j] \in Int
          /\ \A j \in 1..MaxAuctions : h[j] = IF j = i THEN f[j] + d ELSE f[j]
          /\ i \in 1..MaxAuctions /\ MaxAuctions \in Nat
      BY <1>2, <2>3, <3>1, <3>2, <3>3, BooksType, MarketAssumption DEF Auctions, TypeOK
    <3>5. Total(h, MaxAuctions) = Total(f, MaxAuctions) + d
      BY <3>4, TotalUpdate
    <3> QED
      BY <3>1, <3>2, <3>3, <3>5
  <2>5. w # NoOne => balance[w].available >= g
    BY <1>3
  <2>6. a = w => w # NoOne
    BY MarketAssumption
  <2>7. Total(Holds(a), MaxAuctions) \in Int
    BY <1>2, BooksType DEF TypeOK
  <2>8. /\ balance'[a].available >= 0
        /\ balance'[a].held = Total(Holds(a)', MaxAuctions)
        /\ balance'[a].available + balance'[a].held = balance[a].available + balance[a].held
    BY <1>5, <2>1, <2>4, <2>5, <2>6, <2>7 DEF Balanced
  <2>9. Total(Holds(a), MaxAuctions)' = Total(Holds(a)', MaxAuctions)
        /\ Total(Settles(a), MaxAuctions)' = Total(Settles(a), MaxAuctions)
        /\ SumFunction(Deals(a))' = SumFunction(Deals(a))
    BY <2>2
  <2> QED
    BY <2>1, <2>8, <2>9 DEF Balanced
<1>11. ProcsFit'
  <2>1. \A j \in tx[Settler].lots : auction'[j] = auction[j]
    BY <1>1, <1>4, HeldRows
  <2>2. \A r \in Procs : \A a \in tx[r].rows : balance'[a] = balance[a]
    <3>1. \A r \in Procs : \A a \in tx[r].rows : a \in Accounts
      BY HeldRows
    <3>2. \A r \in Procs : \A a \in tx[r].rows : a # w
      BY <1>3, <3>1, MarketAssumption
    <3> QED
      BY <1>5, <3>1, <3>2
  <2> QED
    BY <1>1, <1>7, <2>1, <2>2, TablesStep
<1> QED
  BY <1>7, <1>8, <1>9, <1>10, <1>11 DEF Inv

LEMMA PriceTickKeeps ==
  ASSUME Inv, PriceTick
  PROVE  Inv'
<1>1. PICK f \in [Cards -> Values] : card' = [c \in Cards |-> [card[c] EXCEPT !.value = f[c]]]
  BY DEF PriceTick
<1>2. /\ listing' = listing /\ auction' = auction /\ balance' = balance /\ trades' = trades
      /\ cached' = cached /\ tx' = tx
  BY DEF PriceTick, books
<1>3. TypeOK /\ \A c \in Cards : f[c] \in Nat
  BY <1>1, MarketAssumption DEF Inv
<1>4. card' \in [Cards -> [owner : Users, acquired : Nat, value : Nat,
                           state : {"NONE", "LISTED", "IN_AUCTION"}]]
      /\ \A c \in Cards : card'[c].owner = card[c].owner /\ card'[c].state = card[c].state
  BY <1>1, <1>3 DEF TypeOK
<1>5. TypeOK'
  BY <1>2, <1>3, <1>4 DEF TypeOK, AuctionsType
<1>6. ListingsFit' /\ AuctionsFit'
  BY <1>2, <1>4 DEF Inv, ListingsFit, AuctionsFit, Open
<1>7. TradesFit' /\ CacheFits'
  BY <1>2 DEF Inv, TradesFit, CacheFits, Booked
<1>8. \A a \in Accounts : Balanced(a)'
  BY <1>2 DEF Inv, Balanced, Holds, Settles, Deals, LotShare
<1>9. ProcsFit'
  BY <1>2, <1>5, TablesStep
<1> QED
  BY <1>5, <1>6, <1>7, <1>8, <1>9 DEF Inv

-----------------------------------------------------------------------------
(* Settlement *)

LEMMA SettlerTypes ==
  ASSUME Inv
  PROVE  /\ Settler \in Procs /\ tx \in [Procs -> Transactions] /\ tx[Settler] \in Transactions
         /\ SettlementFits(tx[Settler]) /\ AuctionsType
         /\ tx[Settler].lots \subseteq Auctions /\ tx[Settler].rows \subseteq Accounts
         /\ \A a \in Accounts : balance[a].available \in Int /\ balance[a].held \in Int
BY SettlerIsAProc DEF Inv, ProcsFit, TypeOK, Transactions, Amounts

\* Nobody else touches the listing of the settlement: it has none.
LEMMA SettlerApart ==
  ASSUME Inv, NEW x, x.listing = 0, \A r \in Procs \ {Settler} : x.rows \cap tx[r].rows = {}
  PROVE  \A r \in Procs \ {Settler} : Apart(tx[r], x)
<1> TAKE r \in Procs \ {Settler}
<1>1. r \in Requests
  BY SettlerIsAProc
<1>2. Holding(tx[r]) => tx[r].listing \in Listings
  BY <1>1, HoldingFacts
<1>3. Holding(tx[r]) => tx[r].listing # 0
  BY <1>2 DEF Listings
<1> QED
  BY <1>3 DEF Apart

LEMMA SettlementStartsKeeps ==
  ASSUME Inv, SettlementStarts
  PROVE  Inv'
<1> DEFINE due == {i \in Auctions : auction[i].status = "CLOSED" /\ CardFree(auction[i].card)}
           x == [Idle EXCEPT !.at = "lot", !.lots = due]
<1>1. tx' = [tx EXCEPT ![Settler] = x] /\ UNCHANGED <<stock, books, cached>>
  BY DEF SettlementStarts
<1>2. /\ x \in Transactions /\ x.at = "lot" /\ x.lots = due /\ x.rows = {} /\ x.lot = 0
      /\ x.listing = 0
  BY IdleFacts DEF Idle, Transactions, SettlerSteps
<1>3. InTurn(x)
  BY <1>2 DEF InTurn, SettlerSteps
<1>4. ASSUME NEW a \in Accounts
      PROVE  /\ Funds(x, a).available = balance[a].available + CreditOf(Paid(x, a), a)
             /\ Funds(x, a).held = balance[a].held - DebitOf(Paid(x, a), a)
  <2>1. Paid(x, a) = {}
    BY <1>2 DEF Paid, Auctions
  <2>2. Funds(x, a) = balance[a]
    BY <1>2 DEF Funds
  <2>3. CreditOf({}, a) = 0 /\ DebitOf({}, a) = 0
    BY NothingPaid
  <2> HIDE DEF x
  <2> QED
    BY <2>1, <2>2, <2>3, SettlerTypes
<1>5. SettlementFits(x)
  BY <1>3, <1>4 DEF SettlementFits, Adds
<1> HIDE DEF x
<1>6. \A r \in Procs \ {Settler} : Apart(tx[r], x)
  BY <1>2, SettlerApart
<1> QED
  BY <1>1, <1>2, <1>5, <1>6, SettlerTypes, LocalStep

\* One more lot is paid.
LEMMA PaidMore ==
  ASSUME AuctionsType, NEW S, NEW i \in Auctions, i \notin S, NEW a
  PROVE  /\ CreditOf(S \cup {i}, a) = CreditOf(S, a) + Credit(i, a)
         /\ DebitOf(S \cup {i}, a) = DebitOf(S, a) + Debit(i, a)
<1> DEFINE T == S \cup {i}
           f == [j \in Auctions |-> IF j \in S THEN Credit(j, a) ELSE 0]
           g == [j \in Auctions |-> IF j \in T THEN Credit(j, a) ELSE 0]
           h == [j \in Auctions |-> IF j \in S THEN Debit(j, a) ELSE 0]
           k == [j \in Auctions |-> IF j \in T THEN Debit(j, a) ELSE 0]
<1>1. \A j \in Auctions : Credit(j, a) \in Nat /\ Debit(j, a) \in Nat
  BY PaymentsType
<1>2. /\ \A j \in 1..MaxAuctions : f[j] \in Int /\ h[j] \in Int
      /\ \A j \in 1..MaxAuctions : g[j] = IF j = i THEN f[j] + Credit(i, a) ELSE f[j]
      /\ \A j \in 1..MaxAuctions : k[j] = IF j = i THEN h[j] + Debit(i, a) ELSE h[j]
  BY <1>1 DEF Auctions
<1>3. i \in 1..MaxAuctions /\ MaxAuctions \in Nat /\ Credit(i, a) \in Int /\ Debit(i, a) \in Int
  BY <1>1, MarketAssumption DEF Auctions
<1>4. Total(g, MaxAuctions) = Total(f, MaxAuctions) + Credit(i, a)
  <2> HIDE DEF f, g, h, k
  <2> QED
    BY <1>2, <1>3, TotalUpdate
<1>5. Total(k, MaxAuctions) = Total(h, MaxAuctions) + Debit(i, a)
  <2> HIDE DEF f, g, h, k
  <2> QED
    BY <1>2, <1>3, TotalUpdate
<1> QED
  BY <1>4, <1>5 DEF CreditOf, DebitOf

\* The settlement goes on without writing a balance: what it has paid is the same,
\* or one lot more that neither takes from nor gives to the account.
LEMMA SettlerGoesOn ==
  ASSUME Inv, NEW x \in Transactions, tx' = [tx EXCEPT ![Settler] = x],
         x.rows = tx[Settler].rows, x.draft = tx[Settler].draft, InTurn(x),
         \A a \in Accounts :
           \/ Paid(x, a) = Paid(tx[Settler], a)
           \/ \E i \in Auctions : /\ i \notin Paid(tx[Settler], a)
                                  /\ Paid(x, a) = Paid(tx[Settler], a) \cup {i}
                                  /\ Credit(i, a) = 0 /\ Debit(i, a) = 0,
         UNCHANGED <<stock, books, cached>>
  PROVE  Inv'
<1>1. ASSUME NEW a \in Accounts
      PROVE  /\ Funds(x, a).available = balance[a].available + CreditOf(Paid(x, a), a)
             /\ Funds(x, a).held = balance[a].held - DebitOf(Paid(x, a), a)
  <2> DEFINE S == Paid(tx[Settler], a)
  <2>1. /\ Funds(tx[Settler], a).available = balance[a].available + CreditOf(S, a)
        /\ Funds(tx[Settler], a).held = balance[a].held - DebitOf(S, a)
    BY SettlerTypes DEF SettlementFits, Adds
  <2>2. Funds(x, a) = Funds(tx[Settler], a)
    BY DEF Funds
  <2>3. CreditOf(S, a) \in Int /\ DebitOf(S, a) \in Int
    BY SettlerTypes, PaymentsType
  <2>4. CreditOf(Paid(x, a), a) = CreditOf(S, a) /\ DebitOf(Paid(x, a), a) = DebitOf(S, a)
    <3>1. CASE Paid(x, a) = S
      BY <3>1
    <3>2. CASE \E i \in Auctions : /\ i \notin S /\ Paid(x, a) = S \cup {i}
                                   /\ Credit(i, a) = 0 /\ Debit(i, a) = 0
      <4>1. PICK i \in Auctions : /\ i \notin S /\ Paid(x, a) = S \cup {i}
                                  /\ Credit(i, a) = 0 /\ Debit(i, a) = 0
        BY <3>2
      <4>2. /\ CreditOf(S \cup {i}, a) = CreditOf(S, a) + Credit(i, a)
            /\ DebitOf(S \cup {i}, a) = DebitOf(S, a) + Debit(i, a)
        <5> HIDE DEF S
        <5> QED
          BY <4>1, SettlerTypes, PaidMore
      <4> QED
        BY <2>3, <4>1, <4>2
    <3> QED
      BY <3>1, <3>2
  <2> QED
    BY <2>1, <2>2, <2>4
<1>2. SettlementFits(x)
  BY <1>1 DEF SettlementFits, Adds
<1>3. \A r \in Procs \ {Settler} : x.rows \cap tx[r].rows = {}
  BY SettlerTypes DEF Inv, ProcsFit, Apart
<1>4. x.listing = 0
  BY DEF InTurn
<1> QED
  BY <1>2, <1>3, <1>4, SettlerApart, SettlerTypes, LocalStep

\* What the end of an auction without winner moves: nothing; and what the others
\* move on accounts that are none of theirs.
LEMMA OthersUnpaid ==
  ASSUME Inv, NEW i \in Auctions, NEW a \in Accounts,
         auction[i].winner = NoOne \/ a \notin {auction[i].winner, auction[i].seller, Platform}
  PROVE  Credit(i, a) = 0 /\ Debit(i, a) = 0
<1>1. CASE auction[i].winner = NoOne
  <2>1. auction[i].gross = 0 /\ a # NoOne
    BY <1>1, MarketAssumption DEF Inv, AuctionsFit
  <2>2. AuctionFee(0) \in Nat /\ AuctionFee(0) <= 0
    BY AuctionFeeBound
  <2>3. AuctionFee(0) = 0
    BY <2>2
  <2> QED
    BY <1>1, <2>1, <2>3 DEF Credit, Debit
<1>2. CASE a \notin {auction[i].winner, auction[i].seller, Platform}
  BY <1>2 DEF Credit, Debit
<1> QED
  BY <1>1, <1>2

LEMMA LeftOfThree ==
  ASSUME NEW q, NEW u, NEW v, NEW w, q.todo = <<u, v, w>>
  PROVE  Left(q) = {u, v, w}
<1>1. DOMAIN q.todo = 1..3 /\ q.todo[1] = u /\ q.todo[2] = v /\ q.todo[3] = w
  OBVIOUS
<1> QED
  BY <1>1 DEF Left, Range

LEMMA NextLotKeeps ==
  ASSUME Inv, NextLot
  PROVE  Inv'
<1> DEFINE q == tx[Settler]
           more == {i \in q.lots : i > q.lot}
<1>0. q.at = "lot" /\ UNCHANGED <<stock, books, cached>>
  BY DEF NextLot
<1>1. /\ q \in Transactions /\ InTurn(q) /\ Settler \in Procs /\ q.lots \subseteq Auctions
      /\ tx \in [Procs -> Transactions] /\ q.lot \in Auctions \cup {0}
      /\ \A i \in q.lots : i \in Auctions
      /\ \A a : Paid(q, a) = {i \in q.lots : i <= q.lot}
  <2>1. q \in Transactions /\ InTurn(q) /\ Settler \in Procs /\ tx \in [Procs -> Transactions]
    BY SettlerTypes DEF SettlementFits
  <2>2. q.lots \subseteq Auctions /\ q.lot \in Auctions \cup {0}
    BY <2>1 DEF Transactions
  <2>3. q.lots \subseteq Int /\ q.lot \in Int
    BY <2>2, MarketAssumption DEF Auctions
  <2>4. ASSUME NEW a PROVE Paid(q, a) = {i \in q.lots : i <= q.lot}
    BY <1>0, <2>3 DEF Paid
  <2> QED
    BY <2>1, <2>2, <2>4
<1>2. CASE more = {} /\ Proceed(Settler, "commit")
  <2> DEFINE x == [q EXCEPT !.at = "commit"]
  <2>1. /\ x \in Transactions /\ x.at = "commit" /\ x.rows = q.rows /\ x.draft = q.draft
        /\ x.lots = q.lots /\ x.lot = q.lot /\ x.listing = q.listing
    BY <1>1, ProceedFacts DEF SettlerSteps
  <2>2. tx' = [tx EXCEPT ![Settler] = x]
    BY <1>1, <1>2 DEF Proceed
  <2>3. \A i \in q.lots : i <= q.lot
    BY <1>1, <1>2 DEF Auctions
  <2>4. InTurn(x)
    BY <1>1, <2>1, <2>3 DEF InTurn, SettlerSteps
  <2>5. \A a \in Accounts : Paid(x, a) = Paid(q, a)
    BY <1>0, <2>1 DEF Paid
  <2> HIDE DEF x
  <2> QED
    BY <1>0, <2>1, <2>2, <2>4, <2>5, SettlerGoesOn
<1>3. ASSUME NEW i \in more, \A j \in more : i <= j,
             tx' = [tx EXCEPT ![Settler].lot = i,
                     ![Settler].at = IF auction[i].winner = NoOne THEN "lot" ELSE "balances",
                     ![Settler].todo = IF auction[i].winner = NoOne THEN <<>>
                                       ELSE <<auction[i].winner, auction[i].seller, Platform>>]
      PROVE  Inv'
  <2> DEFINE step == IF auction[i].winner = NoOne THEN "lot" ELSE "balances"
             line == IF auction[i].winner = NoOne THEN <<>>
                     ELSE <<auction[i].winner, auction[i].seller, Platform>>
             x == [q EXCEPT !.lot = i, !.at = step, !.todo = line]
  <2>1. /\ i \in Auctions /\ i \in q.lots /\ i > q.lot /\ auction[i].status = "CLOSED"
        /\ \A j \in q.lots : j > q.lot => i <= j
    BY <1>1, <1>3 DEF InTurn
  <2>2. line \in Seq(Accounts) /\ step \in SettlerSteps
    <3>1. auction[i].seller \in Accounts
      BY <2>1, AccountFacts DEF Inv, AuctionsFit
    <3>2. auction[i].winner # NoOne => auction[i].winner \in Accounts
      BY <2>1, SettlerTypes, AccountFacts DEF AuctionsType
    <3> QED
      BY <3>1, <3>2, AccountFacts DEF SettlerSteps
  <2>3. /\ x.at = step /\ x.rows = q.rows /\ x.draft = q.draft /\ x.lots = q.lots /\ x.lot = i
        /\ x.listing = q.listing /\ x.todo = line
    BY <1>1 DEF Transactions
  <2>4. x \in Transactions
    BY <1>1, <2>1, <2>2 DEF Transactions
  <2>5. tx' = [tx EXCEPT ![Settler] = x]
    BY <1>1, <1>3
  <2> HIDE DEF x
  <2>6. InTurn(x)
    BY <1>1, <2>1, <2>3 DEF InTurn, SettlerSteps
  <2>7. q.lots \subseteq Int /\ q.lot \in Int /\ i \in Int
    BY <1>1, <2>1, MarketAssumption DEF Auctions
  <2>8. \A j \in q.lots : j < i <=> j <= q.lot
    BY <2>1, <2>7
  <2>9. ASSUME NEW a \in Accounts
        PROVE  \/ Paid(x, a) = Paid(q, a)
               \/ /\ i \notin Paid(q, a) /\ Paid(x, a) = Paid(q, a) \cup {i}
                  /\ Credit(i, a) = 0 /\ Debit(i, a) = 0
    <3>1. i \notin Paid(q, a)
      BY <1>1, <2>1, <2>7
    <3>2. CASE step = "balances" /\ a \in Left(x)
      <4>1. Paid(x, a) = {j \in q.lots : j < i}
        BY <2>3, <2>7, <3>2 DEF Paid
      <4> QED
        BY <1>1, <2>8, <4>1
    <3>3. CASE ~(step = "balances" /\ a \in Left(x))
      <4>1. Paid(x, a) = {j \in q.lots : j < i} \cup {i}
        BY <2>1, <2>3, <2>7, <3>3 DEF Paid
      <4>2. Paid(x, a) = Paid(q, a) \cup {i}
        BY <1>1, <2>8, <4>1
      <4>3. auction[i].winner = NoOne \/ a \notin {auction[i].winner, auction[i].seller, Platform}
        <5>1. CASE auction[i].winner # NoOne
          <6>1. step = "balances" /\ x.todo = <<auction[i].winner, auction[i].seller, Platform>>
            BY <2>3, <5>1
          <6>2. Left(x) = {auction[i].winner, auction[i].seller, Platform}
            BY <6>1, LeftOfThree
          <6> QED
            BY <3>3, <6>1, <6>2
        <5> QED
          BY <5>1
      <4> QED
        BY <2>1, <3>1, <4>2, <4>3, OthersUnpaid
    <3> QED
      BY <3>2, <3>3
  <2> QED
    BY <1>0, <2>1, <2>3, <2>4, <2>5, <2>6, <2>9, SettlerGoesOn
<1> QED
  BY <1>2, <1>3 DEF NextLot

LEMMA Elements ==
  ASSUME NEW x, NEW y
  PROVE  Range(<<x, y>>) = {x, y} /\ Range(<<x>>) = {x} /\ Range(<<>>) = {}
<1>1. /\ DOMAIN <<x, y>> = 1..2 /\ <<x, y>>[1] = x /\ <<x, y>>[2] = y
      /\ DOMAIN <<x>> = 1..1 /\ <<x>>[1] = x
      /\ DOMAIN <<>> = 1..0
  OBVIOUS
<1>2. Range(<<x, y>>) = {x, y}
  BY <1>1 DEF Range
<1>3. Range(<<x>>) = {x}
  BY <1>1 DEF Range
<1>4. Range(<<>>) = {}
  BY <1>1 DEF Range
<1> QED
  BY <1>2, <1>3, <1>4

\* The accounts of a settled auction, one after the other.
LEMMA InTurnRest ==
  ASSUME NEW w \in Users, NEW s \in Users, w # s, NEW todo,
         todo \in {<<w, s, Platform>>, <<s, Platform>>, <<Platform>>}
  PROVE  LET a    == Head(todo)
             rest == Tail(todo)
             all  == Range(todo)
         IN
         /\ a \in Accounts /\ (a = w \/ a = s \/ a = Platform) /\ a \in all
         /\ rest \in Seq(Accounts) /\ Range(rest) = all \ {a}
         /\ Len(todo) > 1 => rest \in {<<s, Platform>>, <<Platform>>}
         /\ ~(Len(todo) > 1) => all = {a}
<1>0. w # Platform /\ s # Platform /\ w \in Accounts /\ s \in Accounts /\ Platform \in Accounts
  BY AccountFacts
<1>1. CASE todo = <<w, s, Platform>>
  <2>1. Head(todo) = w /\ Tail(todo) = <<s, Platform>> /\ Len(todo) = 3
    BY <1>1
  <2>0. <<s, Platform>> \in Seq(Accounts)
    BY <1>0
  <2>2. Range(<<w, s, Platform>>) = {w, s, Platform} /\ Range(<<s, Platform>>) = {s, Platform}
    <3>1. Range(<<w, s, Platform>>) = {w, s, Platform}
      <4>1. /\ DOMAIN <<w, s, Platform>> = 1..3 /\ <<w, s, Platform>>[1] = w
            /\ <<w, s, Platform>>[2] = s /\ <<w, s, Platform>>[3] = Platform
        OBVIOUS
      <4> QED
        BY <4>1 DEF Range
    <3>2. Range(<<s, Platform>>) = {s, Platform}
      BY Elements
    <3> QED
      BY <3>1, <3>2
  <2>3. Range(todo) = {w, s, Platform} /\ Range(Tail(todo)) = {s, Platform}
    BY <1>1, <2>1, <2>2
  <2>4. Head(todo) \in Accounts /\ Tail(todo) \in Seq(Accounts)
    BY <1>0, <2>1, <2>0
  <2>5. Head(todo) \in Range(todo) /\ Range(Tail(todo)) = Range(todo) \ {Head(todo)}
    BY <1>0, <2>1, <2>3
  <2>6. Tail(todo) = <<s, Platform>>
    BY <2>1
  <2> QED
    BY <2>1, <2>4, <2>5, <2>6
<1>2. CASE todo = <<s, Platform>>
  <2>1. Head(todo) = s /\ Tail(todo) = <<Platform>> /\ Len(todo) = 2
    BY <1>2
  <2>0. <<Platform>> \in Seq(Accounts)
    BY <1>0
  <2>2. Range(<<s, Platform>>) = {s, Platform} /\ Range(<<Platform>>) = {Platform}
    <3>1. Range(<<s, Platform>>) = {s, Platform}
      BY Elements
    <3>2. Range(<<Platform>>) = {Platform}
      BY Elements
    <3> QED
      BY <3>1, <3>2
  <2>3. Range(todo) = {s, Platform} /\ Range(Tail(todo)) = {Platform}
    BY <1>2, <2>1, <2>2
  <2>4. Head(todo) \in Accounts /\ Tail(todo) \in Seq(Accounts)
    BY <1>0, <2>1, <2>0
  <2>5. Head(todo) \in Range(todo) /\ Range(Tail(todo)) = Range(todo) \ {Head(todo)}
    BY <1>0, <2>1, <2>3
  <2>6. Tail(todo) = <<Platform>>
    BY <2>1
  <2> QED
    BY <2>1, <2>4, <2>5, <2>6
<1>3. CASE todo = <<Platform>>
  <2>1. Head(todo) = Platform /\ Tail(todo) = <<>> /\ Len(todo) = 1
    BY <1>3
  <2>0. <<>> \in Seq(Accounts)
    BY <1>0
  <2>2. Range(<<Platform>>) = {Platform} /\ Range(<<>>) = {}
    <3>1. Range(<<Platform>>) = {Platform}
      BY Elements
    <3>2. Range(<<>>) = {}
      BY Elements
    <3> QED
      BY <3>1, <3>2
  <2>3. Range(todo) = {Platform} /\ Range(Tail(todo)) = {}
    BY <1>3, <2>1, <2>2
  <2>4. Head(todo) \in Accounts /\ Tail(todo) \in Seq(Accounts)
    BY <1>0, <2>1, <2>0
  <2>5. Head(todo) \in Range(todo) /\ Range(Tail(todo)) = Range(todo) \ {Head(todo)}
    BY <1>0, <2>1, <2>3
  <2>6. Range(todo) = {Head(todo)}
    BY <2>1, <2>3
  <2> QED
    BY <2>1, <2>4, <2>5, <2>6
<1> QED
  BY <1>1, <1>2, <1>3

\* Whose turn it is, and who is then left.
LEMMA SettleTurn ==
  ASSUME Inv, tx[Settler].at = "balances"
  PROVE  LET q    == tx[Settler]
             a    == Head(q.todo)
             rest == Tail(q.todo)
             w    == auction[q.lot].winner
             s    == auction[q.lot].seller
         IN
         /\ q.lot \in q.lots /\ q.lot \in Auctions
         /\ w \in Users /\ s \in Users /\ w # s /\ w # Platform /\ s # Platform
         /\ a \in Accounts /\ (a = w \/ a = s \/ a = Platform) /\ a \in Left(q)
         /\ rest \in Seq(Accounts) /\ Range(rest) = Left(q) \ {a}
         /\ Len(q.todo) > 1 => rest \in {<<s, Platform>>, <<Platform>>}
         /\ ~(Len(q.todo) > 1) => Left(q) = {a}
<1> DEFINE q == tx[Settler]
           w == auction[q.lot].winner
           s == auction[q.lot].seller
<1>1. /\ q.lot \in q.lots /\ w # NoOne /\ auction[q.lot].status = "CLOSED"
      /\ q.todo \in {<<w, s, Platform>>, <<s, Platform>>, <<Platform>>}
  BY SettlerTypes DEF SettlementFits, InTurn
<1>2. q.lot \in Auctions
  BY <1>1, SettlerTypes
<1>3. w \in Users /\ s \in Users /\ w # s
  BY <1>1, <1>2, SettlerTypes DEF Inv, AuctionsFit, AuctionsType
<1>4. w # Platform /\ s # Platform /\ w \in Accounts /\ s \in Accounts /\ Platform \in Accounts
  BY <1>3, AccountFacts
<1> HIDE DEF w, s
<1>5. PICK todo : todo = q.todo
  OBVIOUS
<1>6. LET a    == Head(todo)
          rest == Tail(todo)
      IN
      /\ a \in Accounts /\ (a = w \/ a = s \/ a = Platform) /\ a \in Left(q)
      /\ rest \in Seq(Accounts) /\ Range(rest) = Left(q) \ {a}
      /\ Len(todo) > 1 => rest \in {<<s, Platform>>, <<Platform>>}
      /\ ~(Len(todo) > 1) => Left(q) = {a}
  <2>1. Left(q) = Range(todo)
    BY <1>5 DEF Left
  <2> HIDE DEF q
  <2> QED
    BY <1>1, <1>3, <1>5, <2>1, InTurnRest DEF q
<1> QED
  BY <1>1, <1>2, <1>3, <1>4, <1>5, <1>6 DEF w, s

\* One more balance is drafted with what the lot moves on it.
LEMMA SettleWrites ==
  ASSUME Inv, tx[Settler].at = "balances", NEW a \in Accounts, NEW b \in Amounts,
         a = Head(tx[Settler].todo), BalanceFree(Settler, a), WriteBalance(Settler, a, b),
         b.available = Funds(tx[Settler], a).available + Credit(tx[Settler].lot, a),
         b.held = Funds(tx[Settler], a).held - Debit(tx[Settler].lot, a),
         UNCHANGED <<stock, books, cached>>
  PROVE  Inv'
<1> DEFINE q == tx[Settler]
<1>1. /\ q \in Transactions /\ Settler \in Procs /\ tx \in [Procs -> Transactions]
      /\ SettlementFits(q) /\ InTurn(q) /\ AuctionsType
      /\ q.lots \subseteq Auctions /\ q.rows \subseteq Accounts
      /\ q.draft \in [Accounts -> Amounts]
  BY SettlerTypes DEF SettlementFits, Transactions
<1>2. /\ q.lot \in q.lots /\ q.lot \in Auctions /\ a \in Left(q)
      /\ Tail(q.todo) \in Seq(Accounts) /\ Range(Tail(q.todo)) = Left(q) \ {a}
      /\ Len(q.todo) > 1 => Tail(q.todo) \in {<<auction[q.lot].seller, Platform>>, <<Platform>>}
      /\ ~(Len(q.todo) > 1) => Left(q) = {a}
  BY SettleTurn
<1>3. PICK x \in Transactions :
        /\ tx' = [tx EXCEPT ![Settler] = x]
        /\ x.user = q.user /\ x.listing = q.listing /\ x.key = q.key
        /\ x.rows = q.rows \cup {a} /\ x.todo = Tail(q.todo)
        /\ x.draft = [q.draft EXCEPT ![a] = b]
        /\ x.lots = q.lots /\ x.lot = q.lot
        /\ x.at = IF Len(q.todo) > 1 THEN q.at ELSE IF Settler = Settler THEN "lot" ELSE "commit"
  <2>1. /\ Settler \in Procs /\ tx \in [Procs -> Transactions] /\ a \in Accounts /\ b \in Amounts
        /\ Tail(tx[Settler].todo) \in Seq(Accounts) /\ WriteBalance(Settler, a, b)
    BY <1>1, <1>2
  <2> QED
    BY <2>1, WriteFacts
<1>4. x.at = IF Len(q.todo) > 1 THEN "balances" ELSE "lot"
  BY <1>3
<1>5. InTurn(x)
  BY <1>1, <1>2, <1>3, <1>4 DEF InTurn, SettlerSteps
<1>6. \A c : (x.at = "balances" => c \notin Left(x)) <=> (c = a \/ c \notin Left(q))
  BY <1>2, <1>3, <1>4 DEF Left
<1>7. q.lots \subseteq Int /\ q.lot \in Int
  BY <1>1, <1>2, MarketAssumption DEF Auctions
<1>8. ASSUME NEW c \in Accounts
      PROVE  /\ Funds(x, c).available = balance[c].available + CreditOf(Paid(x, c), c)
             /\ Funds(x, c).held = balance[c].held - DebitOf(Paid(x, c), c)
  <2>1. /\ Funds(q, c).available = balance[c].available + CreditOf(Paid(q, c), c)
        /\ Funds(q, c).held = balance[c].held - DebitOf(Paid(q, c), c)
    BY <1>1 DEF SettlementFits, Adds
  <2>2. CASE c = a
    <3> DEFINE S == Paid(q, a)
    <3>1. q.lot \notin S
      BY <1>2, <1>7 DEF Paid
    <3>2. Paid(x, a) = S \cup {q.lot}
      BY <1>2, <1>3, <1>6, <1>7 DEF Paid
    <3>3. Funds(x, a) = b
      BY <1>1, <1>3 DEF Funds
    <3>4. CreditOf(S, a) \in Int /\ DebitOf(S, a) \in Int
          /\ Credit(q.lot, a) \in Int /\ Debit(q.lot, a) \in Int
      <4>1. PICK i \in Auctions : i = q.lot
        BY <1>2
      <4>2. Credit(i, a) \in Nat /\ Debit(i, a) \in Nat
        BY <1>1, PaymentsType
      <4>3. CreditOf(S, a) \in Int /\ DebitOf(S, a) \in Int
        <5> HIDE DEF S
        <5> QED
          BY <1>1, PaymentsType
      <4> QED
        BY <4>1, <4>2, <4>3
    <3>5. /\ CreditOf(S \cup {q.lot}, a) = CreditOf(S, a) + Credit(q.lot, a)
          /\ DebitOf(S \cup {q.lot}, a) = DebitOf(S, a) + Debit(q.lot, a)
      <4>1. PICK i \in Auctions : i = q.lot
        BY <1>2
      <4> HIDE DEF S
      <4>2. /\ CreditOf(S \cup {i}, a) = CreditOf(S, a) + Credit(i, a)
            /\ DebitOf(S \cup {i}, a) = DebitOf(S, a) + Debit(i, a)
        BY <1>1, <3>1, <4>1, PaidMore
      <4> QED
        BY <4>1, <4>2
    <3>6. balance[a].available \in Int /\ balance[a].held \in Int
      BY SettlerTypes
    <3> HIDE DEF S
    <3>7. /\ CreditOf(Paid(x, a), a) = CreditOf(S, a) + Credit(q.lot, a)
          /\ DebitOf(Paid(x, a), a) = DebitOf(S, a) + Debit(q.lot, a)
      BY <3>2, <3>5
    <3>8. /\ Funds(q, a).available = balance[a].available + CreditOf(S, a)
          /\ Funds(q, a).held = balance[a].held - DebitOf(S, a)
      BY <2>1, <2>2 DEF S
    <3>9. /\ b.available = balance[a].available + CreditOf(Paid(x, a), a)
          /\ b.held = balance[a].held - DebitOf(Paid(x, a), a)
      BY <3>4, <3>6, <3>7, <3>8
    <3> QED
      BY <2>2, <3>3, <3>9
  <2>3. CASE c # a
    <3>1. Paid(x, c) = Paid(q, c)
      BY <1>2, <1>3, <1>6, <2>3 DEF Paid, InTurn
    <3>2. Funds(x, c) = Funds(q, c)
      BY <1>1, <1>3, <2>3 DEF Funds
    <3> QED
      BY <2>1, <3>1, <3>2
  <2> QED
    BY <2>2, <2>3
<1>9. SettlementFits(x)
  BY <1>5, <1>8 DEF SettlementFits, Adds
<1>10. \A r \in Procs \ {Settler} : x.rows \cap tx[r].rows = {}
  BY <1>1, <1>3 DEF Inv, ProcsFit, Apart, BalanceFree
<1>11. x.listing = 0
  BY <1>5 DEF InTurn
<1>12. \A r \in Procs \ {Settler} : Apart(tx[r], x)
  BY <1>10, <1>11, SettlerApart
<1> QED
  BY <1>1, <1>3, <1>9, <1>12, LocalStep

LEMMA SettleBalanceKeeps ==
  ASSUME Inv, SettleBalance
  PROVE  Inv'
<1> DEFINE q == tx[Settler]
           a == Head(q.todo)
           i == q.lot
           g == auction[i].gross
           fee == AuctionFee(g)
           w == auction[i].winner
           s == auction[i].seller
           b == ReadBalance(Settler, a)
<1>1. /\ q.at = "balances" /\ BalanceFree(Settler, a) /\ UNCHANGED <<stock, books, cached>>
      /\ WriteBalance(Settler, a,
           CASE a = w -> [b EXCEPT !.held = @ - g]
             [] a = s -> [b EXCEPT !.available = @ + g - fee]
             [] a = Platform -> [b EXCEPT !.available = @ + fee])
  BY DEF SettleBalance
<1>2. /\ i \in Auctions /\ w # s /\ w # Platform /\ s # Platform
      /\ a \in Accounts /\ (a = w \/ a = s \/ a = Platform)
  BY <1>1, SettleTurn
<1>3. g \in Nat /\ fee \in Nat
  <2>1. g \in Nat
    BY <1>2, SettlerTypes DEF AuctionsType
  <2> QED
    BY <2>1, AuctionFeeBound
<1>4. b = Funds(q, a) /\ b \in Amounts /\ b.available \in Int /\ b.held \in Int
  BY <1>2, SettlerTypes DEF ReadBalance, Funds, Transactions, Inv, TypeOK, Amounts
<1> HIDE DEF b, fee, g
<1>5. ASSUME NEW c \in Amounts, WriteBalance(Settler, a, c),
             c.available = b.available + Credit(i, a), c.held = b.held - Debit(i, a)
      PROVE  Inv'
  BY <1>1, <1>2, <1>4, <1>5, SettleWrites
<1>6. CASE a = w
  <2> DEFINE c == [b EXCEPT !.held = @ - g]
  <2>1. WriteBalance(Settler, a, c)
    BY <1>1, <1>2, <1>6
  <2>2. Credit(i, a) = 0 /\ Debit(i, a) = g
    BY <1>2, <1>6 DEF Credit, Debit, g
  <2>3. c \in Amounts /\ c.available = b.available + Credit(i, a) /\ c.held = b.held - Debit(i, a)
    BY <1>3, <1>4, <2>2 DEF Amounts
  <2> HIDE DEF c
  <2> QED
    BY <1>5, <2>1, <2>3
<1>7. CASE a = s
  <2> DEFINE c == [b EXCEPT !.available = @ + g - fee]
  <2>1. WriteBalance(Settler, a, c)
    BY <1>1, <1>2, <1>7
  <2>2. Credit(i, a) = g - fee /\ Debit(i, a) = 0
    BY <1>2, <1>3, <1>7 DEF Credit, Debit, g, fee
  <2>3. c \in Amounts /\ c.available = b.available + Credit(i, a) /\ c.held = b.held - Debit(i, a)
    BY <1>3, <1>4, <2>2 DEF Amounts
  <2> HIDE DEF c
  <2> QED
    BY <1>5, <2>1, <2>3
<1>8. CASE a = Platform
  <2> DEFINE c == [b EXCEPT !.available = @ + fee]
  <2>1. WriteBalance(Settler, a, c)
    BY <1>1, <1>2, <1>8
  <2>2. Credit(i, a) = fee /\ Debit(i, a) = 0
    BY <1>2, <1>3, <1>8 DEF Credit, Debit, g, fee
  <2>3. c \in Amounts /\ c.available = b.available + Credit(i, a) /\ c.held = b.held - Debit(i, a)
    BY <1>3, <1>4, <2>2 DEF Amounts
  <2> HIDE DEF c
  <2> QED
    BY <1>5, <2>1, <2>3
<1> QED
  BY <1>2, <1>6, <1>7, <1>8

-----------------------------------------------------------------------------
(* Commits *)

\* What a closed lot held and what it is worth when it is settled, account by account.
LEMMA LotsPaid ==
  ASSUME AuctionsType, NEW S \in SUBSET Auctions, NEW a \in Accounts,
         \A i \in S : auction[i].status = "CLOSED",
         \A i \in Auctions : auction'[i] = IF i \in S THEN Settled(i) ELSE auction[i]
  PROVE  /\ Total(Holds(a), MaxAuctions) = Total(Holds(a)', MaxAuctions) + DebitOf(S, a)
         /\ Total(Settles(a)', MaxAuctions)
              = Total(Settles(a), MaxAuctions) + (CreditOf(S, a) - DebitOf(S, a))
         /\ Total(Holds(a)', MaxAuctions) \in Int /\ Total(Settles(a)', MaxAuctions) \in Int
         /\ CreditOf(S, a) >= 0
<1> DEFINE D == [i \in Auctions |-> IF i \in S THEN Debit(i, a) ELSE 0]
           C == [i \in Auctions |-> IF i \in S THEN Credit(i, a) ELSE 0]
           L == [i \in Auctions |-> IF i \in S THEN LotShare(i, a) ELSE 0]
<1>0. MaxAuctions \in Nat
  BY MarketAssumption
<1>1. ASSUME NEW i \in Auctions
      PROVE  /\ auction[i].gross \in Nat /\ AuctionFee(auction[i].gross) \in Nat
             /\ Credit(i, a) \in Nat /\ Debit(i, a) \in Nat /\ LotShare(i, a) \in Int
             /\ LotShare(i, a) = Credit(i, a) - Debit(i, a)
  <2>1. auction[i].gross \in Nat
    BY DEF AuctionsType
  <2>2. AuctionFee(auction[i].gross) \in Nat
    BY <2>1, AuctionFeeBound
  <2>3. Credit(i, a) \in Nat /\ Debit(i, a) \in Nat
    BY PaymentsType
  <2>4. LotShare(i, a) = Credit(i, a) - Debit(i, a)
    BY <2>1, <2>2 DEF LotShare, Credit, Debit
  <2> QED
    BY <2>1, <2>2, <2>3, <2>4
<1>2. ASSUME NEW i \in Auctions
      PROVE  auction'[i] = IF i \in S THEN [auction[i] EXCEPT !.status = "SETTLED"] ELSE auction[i]
  BY DEF Settled
<1>3. ASSUME NEW i \in Auctions
      PROVE  /\ Holds(a)[i] \in Int /\ Holds(a)'[i] \in Int
             /\ Holds(a)[i] = Holds(a)'[i] + D[i]
             /\ Settles(a)[i] \in Int /\ Settles(a)'[i] \in Int
             /\ Settles(a)'[i] = Settles(a)[i] + L[i]
             /\ D[i] \in Nat /\ C[i] \in Nat /\ L[i] \in Int /\ C[i] = L[i] + D[i]
  <2>1. D[i] \in Nat /\ C[i] \in Nat /\ L[i] \in Int /\ C[i] = L[i] + D[i]
    BY <1>1
  <2>2. CASE i \in S
    <3>1. /\ auction'[i].status = "SETTLED" /\ auction[i].status = "CLOSED"
          /\ auction'[i].winner = auction[i].winner /\ auction'[i].gross = auction[i].gross
          /\ auction'[i].seller = auction[i].seller
      BY <1>2, <2>2 DEF AuctionsType
    <3>2. Holds(a)[i] = Debit(i, a) /\ Holds(a)'[i] = 0
      BY <3>1 DEF Holds, Debit
    <3>3. Settles(a)[i] = 0 /\ Settles(a)'[i] = LotShare(i, a)
      BY <3>1 DEF Settles, LotShare
    <3> QED
      BY <1>1, <2>1, <2>2, <3>2, <3>3
  <2>3. CASE i \notin S
    <3>1. auction'[i] = auction[i]
      BY <1>2, <2>3
    <3>2. Holds(a)'[i] = Holds(a)[i] /\ Settles(a)'[i] = Settles(a)[i]
      BY <3>1 DEF Holds, Settles, LotShare
    <3>3. Holds(a)[i] \in Int /\ Settles(a)[i] \in Int
      BY <1>1 DEF Holds, Settles
    <3> QED
      BY <1>1, <2>1, <2>3, <3>2, <3>3
  <2> QED
    BY <2>2, <2>3
<1>4. PICK h, k, s, z : h = Holds(a) /\ k = Holds(a)' /\ s = Settles(a) /\ z = Settles(a)'
  OBVIOUS
<1>5. /\ \A i \in 1..MaxAuctions : k[i] \in Int /\ D[i] \in Int /\ h[i] = k[i] + D[i]
      /\ \A i \in 1..MaxAuctions : s[i] \in Int /\ L[i] \in Int /\ z[i] = s[i] + L[i]
      /\ \A i \in 1..MaxAuctions : L[i] \in Int /\ D[i] \in Int /\ C[i] = L[i] + D[i]
      /\ \A i \in 1..MaxAuctions : C[i] \in Int /\ C[i] >= 0
      /\ \A i \in 1..MaxAuctions : z[i] \in Int
  <2> HIDE DEF C, D, L
  <2> QED
    BY <1>3, <1>4 DEF Auctions
<1>6. CreditOf(S, a) = Total(C, MaxAuctions) /\ DebitOf(S, a) = Total(D, MaxAuctions)
  BY DEF CreditOf, DebitOf
<1> HIDE DEF C, D, L
<1>7. Total(h, MaxAuctions) = Total(k, MaxAuctions) + Total(D, MaxAuctions)
  BY <1>0, <1>5, TotalAdd
<1>8. Total(z, MaxAuctions) = Total(s, MaxAuctions) + Total(L, MaxAuctions)
  BY <1>0, <1>5, TotalAdd
<1>9. Total(C, MaxAuctions) = Total(L, MaxAuctions) + Total(D, MaxAuctions)
  BY <1>0, <1>5, TotalAdd
<1>10. /\ Total(k, MaxAuctions) \in Int /\ Total(z, MaxAuctions) \in Int
       /\ Total(D, MaxAuctions) \in Int /\ Total(L, MaxAuctions) \in Int
       /\ Total(s, MaxAuctions) \in Int
       /\ Total(C, MaxAuctions) >= 0
  BY <1>0, <1>5, TotalType
<1> QED
  BY <1>4, <1>6, <1>7, <1>8, <1>9, <1>10

LEMMA SettlementCommitsKeeps ==
  ASSUME Inv, SettlementCommits
  PROVE  Inv'
<1> DEFINE q == tx[Settler]
           lots == q.lots
           Lot(c) == CHOOSE i \in lots : auction[i].card = c
<1>1. /\ q.at = "commit" /\ balance' = Written(Settler)
      /\ auction' = [i \in Auctions |-> IF i \in lots THEN Settled(i) ELSE auction[i]]
      /\ card' = [c \in Cards |->
           IF \A i \in lots : auction[i].card # c THEN card[c]
           ELSE IF auction[Lot(c)].winner = NoOne THEN [card[c] EXCEPT !.state = "NONE"]
           ELSE [card[c] EXCEPT !.state = "NONE", !.owner = auction[Lot(c)].winner,
                                !.acquired = auction[Lot(c)].gross]]
      /\ tx' = [tx EXCEPT ![Settler] = Idle]
      /\ listing' = listing /\ trades' = trades /\ cached' = cached
  BY DEF SettlementCommits
<1>0. /\ q.at = "commit" /\ tx' = [tx EXCEPT ![Settler] = Idle]
      /\ listing' = listing /\ trades' = trades /\ cached' = cached
  BY <1>1
<1>2. TypeOK /\ AuctionsType
  BY DEF Inv, TypeOK
<1>3. /\ lots \subseteq Auctions /\ q.rows \subseteq Accounts /\ InTurn(q)
      /\ q.draft \in [Accounts -> Amounts] /\ SettlementFits(q)
  BY SettlerTypes DEF SettlementFits, Transactions
<1>4. \A i \in lots : auction[i].status = "CLOSED" /\ Open(i)
  BY <1>3 DEF InTurn, Open
<1>5. ASSUME NEW i \in Auctions
      PROVE  /\ i \in lots => auction'[i] = [auction[i] EXCEPT !.status = "SETTLED"]
             /\ i \notin lots => auction'[i] = auction[i]
             /\ auction'[i].card = auction[i].card /\ auction'[i].seller = auction[i].seller
             /\ auction'[i].winner = auction[i].winner /\ auction'[i].gross = auction[i].gross
             /\ auction'[i].status = IF i \in lots THEN "SETTLED" ELSE auction[i].status
  BY <1>1, <1>2 DEF Settled, AuctionsType
<1>6. AuctionsType'
  BY <1>1, <1>2 DEF Settled, AuctionsType
<1>7. balance' \in [Accounts -> Amounts]
      /\ \A a \in Accounts : balance'[a] = Funds(q, a)
  BY <1>1, <1>2, <1>3 DEF Written, Funds, TypeOK
<1>8. ASSUME NEW c \in Cards
      PROVE  /\ card'[c] \in [owner : Users, acquired : Nat, value : Nat,
                              state : {"NONE", "LISTED", "IN_AUCTION"}]
             /\ (\A i \in lots : auction[i].card # c) => card'[c] = card[c]
             /\ (\E i \in lots : auction[i].card = c) => card'[c].state = "NONE"
  <2>1. card[c] \in [owner : Users, acquired : Nat, value : Nat,
                     state : {"NONE", "LISTED", "IN_AUCTION"}]
    BY <1>2 DEF TypeOK
  <2>2. CASE \A i \in lots : auction[i].card # c
    BY <1>1, <2>1, <2>2
  <2>3. CASE \E i \in lots : auction[i].card = c
    <3>1. Lot(c) \in lots
      BY <2>3
    <3>2. auction[Lot(c)].winner \in Users \cup {NoOne} /\ auction[Lot(c)].gross \in Nat
      BY <1>2, <1>3, <3>1 DEF AuctionsType
    <3>3. PICK i : i = Lot(c)
      OBVIOUS
    <3>4. card'[c] = IF auction[i].winner = NoOne THEN [card[c] EXCEPT !.state = "NONE"]
                     ELSE [card[c] EXCEPT !.state = "NONE", !.owner = auction[i].winner,
                                          !.acquired = auction[i].gross]
      BY <1>1, <2>3, <3>3
    <3>5. CASE auction[i].winner = NoOne
      BY <2>1, <2>3, <3>4, <3>5
    <3>6. CASE auction[i].winner # NoOne
      BY <2>1, <2>3, <3>2, <3>3, <3>4, <3>6
    <3> QED
      BY <3>5, <3>6
  <2> QED
    BY <2>2, <2>3
<1>9. TypeOK'
  <2>1. card' \in [Cards -> [owner : Users, acquired : Nat, value : Nat,
                             state : {"NONE", "LISTED", "IN_AUCTION"}]]
    BY <1>1, <1>8
  <2>2. tx' \in [Procs -> Transactions]
    BY <1>1, <1>2, IdleFacts DEF TypeOK
  <2> QED
    BY <1>0, <1>2, <1>6, <1>7, <2>1, <2>2 DEF TypeOK
<1>10. ListingsFit'
  <2>1. \A m \in Listings : listing[m].status = "ACTIVE" =>
          listing[m].card \in Cards /\ card'[listing[m].card] = card[listing[m].card]
    <3> TAKE m \in Listings
    <3> HAVE listing[m].status = "ACTIVE"
    <3>1. listing[m].card \in Cards /\ card[listing[m].card].state = "LISTED"
      BY DEF Inv, ListingsFit
    <3>2. \A i \in lots : auction[i].card # listing[m].card
      BY <1>3, <1>4, <3>1 DEF Inv, AuctionsFit
    <3> QED
      BY <1>8, <3>1, <3>2
  <2>2. \A d \in Cards : card'[d].state = "LISTED" => card[d].state = "LISTED"
    BY <1>8
  <2> QED
    BY <1>0, <2>1, <2>2 DEF Inv, ListingsFit
<1>11. AuctionsFit'
  <2>1. \A j \in Auctions : Open(j)' <=> Open(j) /\ j \notin lots
    BY <1>5 DEF Open
  <2>2. \A j \in Auctions :
          /\ auction'[j].status # "NONE" => auction'[j].card \in Cards /\ auction'[j].seller \in Users
          /\ auction'[j].status \in {"NONE", "LIVE"} => auction'[j].winner = NoOne
          /\ auction'[j].winner = NoOne => auction'[j].gross = 0
          /\ auction'[j].winner # NoOne => auction'[j].winner # auction'[j].seller
          /\ auction'[j].status = "NONE" => auction'[j].card = NoOne
    <3> TAKE j \in Auctions
    <3>1. /\ auction[j].status # "NONE" => auction[j].card \in Cards /\ auction[j].seller \in Users
          /\ auction[j].status \in {"NONE", "LIVE"} => auction[j].winner = NoOne
          /\ auction[j].winner = NoOne => auction[j].gross = 0
          /\ auction[j].winner # NoOne => auction[j].winner # auction[j].seller
          /\ auction[j].status = "NONE" => auction[j].card = NoOne
      BY DEF Inv, AuctionsFit
    <3>2. CASE j \in lots
      BY <1>4, <1>5, <3>1, <3>2
    <3>3. CASE j \notin lots
      BY <1>5, <3>1, <3>3
    <3> QED
      BY <3>2, <3>3
  <2>3. \A j \in Auctions : Open(j)' =>
          auction[j].card \in Cards /\ card'[auction[j].card] = card[auction[j].card]
    <3> TAKE j \in Auctions
    <3> HAVE Open(j)'
    <3>1. Open(j) /\ j \notin lots /\ auction[j].card \in Cards
      BY <2>1 DEF Inv, AuctionsFit, Open
    <3>2. \A i \in lots : auction[i].card # auction[j].card
      BY <1>3, <1>4, <3>1 DEF Inv, AuctionsFit
    <3> QED
      BY <1>8, <3>1, <3>2
  <2>4. \A j \in Auctions : Open(j)' =>
          /\ card'[auction'[j].card].state = "IN_AUCTION"
          /\ card'[auction'[j].card].owner = auction'[j].seller
    <3> TAKE j \in Auctions
    <3> HAVE Open(j)'
    <3>1. Open(j) /\ card'[auction[j].card] = card[auction[j].card]
      BY <2>1, <2>3
    <3>2. auction'[j].card = auction[j].card /\ auction'[j].seller = auction[j].seller
      BY <1>5
    <3>3. card[auction[j].card].state = "IN_AUCTION" /\ card[auction[j].card].owner = auction[j].seller
      BY <3>1 DEF Inv, AuctionsFit
    <3> QED
      BY <3>1, <3>2, <3>3
  <2>5. \A j, n \in Auctions : Open(j)' /\ Open(n)' /\ auction'[j].card = auction'[n].card => j = n
    <3> TAKE j, n \in Auctions
    <3>1. auction'[j].card = auction[j].card /\ auction'[n].card = auction[n].card
      BY <1>5
    <3>2. (Open(j)' => Open(j)) /\ (Open(n)' => Open(n))
      BY <2>1
    <3>3. Open(j) /\ Open(n) /\ auction[j].card = auction[n].card => j = n
      BY DEF Inv, AuctionsFit
    <3> QED
      BY <3>1, <3>2, <3>3
  <2>6. \A d \in Cards : card'[d].state = "IN_AUCTION" =>
          \E j \in Auctions : Open(j)' /\ auction'[j].card = d
    <3> TAKE d \in Cards
    <3> HAVE card'[d].state = "IN_AUCTION"
    <3>1. (\A i \in lots : auction[i].card # d) /\ card[d].state = "IN_AUCTION"
      BY <1>8
    <3>2. PICK j \in Auctions : Open(j) /\ auction[j].card = d
      BY <3>1 DEF Inv, AuctionsFit
    <3> QED
      BY <1>5, <2>1, <3>1, <3>2
  <2> QED
    BY <2>2, <2>4, <2>5, <2>6 DEF AuctionsFit
<1>12. TradesFit' /\ CacheFits'
  BY <1>0 DEF Inv, TradesFit, CacheFits, Booked
<1>13. ASSUME NEW a \in Accounts PROVE Balanced(a)'
  <2>1. Balanced(a) /\ balance[a].available \in Int /\ balance[a].held \in Int
    BY SettlerTypes DEF Inv
  <2>2. Paid(q, a) = lots
    <3>1. \A i \in lots : i <= q.lot
      BY <1>0, <1>3 DEF InTurn
    <3>2. q.lot \in Auctions \cup {0}
      BY SettlerTypes DEF Transactions
    <3>3. lots \subseteq Int /\ q.lot \in Int
      BY <1>3, <3>2, MarketAssumption DEF Auctions
    <3>4. \A i \in lots : i < q.lot \/ i = q.lot
      BY <3>1, <3>3
    <3> QED
      BY <1>0, <3>4 DEF Paid
  <2>3. /\ balance'[a].available = balance[a].available + CreditOf(lots, a)
        /\ balance'[a].held = balance[a].held - DebitOf(lots, a)
    BY <1>3, <1>7, <2>2 DEF SettlementFits, Adds
  <2>4. PICK S \in SUBSET Auctions : S = lots
    BY <1>3
  <2>5. \A i \in Auctions : auction'[i] = IF i \in S THEN Settled(i) ELSE auction[i]
    BY <1>1, <2>4
  <2>6. /\ Total(Holds(a), MaxAuctions) = Total(Holds(a)', MaxAuctions) + DebitOf(S, a)
        /\ Total(Settles(a)', MaxAuctions)
             = Total(Settles(a), MaxAuctions) + (CreditOf(S, a) - DebitOf(S, a))
        /\ Total(Holds(a)', MaxAuctions) \in Int /\ Total(Settles(a)', MaxAuctions) \in Int
        /\ CreditOf(S, a) >= 0
    BY <1>2, <1>4, <2>4, <2>5, LotsPaid
  <2>7. CreditOf(S, a) \in Int /\ DebitOf(S, a) \in Int
    BY <1>2, PaymentsType
  <2>8. Deals(a)' = Deals(a)
    BY <1>0 DEF Deals
  <2>9. /\ balance'[a].available = balance[a].available + CreditOf(S, a)
        /\ balance'[a].held = balance[a].held - DebitOf(S, a)
    BY <2>3, <2>4
  <2>10. Total(Settles(a), MaxAuctions) \in Int /\ SumFunction(Deals(a)) \in Int
         /\ StartingFunds[a] \in Int
    <3>1. SumFunction(Deals(a)) \in Int
      BY <1>2, DealsType DEF TypeOK
    <3> QED
      BY <1>2, <3>1, BooksType, MarketAssumption
  <2>11. /\ balance'[a].available >= 0
         /\ balance'[a].held = Total(Holds(a)', MaxAuctions)
         /\ balance'[a].available + balance'[a].held
              = StartingFunds[a] + SumFunction(Deals(a)) + Total(Settles(a)', MaxAuctions)
    BY <2>1, <2>6, <2>7, <2>9, <2>10 DEF Balanced
  <2>12. Total(Holds(a), MaxAuctions)' = Total(Holds(a)', MaxAuctions)
         /\ Total(Settles(a), MaxAuctions)' = Total(Settles(a)', MaxAuctions)
         /\ SumFunction(Deals(a))' = SumFunction(Deals(a))
    BY <2>8
  <2> QED
    BY <2>11, <2>12 DEF Balanced
<1>14. ProcsFit'
  <2>1. \A r \in Procs \ {Settler} : \A a \in tx[r].rows : balance'[a] = balance[a]
    <3> TAKE r \in Procs \ {Settler}
    <3> TAKE a \in tx[r].rows
    <3>1. a \in Accounts
      BY HeldRows
    <3>2. a \notin q.rows
      BY SettlerTypes DEF Inv, ProcsFit, Apart
    <3> QED
      BY <1>7, <3>1, <3>2 DEF Funds
  <2>2. PICK x : x = Idle
    OBVIOUS
  <2>3. x \in Transactions /\ SettlementFits(x) /\ \A r : Apart(r, x)
    BY <2>2, IdleFits
  <2>4. x.lots = {} /\ x.rows = {}
    BY <2>2, IdleFacts
  <2>5. SettlementFits(x)'
    BY <1>2, <1>7, <2>3, <2>4, SettlementStays DEF TypeOK
  <2> QED
    BY <1>0, <1>9, <2>1, <2>2, <2>3, <2>5, SettlerTypes, ProcsStep
<1> QED
  BY <1>9, <1>10, <1>11, <1>12, <1>13, <1>14 DEF Inv

LEMMA BuyCommitsKeeps ==
  ASSUME Inv, NEW r \in Requests, BuyCommits(r)
  PROVE  Inv'
<1> DEFINE q == tx[r]
           l == q.listing
           u == q.user
           s == listing[l].seller
           c == listing[l].card
           price == listing[l].price
           fee == TradeFee(price)
           t == [listing |-> l, buyer |-> u, key |-> q.key, seller |-> s, gross |-> price,
                 fee |-> fee]
<1>1. q.at = "commit" /\ Holding(q) /\ auction' = auction /\ cached' = cached
  BY DEF BuyCommits, Holding
<1>2. /\ l \in Listings /\ u \in Users /\ q.key \in Keys
      /\ listing[l].status = "ACTIVE" /\ s \in Users /\ c \in Cards /\ price \in Nat
      /\ s # u /\ u \in Accounts /\ s \in Accounts /\ Platform \in Accounts
      /\ u # Platform /\ s # Platform
  BY <1>1, HoldingFacts
<1>3. CASE ~KeyIsFree(r) /\ Abort(r) /\ UNCHANGED <<balance, card, listing, trades>>
  <2>1. UNCHANGED <<stock, books, cached>> /\ q.at # "idle"
    BY <1>1, <1>3 DEF stock, books
  <2> QED
    BY <1>3, <2>1, RequestAborts
<1>4. CASE /\ KeyIsFree(r)
           /\ balance' = Written(r)
           /\ card' = [card EXCEPT ![c] = Sold(c, u, price)]
           /\ listing' = [listing EXCEPT ![l].status = "SOLD"]
           /\ trades' = trades \cup {t}
           /\ tx' = [tx EXCEPT ![r] = Request(r, "cache")]
  <2>1. TypeOK /\ AuctionsType /\ q \in Transactions /\ PurchaseFits(q) /\ r \in Procs
        /\ tx \in [Procs -> Transactions] /\ r # Settler
    BY RequestTypes DEF Inv, TypeOK
  <2>2. fee \in Nat /\ fee <= price
    BY <1>2, TradeFeeBound
  <2>3. t \in Trades /\ t \notin trades
    <3>1. t \in Trades
      BY <1>2, <2>2 DEF Trades
    <3>2. t.listing = l
      OBVIOUS
    <3>3. \A v \in trades : listing[v.listing].status = "SOLD"
      BY DEF Inv, TradesFit
    <3> QED
      BY <1>2, <3>1, <3>2, <3>3
  <2>4. /\ \A m \in Listings : m # l => listing'[m] = listing[m]
        /\ \A m \in Listings : /\ listing'[m].card = listing[m].card
                               /\ listing'[m].seller = listing[m].seller
                               /\ listing'[m].status = IF m = l THEN "SOLD" ELSE listing[m].status
        /\ listing' \in [Listings -> [card : Cards \cup {NoOne}, seller : Users \cup {NoOne},
                                      price : Nat, status : {"NONE", "ACTIVE", "SOLD"}]]
    BY <1>2, <1>4, <2>1 DEF TypeOK
  <2>5. /\ \A d \in Cards : d # c => card'[d] = card[d]
        /\ card'[c].state = "NONE"
        /\ card' \in [Cards -> [owner : Users, acquired : Nat, value : Nat,
                                state : {"NONE", "LISTED", "IN_AUCTION"}]]
    <3> DEFINE sold == [card[c] EXCEPT !.owner = u, !.acquired = price, !.state = "NONE"]
    <3>1. card[c] \in [owner : Users, acquired : Nat, value : Nat,
                       state : {"NONE", "LISTED", "IN_AUCTION"}]
      BY <1>2, <2>1 DEF TypeOK
    <3>2. sold.state = "NONE" /\ sold \in [owner : Users, acquired : Nat, value : Nat,
                                          state : {"NONE", "LISTED", "IN_AUCTION"}]
      BY <1>2, <3>1
    <3>3. card' = [card EXCEPT ![c] = sold]
      BY <1>4 DEF Sold
    <3> HIDE DEF sold
    <3> QED
      BY <1>2, <2>1, <3>2, <3>3 DEF TypeOK
  <2>6. q.rows = {u, s, Platform} /\ q.draft \in [Accounts -> Amounts]
    BY <1>1, <2>1 DEF PurchaseFits, Ordered, Transactions
  <2>7. /\ balance' \in [Accounts -> Amounts]
        /\ \A a \in Accounts : a \notin q.rows => balance'[a] = balance[a]
        /\ \A a \in Accounts : a \in q.rows => balance'[a] = q.draft[a]
    BY <1>4, <2>1, <2>6 DEF Written, TypeOK
  <2>8. PICK x : x = Request(r, "cache")
    OBVIOUS
  <2>9. /\ x \in Transactions /\ x.at = "cache" /\ x.user = u /\ x.listing = l /\ x.key = q.key
        /\ x.rows = {} /\ x.lots = {} /\ tx' = [tx EXCEPT ![r] = x]
    BY <1>4, <2>1, <2>8, RequestFacts DEF RequestSteps
  <2>10. TypeOK'
    <3>1. trades' \subseteq Trades /\ IsFiniteSet(trades')
      BY <1>4, <2>1, <2>3, FS_AddElement DEF TypeOK
    <3>2. tx' \in [Procs -> Transactions]
      BY <2>1, <2>9
    <3>3. AuctionsType'
      BY <1>1, <2>1 DEF AuctionsType
    <3> QED
      BY <1>1, <2>1, <2>4, <2>5, <2>7, <3>1, <3>2, <3>3 DEF TypeOK
  <2>11. trades' = trades \cup {t}
    BY <1>4
  <2>12. t.listing = l /\ t.buyer = u /\ t.key = q.key /\ t.seller = s /\ t.gross = price
         /\ t.fee = fee
    OBVIOUS
  <2>13. \A v \in trades : ~(v.buyer = u /\ v.key = q.key)
    BY <1>4 DEF KeyIsFree, Earlier
  <2>14. card[c].state = "LISTED"
    BY <1>2 DEF Inv, ListingsFit
  <2> HIDE DEF t
  <2>15. ListingsFit'
    <3>1. \A m \in Listings : listing'[m].status # "NONE" =>
            listing'[m].card \in Cards /\ listing'[m].seller \in Users
      BY <1>2, <2>4 DEF Inv, ListingsFit
    <3>2. \A m \in Listings : listing'[m].status = "ACTIVE" =>
            m # l /\ listing[m].status = "ACTIVE" /\ listing[m].card \in Cards /\ listing[m].card # c
      BY <1>2, <2>4 DEF Inv, ListingsFit
    <3>3. \A m \in Listings : listing'[m].status = "ACTIVE" =>
            card'[listing'[m].card].state = "LISTED"
            /\ card'[listing'[m].card].owner = listing'[m].seller
      BY <2>4, <2>5, <3>2 DEF Inv, ListingsFit
    <3>4. \A m, n \in Listings :
            listing'[m].status = "ACTIVE" /\ listing'[n].status = "ACTIVE"
              /\ listing'[m].card = listing'[n].card => m = n
      BY <2>4, <3>2 DEF Inv, ListingsFit
    <3>5. \A d \in Cards : card'[d].state = "LISTED" =>
            \E m \in Listings : listing'[m].status = "ACTIVE" /\ listing'[m].card = d
      <4> TAKE d \in Cards
      <4> HAVE card'[d].state = "LISTED"
      <4>1. d # c /\ card[d].state = "LISTED"
        BY <2>5
      <4>2. PICK m \in Listings : listing[m].status = "ACTIVE" /\ listing[m].card = d
        BY <4>1 DEF Inv, ListingsFit
      <4> QED
        BY <2>4, <4>1, <4>2
    <3> QED
      BY <3>1, <3>3, <3>4, <3>5 DEF ListingsFit
  <2>16. AuctionsFit'
    <3>1. \A i \in Auctions : Open(i) => auction[i].card \in Cards /\ auction[i].card # c
      BY <2>14 DEF Inv, AuctionsFit, Open
    <3>2. \A i \in Auctions : Open(i)' <=> Open(i)
      BY <1>1 DEF Open
    <3>3. \A i \in Auctions : Open(i)' =>
            /\ card'[auction'[i].card].state = "IN_AUCTION"
            /\ card'[auction'[i].card].owner = auction'[i].seller
      BY <1>1, <2>5, <3>1, <3>2 DEF Inv, AuctionsFit
    <3>4. \A i, j \in Auctions : Open(i)' /\ Open(j)' /\ auction'[i].card = auction'[j].card => i = j
      BY <1>1, <3>2 DEF Inv, AuctionsFit
    <3>5. \A d \in Cards : card'[d].state = "IN_AUCTION" =>
            \E i \in Auctions : Open(i)' /\ auction'[i].card = d
      BY <1>1, <2>5, <3>2 DEF Inv, AuctionsFit
    <3> QED
      BY <1>1, <3>3, <3>4, <3>5 DEF Inv, AuctionsFit
  <2>17. TradesFit'
    <3>1. \A v \in trades : v.listing \in Listings /\ listing[v.listing].status = "SOLD"
      BY <2>1 DEF Inv, TypeOK, Trades, TradesFit
    <3>2. \A v \in trades : v.listing # l
      BY <1>2, <3>1
    <3>3. \A v \in trades' : listing'[v.listing].status = "SOLD"
      BY <1>2, <2>4, <2>11, <2>12, <3>1
    <3>4. \A v, w \in trades' : v.listing = w.listing => v = w
      BY <2>11, <2>12, <3>2 DEF Inv, TradesFit
    <3>5. \A v, w \in trades' : v.buyer = w.buyer /\ v.key = w.key => v = w
      BY <2>11, <2>12, <2>13 DEF Inv, TradesFit
    <3>6. \A m \in Listings : listing'[m].status = "SOLD" => \E v \in trades' : v.listing = m
      BY <2>4, <2>11, <2>12 DEF Inv, TradesFit
    <3> QED
      BY <3>3, <3>4, <3>5, <3>6 DEF TradesFit
  <2>18. CacheFits'
    BY <1>1, <2>11 DEF Inv, CacheFits, Booked
  <2>19. ASSUME NEW a \in Accounts PROVE Balanced(a)'
    <3>1. Balanced(a) /\ balance[a].available \in Int /\ balance[a].held \in Int
      BY SettlerTypes DEF Inv
    <3>2. TradeShare(t, a) = IF a \in q.rows THEN Share(u, l, a) ELSE 0
      BY <1>2, <2>2, <2>6, <2>12 DEF TradeShare, Share, SellerNet
    <3>3. TradeShare(t, a) \in Int
      BY <2>1, <2>3, DealsType DEF TypeOK
    <3>4. /\ balance'[a].available = balance[a].available + TradeShare(t, a)
          /\ balance'[a].available >= 0 /\ balance'[a].held = balance[a].held
      <4>1. CASE a \in q.rows
        <5>1. /\ q.draft[a].available = balance[a].available + Share(u, l, a)
              /\ q.draft[a].available >= 0 /\ q.draft[a].held = balance[a].held
          BY <2>1, <4>1 DEF PurchaseFits, Drafted
        <5>2. balance'[a] = q.draft[a]
          BY <2>7, <4>1
        <5>3. TradeShare(t, a) = Share(u, l, a)
          BY <3>2, <4>1
        <5> QED
          BY <5>1, <5>2, <5>3
      <4>2. CASE a \notin q.rows
        BY <2>7, <3>1, <3>2, <4>2 DEF Balanced
      <4> QED
        BY <4>1, <4>2
    <3>5. SumFunction(Deals(a)') = SumFunction(Deals(a)) + TradeShare(t, a)
          /\ SumFunction(Deals(a)) \in Int
      <4>1. Deals(a)' = [v \in trades \cup {t} |-> TradeShare(v, a)]
        BY <2>11 DEF Deals, TradeShare
      <4> QED
        BY <2>1, <2>3, <4>1, DealsType DEF TypeOK
    <3>6. Holds(a)' = Holds(a) /\ Settles(a)' = Settles(a)
      BY <1>1 DEF Holds, Settles, LotShare
    <3>7. Total(Settles(a), MaxAuctions) \in Int /\ StartingFunds[a] \in Int
      BY <2>1, BooksType, MarketAssumption
    <3>8. /\ balance'[a].held = Total(Holds(a), MaxAuctions)
          /\ balance'[a].available + balance'[a].held
               = StartingFunds[a] + SumFunction(Deals(a)') + Total(Settles(a), MaxAuctions)
      <4>1. /\ balance[a].held = Total(Holds(a), MaxAuctions)
            /\ balance[a].available + balance[a].held
                 = StartingFunds[a] + SumFunction(Deals(a)) + Total(Settles(a), MaxAuctions)
        BY <3>1 DEF Balanced
      <4>2. PICK share \in Int : share = TradeShare(t, a)
        BY <3>3
      <4>3. balance'[a].available = balance[a].available + share
            /\ SumFunction(Deals(a)') = SumFunction(Deals(a)) + share
        BY <3>4, <3>5, <4>2
      <4> QED
        BY <3>1, <3>4, <3>5, <3>7, <4>1, <4>3
    <3>9. Total(Holds(a), MaxAuctions)' = Total(Holds(a), MaxAuctions)
          /\ Total(Settles(a), MaxAuctions)' = Total(Settles(a), MaxAuctions)
          /\ SumFunction(Deals(a))' = SumFunction(Deals(a)')
      BY <3>6
    <3> QED
      BY <3>4, <3>8, <3>9 DEF Balanced
  <2>20. ProcsFit'
    <3>1. PurchaseFits(x)'
      <4>1. Booked(x.user, x.key, x.listing)'
        <5>1. t \in trades'
          BY <2>11
        <5>2. \E v \in trades' : v.buyer = u /\ v.key = q.key /\ v.listing = l
          BY <2>12, <5>1
        <5>3. PICK uu, kk, ll : uu = u /\ kk = q.key /\ ll = l
          OBVIOUS
        <5>4. Booked(uu, kk, ll)'
          BY <5>2, <5>3 DEF Booked
        <5> QED
          BY <2>9, <5>3, <5>4
      <4>2. Known(x)'
        BY <1>2, <2>9, <4>1 DEF Known, Holding, RequestSteps
      <4> QED
        BY <2>9, <4>2 DEF PurchaseFits, Ordered, Drafted
    <3>2. \A p : Apart(p, x)
      BY <2>9, Rowless DEF Holding
    <3>3. ASSUME NEW p \in Requests \ {r}, Holding(tx[p])
          PROVE  listing'[tx[p].listing] = listing[tx[p].listing]
      <4>1. tx[p].listing # l /\ tx[p].listing \in Listings
        BY <1>1, <2>1, <3>3, Requesters, HoldingFacts DEF Inv, ProcsFit, Apart
      <4> QED
        BY <2>4, <4>1
    <3>4. ASSUME NEW p \in Procs \ {r}, NEW a \in tx[p].rows PROVE balance'[a] = balance[a]
      <4>1. a \in Accounts /\ a \notin q.rows
        BY <2>1, HeldRows DEF Inv, ProcsFit, Apart
      <4> QED
        BY <2>7, <4>1
    <3>5. trades \subseteq trades'
      BY <2>11
    <3> QED
      BY <1>1, <2>1, <2>9, <2>10, <3>1, <3>2, <3>3, <3>4, <3>5, ProcsStep
  <2> QED
    BY <2>10, <2>15, <2>16, <2>17, <2>18, <2>19, <2>20 DEF Inv
<1> QED
  BY <1>3, <1>4 DEF BuyCommits

-----------------------------------------------------------------------------
(* The theorems *)

LEMMA InitKeeps ==
  ASSUME Init
  PROVE  Inv
<1>1. /\ card = [c \in Cards |-> [owner |-> FirstOwner[c], acquired |-> FirstValue[c],
                                  value |-> FirstValue[c], state |-> "NONE"]]
      /\ listing = [l \in Listings |-> NoListing]
      /\ auction = [i \in Auctions |-> NoAuction]
      /\ balance = [a \in Accounts |-> [available |-> StartingFunds[a], held |-> 0]]
      /\ trades = {}
      /\ cached = [u \in Users |-> [k \in Keys |-> 0]]
      /\ tx = [p \in Procs |-> Idle]
  BY DEF Init
<1>2. AuctionsType
  BY <1>1 DEF AuctionsType, NoAuction
<1>3. balance \in [Accounts -> Amounts]
  BY <1>1, MarketAssumption DEF Amounts
<1>4. TypeOK
  <2>1. card \in [Cards -> [owner : Users, acquired : Nat, value : Nat,
                            state : {"NONE", "LISTED", "IN_AUCTION"}]]
    BY <1>1, MarketAssumption
  <2>2. listing \in [Listings -> [card : Cards \cup {NoOne}, seller : Users \cup {NoOne},
                                  price : Nat, status : {"NONE", "ACTIVE", "SOLD"}]]
    BY <1>1 DEF NoListing
  <2>3. cached \in [Users -> [Keys -> Listings \cup {0}]]
    BY <1>1
  <2>4. tx \in [Procs -> Transactions]
    BY <1>1, IdleFacts
  <2>5. trades \subseteq Trades /\ IsFiniteSet(trades)
    BY <1>1, FS_EmptySet
  <2> QED
    BY <1>2, <1>3, <2>1, <2>2, <2>3, <2>4, <2>5 DEF TypeOK
<1>5. ListingsFit /\ TradesFit /\ CacheFits
  BY <1>1 DEF ListingsFit, TradesFit, CacheFits, NoListing
<1>6. AuctionsFit
  BY <1>1 DEF AuctionsFit, Open, NoAuction
<1>7. ASSUME NEW a \in Accounts PROVE Balanced(a)
  <2>1. \A i \in 1..MaxAuctions : Holds(a)[i] = 0 /\ Settles(a)[i] = 0
    BY <1>1 DEF Holds, Settles, NoAuction, Auctions
  <2>2. Total(Holds(a), MaxAuctions) = 0 /\ Total(Settles(a), MaxAuctions) = 0
    BY <2>1, TotalZero, MarketAssumption
  <2>3. SumFunction(Deals(a)) = 0
    <3>1. DOMAIN Deals(a) = {}
      BY <1>1 DEF Deals
    <3> QED
      BY <3>1, SumEmpty
  <2>4. balance[a].available = StartingFunds[a] /\ balance[a].held = 0 /\ StartingFunds[a] \in Nat
    BY <1>1, MarketAssumption
  <2> QED
    BY <2>2, <2>3, <2>4 DEF Balanced
<1>8. ProcsFit
  <2>1. PICK y : y = Idle
    OBVIOUS
  <2>2. y.at = "idle" /\ y.listing = 0 /\ y.rows = {} /\ y.lots = {}
    BY <2>1, IdleFacts
  <2>3. PurchaseFits(y) /\ ~Holding(y)
    BY <2>2 DEF PurchaseFits, Known, Ordered, Drafted, Holding, RequestSteps
  <2>4. InTurn(y)
    BY <2>2 DEF InTurn, SettlerSteps
  <2>5. ASSUME NEW a \in Accounts
        PROVE  /\ Funds(y, a).available = balance[a].available + CreditOf(Paid(y, a), a)
               /\ Funds(y, a).held = balance[a].held - DebitOf(Paid(y, a), a)
    <3>1. Paid(y, a) = {} /\ Funds(y, a) = balance[a]
      BY <2>2 DEF Paid, Funds
    <3>2. balance[a].available \in Int /\ balance[a].held \in Int
      BY <1>3 DEF Amounts
    <3>3. CreditOf({}, a) = 0 /\ DebitOf({}, a) = 0
      BY NothingPaid
    <3> QED
      BY <3>1, <3>2, <3>3
  <2>6. SettlementFits(y)
    BY <2>4, <2>5 DEF SettlementFits, Adds
  <2>7. \A p \in Procs : tx[p] = y
    BY <1>1, <2>1
  <2> QED
    BY <2>2, <2>3, <2>6, <2>7, Requesters, SettlerIsAProc DEF ProcsFit, Apart
<1> QED
  BY <1>4, <1>5, <1>6, <1>7, <1>8 DEF Inv

LEMMA NextKeeps ==
  ASSUME Inv, [Next]_vars
  PROVE  Inv'
<1>1. CASE Next
  <2>1. ASSUME NEW u \in Users, NEW c \in Cards, NEW price \in Prices, ListCard(u, c, price)
        PROVE  Inv'
    BY <2>1, ListCardKeeps
  <2>2. ASSUME NEW i \in Auctions, NEW u \in Users, NEW c \in Cards, AuctionOpens(i, u, c)
        PROVE  Inv'
    BY <2>2, AuctionOpensKeeps
  <2>3. ASSUME NEW i \in Auctions, AuctionEnds(i) PROVE Inv'
    BY <2>3, AuctionEndsKeeps
  <2>4. ASSUME Settlement PROVE Inv'
    BY <2>4, SettlementStartsKeeps, NextLotKeeps, SettleBalanceKeeps, SettlementCommitsKeeps,
       DeadlockVictimKeeps, SettlerIsAProc DEF Settlement
  <2>5. ASSUME NEW r \in Requests, NEW u \in Users, NEW l \in Listings, NEW k \in Keys,
               Arrive(r, u, l, k)
        PROVE  Inv'
    BY <2>5, ArriveKeeps
  <2>6. ASSUME NEW r \in Requests, Purchase(r) PROVE Inv'
    BY <2>6, FindTradeKeeps, LockListingKeeps, LockCardKeeps, PayBalanceKeeps, BuyCommitsKeeps,
       RecoverKeeps, CacheResponseKeeps, DeadlockVictimKeeps, Requesters DEF Purchase
  <2>7. ASSUME NEW u \in Users, NEW k \in Keys, CacheExpires(u, k) PROVE Inv'
    BY <2>7, CacheExpiresKeeps
  <2>8. ASSUME Restart PROVE Inv'
    BY <2>8, RestartKeeps
  <2>9. ASSUME PriceTick PROVE Inv'
    BY <2>9, PriceTickKeeps
  <2> QED
    BY <1>1, <2>1, <2>2, <2>3, <2>4, <2>5, <2>6, <2>7, <2>8, <2>9 DEF Next
<1>2. CASE UNCHANGED vars
  <2>1. PICK x : x = tx[Settler]
    OBVIOUS
  <2>2. UNCHANGED <<stock, books, cached>> /\ tx' = tx
    BY <1>2 DEF vars
  <2>3. Settler \in Procs /\ x \in Transactions /\ tx' = [tx EXCEPT ![Settler] = x]
        /\ SettlementFits(x)
    BY <2>1, <2>2, SettlerTypes
  <2>4. \A r \in Procs \ {Settler} : Apart(tx[r], x)
    BY <2>1, <2>3 DEF Inv, ProcsFit
  <2> QED
    BY <2>2, <2>3, <2>4, LocalStep
<1> QED
  BY <1>1, <1>2

\* The books, the markets, the cache and every running transaction fit together
\* in every reachable state: the invariant the other results rest on.
THEOREM MarketFits == Spec => []Inv
<1>1. Init => Inv
  BY InitKeeps
<1>2. Inv /\ [Next]_vars => Inv'
  BY NextKeeps
<1> QED
  BY <1>1, <1>2, PTL DEF Spec

LEMMA CountsOne ==
  ASSUME NEW S, \A x, y \in S : x = y
  PROVE  Cardinality(S) = IF S = {} THEN 0 ELSE 1
<1>1. CASE S = {}
  BY <1>1, FS_EmptySet
<1>2. CASE S # {}
  <2>1. PICK x : x \in S
    BY <1>2
  <2>2. S = {x}
    BY <2>1
  <2>3. Cardinality({x}) = 1
    BY FS_Singleton
  <2> QED
    BY <1>2, <2>2, <2>3
<1> QED
  BY <1>1, <1>2

\* A card is offered in one market at a time, by its owner, once: however many
\* traders list, auction, buy and settle at the same time, restart and retry.
THEOREM OneMarket == Spec => []OneMarketPerCard
<1>1. Inv => OneMarketPerCard
  <2> SUFFICES ASSUME Inv, NEW c \in Cards
               PROVE  LET offers == {l \in Listings : listing[l].card = c /\ listing[l].status = "ACTIVE"}
                          lots   == {i \in Auctions : auction[i].card = c /\ auction[i].status # "SETTLED"}
                      IN
                      /\ Cardinality(offers) = IF card[c].state = "LISTED" THEN 1 ELSE 0
                      /\ Cardinality(lots) = IF card[c].state = "IN_AUCTION" THEN 1 ELSE 0
                      /\ \A l \in offers : listing[l].seller = card[c].owner
                      /\ \A i \in lots : auction[i].seller = card[c].owner
    BY DEF OneMarketPerCard
  <2> DEFINE offers == {l \in Listings : listing[l].card = c /\ listing[l].status = "ACTIVE"}
             lots   == {i \in Auctions : auction[i].card = c /\ auction[i].status # "SETTLED"}
  <2>1. ASSUME NEW i \in lots
        PROVE  i \in Auctions /\ auction[i].card = c /\ Open(i)
    <3>1. auction[i].status \in {"NONE", "LIVE", "CLOSED", "SETTLED"}
      BY DEF Inv, TypeOK, AuctionsType
    <3>2. c # NoOne
      BY MarketAssumption
    <3>3. auction[i].status # "NONE"
      BY <3>2 DEF Inv, AuctionsFit
    <3> QED
      BY <3>1, <3>3 DEF Open
  <2>2. \A i \in Auctions : Open(i) /\ auction[i].card = c => i \in lots
    BY DEF Open
  <2>3. \A l, m \in offers : l = m
    BY DEF Inv, ListingsFit
  <2>4. \A i, j \in lots : i = j
    BY <2>1 DEF Inv, AuctionsFit
  <2>5. offers # {} <=> card[c].state = "LISTED"
    BY DEF Inv, ListingsFit
  <2>6. lots # {} <=> card[c].state = "IN_AUCTION"
    <3>1. ASSUME lots # {} PROVE card[c].state = "IN_AUCTION"
      BY <2>1, <3>1 DEF Inv, AuctionsFit
    <3>2. ASSUME card[c].state = "IN_AUCTION" PROVE lots # {}
      <4>1. PICK i \in Auctions : Open(i) /\ auction[i].card = c
        BY <3>2 DEF Inv, AuctionsFit
      <4> QED
        BY <2>2, <4>1
    <3> QED
      BY <3>1, <3>2
  <2>7. \A l \in offers : listing[l].seller = card[c].owner
    BY DEF Inv, ListingsFit
  <2>8. \A i \in lots : auction[i].seller = card[c].owner
    BY <2>1 DEF Inv, AuctionsFit
  <2>9. Cardinality(offers) = (IF offers = {} THEN 0 ELSE 1)
        /\ Cardinality(lots) = (IF lots = {} THEN 0 ELSE 1)
    <3> HIDE DEF offers, lots
    <3> QED
      BY <2>3, <2>4, CountsOne
  <2> QED
    BY <2>5, <2>6, <2>7, <2>8, <2>9
<1> QED
  BY <1>1, MarketFits, PTL

\* No listing is sold twice and no key buys twice, whatever is retried.
THEOREM SoldOnce == Spec => []EachSaleOnce
<1>1. Inv => EachSaleOnce
  <2> SUFFICES ASSUME Inv PROVE EachSaleOnce
    OBVIOUS
  <2>1. ASSUME NEW l \in Listings
        PROVE  Cardinality({t \in trades : t.listing = l}) = IF listing[l].status = "SOLD" THEN 1 ELSE 0
    <3> DEFINE S == {t \in trades : t.listing = l}
    <3>1. \A x, y \in S : x = y
      BY DEF Inv, TradesFit
    <3>2. S # {} <=> listing[l].status = "SOLD"
      BY DEF Inv, TradesFit
    <3> HIDE DEF S
    <3>3. Cardinality(S) = IF S = {} THEN 0 ELSE 1
      BY <3>1, CountsOne
    <3> QED
      BY <3>2, <3>3 DEF S
  <2>2. \A t, s \in trades : t.buyer = s.buyer /\ t.key = s.key => t = s
    BY DEF Inv, TradesFit
  <2> QED
    BY <2>1, <2>2 DEF EachSaleOnce
<1> QED
  BY <1>1, MarketFits, PTL

\* Every balance is accounted for by the recorded trades and settlements and is
\* never negative: no lost update between purchases and settlements that share an account.
THEOREM BooksAlwaysBalance == Spec => []BooksBalance
<1>1. Inv => BooksBalance
  BY DEF Inv, Balanced, Holds, Settles, Deals, BooksBalance
<1> QED
  BY <1>1, MarketFits, PTL

\* A client is told only of purchases that are in the books.
THEOREM ConfirmationsAreTrue == Spec => []ConfirmedIsBooked
<1>1. Inv => ConfirmedIsBooked
  BY DEF Inv, ProcsFit, PurchaseFits, Known, CacheFits, Booked, ConfirmedIsBooked
<1> QED
  BY <1>1, MarketFits, PTL

-----------------------------------------------------------------------------
(* Owners *)

Bought(c) ==
  \/ \E t \in trades' \ trades :
       /\ listing[t.listing].card = c /\ listing[t.listing].price = t.gross
       /\ t.seller = card[c].owner /\ t.buyer = card'[c].owner
  \/ \E i \in Auctions :
       /\ auction[i].card = c /\ auction[i].status = "CLOSED"
       /\ auction'[i].status = "SETTLED"
       /\ auction[i].seller = card[c].owner /\ auction[i].winner = card'[c].owner

LEMMA PurchaseBuys ==
  ASSUME Inv, NEW r \in Requests, BuyCommits(r), NEW c \in Cards, card'[c].owner # card[c].owner
  PROVE  Bought(c)
<1> DEFINE q == tx[r]
           l == q.listing
           t == [listing |-> l, buyer |-> q.user, key |-> q.key, seller |-> listing[l].seller,
                 gross |-> listing[l].price, fee |-> TradeFee(listing[l].price)]
<1>1. Holding(q)
  BY DEF BuyCommits, Holding
<1>2. l \in Listings /\ listing[l].status = "ACTIVE" /\ listing[l].card \in Cards
  BY <1>1, HoldingFacts
<1>3. /\ card' = [card EXCEPT ![listing[l].card]
                                = Sold(listing[l].card, q.user, listing[l].price)]
      /\ trades' = trades \cup {t}
  BY DEF BuyCommits
<1>4. card[listing[l].card] \in [owner : Users, acquired : Nat, value : Nat,
                                 state : {"NONE", "LISTED", "IN_AUCTION"}]
      /\ card \in [Cards -> [owner : Users, acquired : Nat, value : Nat,
                             state : {"NONE", "LISTED", "IN_AUCTION"}]]
  BY <1>2 DEF Inv, TypeOK
<1>5. c = listing[l].card /\ card'[c].owner = q.user
  BY <1>2, <1>3, <1>4 DEF Sold
<1>6. t.listing = l /\ t.buyer = q.user /\ t.seller = listing[l].seller
      /\ t.gross = listing[l].price
  OBVIOUS
<1>7. t \notin trades
  <2>1. \A v \in trades : listing[v.listing].status = "SOLD"
    BY DEF Inv, TradesFit
  <2> QED
    BY <1>2, <1>6, <2>1
<1>8. card[c].owner = listing[l].seller
  BY <1>2, <1>5 DEF Inv, ListingsFit
<1> HIDE DEF t
<1> QED
  BY <1>3, <1>5, <1>6, <1>7, <1>8 DEF Bought

LEMMA SettlementBuys ==
  ASSUME Inv, SettlementCommits, NEW c \in Cards, card'[c].owner # card[c].owner
  PROVE  Bought(c)
<1> DEFINE lots == tx[Settler].lots
           j == CHOOSE i \in lots : auction[i].card = c
<1>1. card'[c] = IF \A i \in lots : auction[i].card # c THEN card[c]
                 ELSE IF auction[j].winner = NoOne THEN [card[c] EXCEPT !.state = "NONE"]
                 ELSE [card[c] EXCEPT !.state = "NONE", !.owner = auction[j].winner,
                                      !.acquired = auction[j].gross]
  BY DEF SettlementCommits
<1>2. card[c] \in [owner : Users, acquired : Nat, value : Nat,
                   state : {"NONE", "LISTED", "IN_AUCTION"}]
  BY DEF Inv, TypeOK
<1>3. \E i \in lots : auction[i].card = c
  BY <1>1
<1>4. j \in lots /\ auction[j].card = c
  BY <1>3
<1>5. PICK i : i = j
  OBVIOUS
<1>6. i \in lots /\ auction[i].card = c
  BY <1>4, <1>5
<1>7. card'[c] = IF auction[i].winner = NoOne THEN [card[c] EXCEPT !.state = "NONE"]
                 ELSE [card[c] EXCEPT !.state = "NONE", !.owner = auction[i].winner,
                                      !.acquired = auction[i].gross]
  BY <1>1, <1>3, <1>5
<1>8. card'[c].owner = auction[i].winner
  BY <1>2, <1>7
<1>9. i \in Auctions /\ auction[i].status = "CLOSED"
  BY <1>6, HeldRows
<1>10. auction[i].seller = card[c].owner
  BY <1>6, <1>9 DEF Inv, AuctionsFit, Open
<1>11. auction'[i].status = "SETTLED"
  <2>1. auction'[i] = [auction[i] EXCEPT !.status = "SETTLED"]
    BY <1>6, <1>9 DEF SettlementCommits, Settled
  <2>2. auction[i] \in [card : Cards \cup {NoOne}, seller : Users \cup {NoOne},
                        winner : Users \cup {NoOne}, gross : Nat,
                        status : {"NONE", "LIVE", "CLOSED", "SETTLED"}]
    BY <1>9 DEF Inv, TypeOK, AuctionsType
  <2> QED
    BY <2>1, <2>2
<1> QED
  BY <1>6, <1>8, <1>9, <1>10, <1>11 DEF Bought

\* Nobody loses a card but by a trade or a settlement that names him as the seller
\* and the next owner as the buyer, and that is recorded in the same step.
THEOREM OwnersSell == Spec => OwnersAreBought
<1>1. ASSUME Inv, [Next]_vars, NEW c \in Cards, card'[c].owner # card[c].owner
      PROVE  Bought(c)
  <2>0. card \in [Cards -> [owner : Users, acquired : Nat, value : Nat,
                            state : {"NONE", "LISTED", "IN_AUCTION"}]]
    BY <1>1 DEF Inv, TypeOK
  <2>1. CASE card' = card
    BY <1>1, <2>1
  <2>2. CASE \E d \in Cards : \E s : card' = [card EXCEPT ![d].state = s]
    BY <1>1, <2>0, <2>2
  <2>3. CASE PriceTick
    BY <1>1, <2>0, <2>3 DEF PriceTick
  <2>4. ASSUME NEW r \in Requests, BuyCommits(r) PROVE Bought(c)
    BY <1>1, <2>4, PurchaseBuys
  <2>5. CASE SettlementCommits
    BY <1>1, <2>5, SettlementBuys
  <2>6. ASSUME NEW u \in Users, NEW d \in Cards, NEW price \in Prices, ListCard(u, d, price)
        PROVE  Bought(c)
    BY <2>2, <2>6 DEF ListCard
  <2>7. ASSUME NEW i \in Auctions, NEW u \in Users, NEW d \in Cards, AuctionOpens(i, u, d)
        PROVE  Bought(c)
    BY <2>2, <2>7 DEF AuctionOpens
  <2>8. ASSUME NEW i \in Auctions, AuctionEnds(i) PROVE Bought(c)
    BY <2>1, <2>8 DEF AuctionEnds
  <2>9. ASSUME Settlement PROVE Bought(c)
    BY <2>1, <2>5, <2>9
    DEF Settlement, SettlementStarts, NextLot, SettleBalance, DeadlockVictim, stock
  <2>10. ASSUME NEW r \in Requests, Purchase(r) PROVE Bought(c)
    BY <2>1, <2>4, <2>10
    DEF Purchase, FindTrade, LockListing, LockCard, PayBalance, Recover, CacheResponse,
        DeadlockVictim, stock
  <2>11. ASSUME NEW r \in Requests, NEW u \in Users, NEW l \in Listings, NEW k \in Keys,
                Arrive(r, u, l, k)
         PROVE  Bought(c)
    BY <2>1, <2>11 DEF Arrive, stock
  <2>12. ASSUME NEW u \in Users, NEW k \in Keys, CacheExpires(u, k) PROVE Bought(c)
    BY <2>1, <2>12 DEF CacheExpires, stock
  <2>13. CASE Restart
    BY <2>1, <2>13 DEF Restart, stock
  <2>14. CASE UNCHANGED vars
    BY <2>1, <2>14 DEF vars, stock
  <2> QED
    BY <1>1, <2>3, <2>6, <2>7, <2>8, <2>9, <2>10, <2>11, <2>12, <2>13, <2>14 DEF Next
<1>2. Inv /\ [Next]_vars =>
        [\A c \in Cards : card'[c].owner # card[c].owner =>
           \/ \E t \in trades' \ trades :
                /\ listing[t.listing].card = c /\ listing[t.listing].price = t.gross
                /\ t.seller = card[c].owner /\ t.buyer = card'[c].owner
           \/ \E i \in Auctions :
                /\ auction[i].card = c /\ auction[i].status = "CLOSED"
                /\ auction'[i].status = "SETTLED"
                /\ auction[i].seller = card[c].owner /\ auction[i].winner = card'[c].owner]_vars
  BY <1>1 DEF Bought
<1> QED
  BY <1>2, MarketFits, PTL DEF Spec, OwnersAreBought
=============================================================================
