----------------------------- MODULE CardMarket -----------------------------
(***************************************************************************)
(* The marketplace: listings, their purchase by buyListing behind the      *)
(* response cache of its controller, and what shares rows with it: the     *)
(* auctions of the same cards, the settlement worker, which pays for the   *)
(* ended auctions in one transaction, and the worker that moves prices.    *)
(*                                                                         *)
(* A purchase and a settlement are transactions of many statements.  Each  *)
(* row lock is a step, so they wait for one another, also in a cycle; what *)
(* they write appears when they commit, because until then their locks     *)
(* hide it.  tx[p] is the request or transaction of process p: `rows' are  *)
(* the balances it has locked, `draft' what it has written to them, `todo' *)
(* those it has still to lock, in order.  card[c].state is the row of      *)
(* card_market_state, which is locked with its card.                       *)
(*                                                                         *)
(* An auction is reduced to what the market sees of it: it takes the card, *)
(* ends with a winner, whose bid is held, or without, and is settled.      *)
(* Module AuctionHouse has the rest.                                       *)
(***************************************************************************)
EXTENDS Integers, Sequences, FiniteSets, Functions, Money, Totals

CONSTANTS
  Users, Platform,          \* traders, and the account that receives the fees
  Cards, Keys,
  Requests, Settler,        \* requests served at the same time, the settlement worker
  Prices, Values,           \* prices and market values, in cents
  FirstOwner, FirstValue,   \* FirstOwner[c], FirstValue[c]
  StartingFunds,            \* StartingFunds[a] for every account
  MaxListings, MaxAuctions, \* bounds
  NoOne

Accounts == Users \cup {Platform}
Procs    == Requests \cup {Settler}
Listings == 1..MaxListings
Auctions == 1..MaxAuctions

ASSUME MarketAssumption ==
  /\ Platform \notin Users /\ NoOne \notin Accounts \cup Cards
  /\ Settler \notin Requests
  /\ FirstOwner \in [Cards -> Users] /\ FirstValue \in [Cards -> Nat]
  /\ StartingFunds \in [Accounts -> Nat] /\ Prices \subseteq Nat /\ Values \subseteq Nat
  /\ MaxListings \in Nat /\ MaxAuctions \in Nat

VARIABLES card, listing, auction, balance, trades, cached, tx

stock == <<card, listing, auction>>
books == <<balance, trades>>
vars  == <<stock, books, cached, tx>>

NoListing == [card |-> NoOne, seller |-> NoOne, price |-> 0, status |-> "NONE"]
NoAuction == [card |-> NoOne, seller |-> NoOne, winner |-> NoOne, gross |-> 0,
              status |-> "NONE"]

Idle == [at |-> "idle", user |-> NoOne, listing |-> 0, key |-> NoOne,
         rows |-> {}, draft |-> [a \in Accounts |-> [available |-> 0, held |-> 0]],
         todo |-> <<>>, lots |-> {}, lot |-> 0]

Init ==
  /\ card = [c \in Cards |-> [owner |-> FirstOwner[c], acquired |-> FirstValue[c],
                              value |-> FirstValue[c], state |-> "NONE"]]
  /\ listing = [l \in Listings |-> NoListing]
  /\ auction = [i \in Auctions |-> NoAuction]
  /\ balance = [a \in Accounts |-> [available |-> StartingFunds[a], held |-> 0]]
  /\ trades = {}
  /\ cached = [u \in Users |-> [k \in Keys |-> 0]]
  /\ tx = [p \in Procs |-> Idle]

Proceed(p, step) == tx' = [tx EXCEPT ![p].at = step]

\* What is left of a request that has lost or ended its transaction.
Request(p, step) == [Idle EXCEPT !.at = step, !.user = tx[p].user,
                                 !.listing = tx[p].listing, !.key = tx[p].key]

\* The client has its answer, a purchase or an error.
Answered(p) == tx' = [tx EXCEPT ![p] = Idle]

\* ROLLBACK gives back the locks.  The catch block of buyListing runs next; the
\* settlement worker only logs the error.
Abort(p) == tx' = [tx EXCEPT ![p] = IF p = Settler THEN Idle ELSE Request(p, "recover")]

-----------------------------------------------------------------------------
(* Row locks *)

HoldsListing(p, l) == tx[p].at \in {"card", "balances", "commit"} /\ tx[p].listing = l
HoldsCard(p, c) ==
  \/ /\ p \in Requests /\ tx[p].at \in {"balances", "commit"}
     /\ listing[tx[p].listing].card = c
  \/ \E i \in tx[p].lots : auction[i].card = c

CardFree(c) == \A q \in Procs : ~HoldsCard(q, c)

NoRowLockBug(p, a) == TRUE
BalanceFree(p, a) == \A q \in Procs \ {p} : a \notin tx[q].rows

\* p has asked for a row that q has locked.
WaitsFor(p, q) ==
  /\ p # q
  /\ \/ tx[p].at = "listing" /\ HoldsListing(q, tx[p].listing)
     \/ tx[p].at = "card" /\ HoldsCard(q, listing[tx[p].listing].card)
     \/ tx[p].at = "balances" /\ Head(tx[p].todo) \in tx[q].rows

\* PostgreSQL looks for a cycle of waiting transactions and aborts one of them.
Deadlocked(p) ==
  \E S \in SUBSET Procs : p \in S /\ \A q \in S : \E r \in S : WaitsFor(q, r)

DeadlockVictim(p) ==
  /\ Deadlocked(p)
  /\ Abort(p)
  /\ UNCHANGED <<stock, books, cached>>

\* A balance is read under its lock, and written back as an absolute number.
ReadBalance(p, a) == IF a \in tx[p].rows THEN tx[p].draft[a] ELSE balance[a]

WriteBalance(p, a, b) ==
  tx' = [tx EXCEPT ![p].rows = @ \cup {a}, ![p].draft[a] = b, ![p].todo = Tail(@),
                   ![p].at = IF Len(tx[p].todo) > 1 THEN @
                             ELSE IF p = Settler THEN "lot" ELSE "commit"]

-----------------------------------------------------------------------------
(* Listings and auctions *)

CanOffer(u, c) == card[c].owner = u /\ card[c].state = "NONE"

\* listCard: its three rows are locked at once, or the request fails.
ListCard(u, c, price) ==
  /\ CardFree(c) /\ CanOffer(u, c)
  /\ \E l \in Listings :
       /\ listing[l].status = "NONE" /\ \A m \in 1..(l - 1) : listing[m].status # "NONE"
       /\ listing' = [listing EXCEPT ![l] = [card |-> c, seller |-> u, price |-> price,
                                             status |-> "ACTIVE"]]
  /\ card' = [card EXCEPT ![c].state = "LISTED"]
  /\ UNCHANGED <<auction, books, cached, tx>>

\* createAuctionForCard.
AuctionOpens(i, u, c) ==
  /\ CardFree(c) /\ CanOffer(u, c)
  /\ auction[i].status = "NONE"
  /\ auction' = [auction EXCEPT ![i] = [NoAuction EXCEPT !.card = c, !.seller = u,
                                                         !.status = "LIVE"]]
  /\ card' = [card EXCEPT ![c].state = "IN_AUCTION"]
  /\ UNCHANGED <<listing, books, cached, tx>>

\* The auction is over.  Somebody else than the seller leads it and has his bid
\* held, or nobody does.
AuctionEnds(i) ==
  /\ auction[i].status = "LIVE"
  /\ \/ auction' = [auction EXCEPT ![i].status = "CLOSED"] /\ UNCHANGED balance
     \/ \E w \in Users \ {auction[i].seller}, g \in Prices :
          /\ \A q \in Procs : w \notin tx[q].rows
          /\ balance[w].available >= g
          /\ balance' = [balance EXCEPT ![w].available = @ - g, ![w].held = @ + g]
          /\ auction' = [auction EXCEPT ![i].status = "CLOSED", ![i].winner = w, ![i].gross = g]
  /\ UNCHANGED <<card, listing, trades, cached, tx>>

-----------------------------------------------------------------------------
(* Settlement: the worker locks the rows of the closed auctions and of their *)
(* cards, those it can have, and pays for one auction after the other.       *)

SettlementStarts ==
  LET due == {i \in Auctions : auction[i].status = "CLOSED" /\ CardFree(auction[i].card)} IN
  /\ tx[Settler].at = "idle" /\ due # {}
  /\ tx' = [tx EXCEPT ![Settler] = [Idle EXCEPT !.at = "lot", !.lots = due]]
  /\ UNCHANGED <<stock, books, cached>>

\* Those it has still to look at are in `lots' and above `lot'.
NextLot ==
  LET more == {i \in tx[Settler].lots : i > tx[Settler].lot} IN
  /\ tx[Settler].at = "lot"
  /\ \/ /\ more # {}
        /\ \E i \in more :
             /\ \A j \in more : i <= j
             /\ tx' = [tx EXCEPT ![Settler].lot = i,
                         ![Settler].at = IF auction[i].winner = NoOne THEN "lot" ELSE "balances",
                         ![Settler].todo = IF auction[i].winner = NoOne THEN <<>>
                                           ELSE <<auction[i].winner, auction[i].seller, Platform>>]
     \/ more = {} /\ Proceed(Settler, "commit")
  /\ UNCHANGED <<stock, books, cached>>

\* spendHeld for the winner, creditAvailable for the seller and the platform.
SettleBalance ==
  LET a   == Head(tx[Settler].todo)
      lot == auction[tx[Settler].lot]
      fee == AuctionFee(lot.gross)
      b   == ReadBalance(Settler, a)
  IN
  /\ tx[Settler].at = "balances"
  /\ BalanceFree(Settler, a)
  /\ WriteBalance(Settler, a,
       CASE a = lot.winner -> [b EXCEPT !.held = @ - lot.gross]
         [] a = lot.seller -> [b EXCEPT !.available = @ + lot.gross - fee]
         [] a = Platform   -> [b EXCEPT !.available = @ + fee])
  /\ UNCHANGED <<stock, books, cached>>

Written(p) == [a \in Accounts |-> IF a \in tx[p].rows THEN tx[p].draft[a] ELSE balance[a]]

PaidAgainBug(i) == auction[i]
Settled(i) == [auction[i] EXCEPT !.status = "SETTLED"]

\* A card without winner keeps its owner and what he paid for it.
SettlementCommits ==
  LET lots == tx[Settler].lots
      Lot(c) == CHOOSE i \in lots : auction[i].card = c
  IN
  /\ tx[Settler].at = "commit"
  /\ balance' = Written(Settler)
  /\ auction' = [i \in Auctions |-> IF i \in lots THEN Settled(i) ELSE auction[i]]
  /\ card' = [c \in Cards |->
       IF \A i \in lots : auction[i].card # c THEN card[c]
       ELSE IF auction[Lot(c)].winner = NoOne THEN [card[c] EXCEPT !.state = "NONE"]
       ELSE [card[c] EXCEPT !.state = "NONE", !.owner = auction[Lot(c)].winner,
                            !.acquired = auction[Lot(c)].gross]]
  /\ tx' = [tx EXCEPT ![Settler] = Idle]
  /\ UNCHANGED <<listing, trades, cached>>

-----------------------------------------------------------------------------
(* A purchase: buyListingController and buyListing. *)

\* A response in the cache is the answer, whatever listing the request asks for.
Arrive(r, u, l, k) ==
  /\ tx[r].at = "idle"
  /\ listing[l].status # "NONE" /\ cached[u][k] = 0
  /\ tx' = [tx EXCEPT ![r] = [Idle EXCEPT !.at = "find", !.user = u, !.listing = l, !.key = k]]
  /\ UNCHANGED <<stock, books, cached>>

Earlier(r) == {t \in trades : t.buyer = tx[r].user /\ t.key = tx[r].key}

AnyListingBug(r, t) == TRUE
SameListing(r, t) == t.listing = tx[r].listing

\* The key has bought this listing already, or another one, or nothing yet.
FindTrade(r) ==
  /\ tx[r].at = "find"
  /\ \/ \E t \in Earlier(r) : SameListing(r, t) /\ Proceed(r, "cache")
     \/ \E t \in Earlier(r) : ~SameListing(r, t) /\ Abort(r)
     \/ Earlier(r) = {} /\ Proceed(r, "listing")
  /\ UNCHANGED <<stock, books, cached>>

OnSale(l, u) == listing[l].status = "ACTIVE" /\ listing[l].seller # u

LockListing(r) ==
  LET l == tx[r].listing IN
  /\ tx[r].at = "listing"
  /\ \A q \in Procs : ~HoldsListing(q, l)
  /\ \/ OnSale(l, tx[r].user) /\ Proceed(r, "card")
     \/ ~OnSale(l, tx[r].user) /\ Abort(r)
  /\ UNCHANGED <<stock, books, cached>>

LockCard(r) ==
  LET l == tx[r].listing IN
  /\ tx[r].at = "card"
  /\ CardFree(listing[l].card)
  /\ \/ /\ card[listing[l].card].state = "LISTED"
        /\ tx' = [tx EXCEPT ![r].at = "balances",
                            ![r].todo = <<tx[r].user, listing[l].seller, Platform>>]
     \/ card[listing[l].card].state # "LISTED" /\ Abort(r)
  /\ UNCHANGED <<stock, books, cached>>

SellerNet(l) == listing[l].price - TradeFee(listing[l].price)

CanPay(b, price) == b.available >= price

\* debitAvailable for the buyer, creditAvailable for the seller and the platform.
PayBalance(r) ==
  LET a == Head(tx[r].todo)
      l == tx[r].listing
      b == ReadBalance(r, a)
  IN
  /\ tx[r].at = "balances"
  /\ BalanceFree(r, a)
  /\ \/ /\ a = tx[r].user /\ CanPay(b, listing[l].price)
        /\ WriteBalance(r, a, [b EXCEPT !.available = @ - listing[l].price])
     \/ a = tx[r].user /\ ~CanPay(b, listing[l].price) /\ Abort(r)
     \/ /\ a = listing[l].seller
        /\ WriteBalance(r, a, [b EXCEPT !.available = @ + SellerNet(l)])
     \/ /\ a = Platform
        /\ WriteBalance(r, a, [b EXCEPT !.available = @ + TradeFee(listing[l].price)])
  /\ UNCHANGED <<stock, books, cached>>

SaleKeepsMarketBug(c, u, price) == [card[c] EXCEPT !.owner = u, !.acquired = price]
Sold(c, u, price) == [card[c] EXCEPT !.owner = u, !.acquired = price, !.state = "NONE"]

KeyNotUniqueBug(r) == TRUE
KeyIsFree(r) == Earlier(r) = {}

\* The rest of the transaction: the card, the listing, and the trade, whose
\* buyer and key are unique.
BuyCommits(r) ==
  LET l == tx[r].listing IN
  /\ tx[r].at = "commit"
  /\ \/ /\ KeyIsFree(r)
        /\ balance' = Written(r)
        /\ card' = [card EXCEPT ![listing[l].card] = Sold(listing[l].card, tx[r].user, listing[l].price)]
        /\ listing' = [listing EXCEPT ![l].status = "SOLD"]
        /\ trades' = trades \cup {[listing |-> l, buyer |-> tx[r].user, key |-> tx[r].key,
                                   seller |-> listing[l].seller, gross |-> listing[l].price,
                                   fee |-> TradeFee(listing[l].price)]}
        /\ tx' = [tx EXCEPT ![r] = Request(r, "cache")]
     \/ /\ ~KeyIsFree(r)
        /\ Abort(r) /\ UNCHANGED <<balance, card, listing, trades>>
  /\ UNCHANGED <<auction, cached>>

RetriedBug(r) == Proceed(r, "find")
Refused(r) == Answered(r)

\* The catch block: a purchase of this listing with this key, perhaps made by
\* another request, answers after all.
Recover(r) ==
  /\ tx[r].at = "recover"
  /\ \/ \E t \in Earlier(r) : SameListing(r, t) /\ Proceed(r, "cache")
     \/ (\A t \in Earlier(r) : ~SameListing(r, t)) /\ Refused(r)
  /\ UNCHANGED <<stock, books, cached>>

\* The response is stored before it is sent; if that fails the client gets an error.
CacheResponse(r) ==
  LET l == tx[r].listing IN
  /\ tx[r].at = "cache"
  /\ \/ cached' = [cached EXCEPT ![tx[r].user][tx[r].key] = l]
     \/ UNCHANGED cached
  /\ Answered(r)
  /\ UNCHANGED <<stock, books>>

CacheExpires(u, k) ==
  /\ cached[u][k] # 0
  /\ cached' = [cached EXCEPT ![u][k] = 0]
  /\ UNCHANGED <<stock, books, tx>>

\* The server restarts: connections break, transactions roll back.
Restart ==
  /\ tx' = [p \in Procs |-> Idle]
  /\ UNCHANGED <<stock, books, cached>>

-----------------------------------------------------------------------------
(* The price tick reads all cards without locks and writes back their values,  *)
(* nothing else: what they were matters only to what they are now.            *)

PriceTick ==
  /\ \A c \in Cards : CardFree(c)
  /\ \E f \in [Cards -> Values] : card' = [c \in Cards |-> [card[c] EXCEPT !.value = f[c]]]
  /\ UNCHANGED <<listing, auction, books, cached, tx>>

-----------------------------------------------------------------------------
Purchase(r) ==
  \/ FindTrade(r) \/ LockListing(r) \/ LockCard(r) \/ PayBalance(r)
  \/ BuyCommits(r) \/ Recover(r) \/ CacheResponse(r) \/ DeadlockVictim(r)

Settlement ==
  \/ SettlementStarts \/ NextLot \/ SettleBalance \/ SettlementCommits
  \/ DeadlockVictim(Settler)

Next ==
  \/ \E u \in Users, c \in Cards, price \in Prices : ListCard(u, c, price)
  \/ \E i \in Auctions, u \in Users, c \in Cards : AuctionOpens(i, u, c)
  \/ \E i \in Auctions : AuctionEnds(i)
  \/ Settlement
  \/ \E r \in Requests, u \in Users, l \in Listings, k \in Keys : Arrive(r, u, l, k)
  \/ \E r \in Requests : Purchase(r)
  \/ \E u \in Users, k \in Keys : CacheExpires(u, k)
  \/ Restart
  \/ PriceTick

Spec == Init /\ [][Next]_vars

\* PostgreSQL grants a row to those who wait for it in turn, and finds every deadlock.
Fairness == WF_vars(Settlement) /\ \A r \in Requests : SF_vars(Purchase(r))

FairSpec == Spec /\ Fairness

-----------------------------------------------------------------------------
(* Properties *)

\* Whatever requests, auctions and settlements interleave, a card is offered in
\* one place: as LISTED by exactly one active listing of its owner, as
\* IN_AUCTION by exactly one unsettled auction of its owner, as NONE by neither.
OneMarketPerCard ==
  \A c \in Cards :
    LET offers == {l \in Listings : listing[l].card = c /\ listing[l].status = "ACTIVE"}
        lots   == {i \in Auctions : auction[i].card = c /\ auction[i].status # "SETTLED"}
    IN
    /\ Cardinality(offers) = IF card[c].state = "LISTED" THEN 1 ELSE 0
    /\ Cardinality(lots) = IF card[c].state = "IN_AUCTION" THEN 1 ELSE 0
    /\ \A l \in offers : listing[l].seller = card[c].owner
    /\ \A i \in lots : auction[i].seller = card[c].owner

\* A listing is sold once, to one buyer, and a key buys one listing, however
\* often the request is sent again and whatever becomes of the first one.
EachSaleOnce ==
  /\ \A l \in Listings : Cardinality({t \in trades : t.listing = l})
                           = IF listing[l].status = "SOLD" THEN 1 ELSE 0
  /\ \A t, s \in trades : t.buyer = s.buyer /\ t.key = s.key => t = s

\* What a trade and a settled auction are worth to account a.
TradeShare(t, a) ==
  (IF a = t.buyer THEN -t.gross ELSE 0) + (IF a = t.seller THEN t.gross - t.fee ELSE 0)
    + (IF a = Platform THEN t.fee ELSE 0)

LotShare(i, a) ==
  LET lot == auction[i] IN
  (IF a = lot.winner THEN -lot.gross ELSE 0)
    + (IF a = lot.seller THEN lot.gross - AuctionFee(lot.gross) ELSE 0)
    + (IF a = Platform THEN AuctionFee(lot.gross) ELSE 0)

\* Every balance is what the recorded trades and settlements make of the funds
\* it started with, never below zero, and what is held is what the account has
\* bid: no purchase overwrites what another one or a settlement did to a shared balance.
BooksBalance ==
  \A a \in Accounts :
    LET held == [i \in Auctions |->
                   IF auction[i].status = "CLOSED" /\ auction[i].winner = a
                   THEN auction[i].gross ELSE 0]
        paid == [i \in Auctions |-> IF auction[i].status = "SETTLED" THEN LotShare(i, a) ELSE 0]
    IN
    /\ balance[a].available >= 0
    /\ balance[a].held = Total(held, MaxAuctions)
    /\ balance[a].available + balance[a].held
         = StartingFunds[a] + SumFunction([t \in trades |-> TradeShare(t, a)])
                            + Total(paid, MaxAuctions)

\* A client that is told of a purchase, by the request that made it, by one that
\* failed and found it in the books, or from the cache, has made it: also after a
\* restart the trade of that buyer, key and listing is in the books.
ConfirmedIsBooked ==
  LET Booked(u, k, l) == \E t \in trades : t.buyer = u /\ t.key = k /\ t.listing = l IN
  /\ \A r \in Requests : tx[r].at = "cache" => Booked(tx[r].user, tx[r].key, tx[r].listing)
  /\ \A u \in Users, k \in Keys : cached[u][k] # 0 => Booked(u, k, cached[u][k])

\* A listed card changes hands only in the step that books a trade of the card
\* between its old and its new owner, for the price it was listed at; any other
\* card only when its auction is settled.
OwnersAreBought ==
  [][\A c \in Cards : card'[c].owner # card[c].owner =>
       \/ \E t \in trades' \ trades :
            /\ listing[t.listing].card = c /\ listing[t.listing].price = t.gross
            /\ t.seller = card[c].owner /\ t.buyer = card'[c].owner
       \/ \E i \in Auctions :
            /\ auction[i].card = c /\ auction[i].status = "CLOSED"
            /\ auction'[i].status = "SETTLED"
            /\ auction[i].seller = card[c].owner /\ auction[i].winner = card'[c].owner]_vars

\* No purchase waits for ever: crossed purchases and settlements that wait for
\* each other's balances are resolved, and the loser is answered.
EveryPurchaseEnds == \A r \in Requests : []<>(tx[r].at = "idle")
=============================================================================
