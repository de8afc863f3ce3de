---------------------------- MODULE BidRequests ----------------------------
(***************************************************************************)
(* The request around a bid, and the settlement worker next to it,         *)
(* statement by statement.  placeBid looks for its idempotency key before  *)
(* it locks anything, then locks the auction, its own balance and that of  *)
(* the leader it displaces; the worker locks the ended auctions and then   *)
(* the balance of everybody who has a part in them.  They wait for one     *)
(* another, also in a cycle, and the server may restart at any point.      *)
(*                                                                         *)
(* A key stands for the bid it was made for, Bid[k]; the client sends it   *)
(* as often as it likes, several times at once or long afterwards.  A      *)
(* response in the cache answers without a step of the model, and the      *)
(* cache may have lost any response.  Bids are sent confirmed; module      *)
(* AuctionHouse has the confirmation, and the clock, which is reduced to   *)
(* time[a] here: before, in, or after the sealed minute.                   *)
(*                                                                         *)
(* tx[p] is the request or transaction of process p: `row' is the auction  *)
(* as it read and promoted it, `rows' are the balances it has locked,      *)
(* `draft' what it has written to them, `todo' the changes to balances     *)
(* still to make, in order, and `lots' the auctions to settle, up to `lot'. *)
(* What it writes appears when it commits.                                 *)
(*                                                                         *)
(* done is not in the code: the keys whose bids have been carried out.     *)
(***************************************************************************)
EXTENDS Money, Sequences, FiniteSets, Functions

CONSTANTS
  NumUsers, NumAuctions, Platform,
  Seller,            \* Seller[a]
  Keys, Bid,         \* Bid[k]: user, auction and amount in cents
  StartingFunds,
  Requests, Settler, \* requests served at the same time, the settlement worker
  NoOne

Users    == 1..NumUsers
Auctions == 1..NumAuctions
Procs    == Requests \cup {Settler}
Nobody   == 0

ASSUME BidsAssumption ==
  /\ NumUsers \in Nat /\ NumAuctions \in Nat /\ Platform \in Users
  /\ Seller \in [Auctions -> Users]
  /\ Bid \in [Keys -> [user : Users, auction : Auctions, amount : Nat]]
  /\ StartingFunds \in Nat
  /\ Settler \notin Requests /\ NoOne \notin Keys

VARIABLES auction, time, balance, sealed, bids, sale, tx, done

tables == <<auction, balance, sealed, bids, sale, done>>
vars   == <<tables, time, tx>>

FreeRow  == [status |-> "FREE", current |-> 0, leader |-> Nobody]
NoBid    == [max |-> 0, key |-> NoOne]
NoSale   == [winner |-> Nobody, gross |-> 0]
NoFunds  == [available |-> 0, held |-> 0]

Idle == [at |-> "idle", key |-> NoOne, row |-> FreeRow, rows |-> {},
         draft |-> [u \in Users |-> NoFunds], todo |-> <<>>, lots |-> {}, lot |-> 0]

Init ==
  /\ auction = [a \in Auctions |-> FreeRow]
  /\ time = [a \in Auctions |-> "early"]
  /\ balance = [u \in Users |-> [NoFunds EXCEPT !.available =
                                   IF u = Platform THEN 0 ELSE StartingFunds]]
  /\ sealed = [a \in Auctions |-> [u \in Users |-> NoBid]]
  /\ bids = {}
  /\ sale = [a \in Auctions |-> NoSale]
  /\ tx = [p \in Procs |-> Idle]
  /\ done = {}

-----------------------------------------------------------------------------
(* Transactions and their row locks *)

\* The client has its answer; the settlement worker waits for its next turn.
Ends(p) == tx' = [tx EXCEPT ![p] = Idle]

RetriedBug(p) ==
  tx' = [tx EXCEPT ![p] = IF p = Settler THEN Idle
                          ELSE [Idle EXCEPT !.at = "auction", !.key = tx[p].key]]

\* ROLLBACK, and an error for the client.
Abort(p) == Ends(p)

HoldsAuction(p, a) ==
  \/ tx[p].at \in {"balances", "commit"} /\ tx[p].key # NoOne /\ Bid[tx[p].key].auction = a
  \/ a \in tx[p].lots

NoRowLockBug(a) == TRUE

AuctionFree(a) == \A q \in Procs : ~HoldsAuction(q, a)

BalanceFree(p, u) == \A q \in Procs \ {p} : u \notin tx[q].rows

\* p has asked for a row that q has locked.
WaitsFor(p, q) ==
  /\ p # q
  /\ \/ tx[p].at = "auction" /\ HoldsAuction(q, Bid[tx[p].key].auction)
     \/ tx[p].at = "balances" /\ Head(tx[p].todo).user \in tx[q].rows

\* PostgreSQL looks for a cycle of waiting transactions and aborts one of them.
Waiting == {p \in Procs : \E q \in Procs : WaitsFor(p, q)}

Deadlocked(p) ==
  \E S \in SUBSET Waiting : p \in S /\ \A q \in S : \E r \in S : WaitsFor(q, r)

DeadlockVictim(p) == Deadlocked(p) /\ Abort(p) /\ UNCHANGED <<tables, time>>

\* getBalanceForUpdate and updateBalance: c.by moves from available to held, or
\* back if it is negative, and c.gain is added to what is available.
Change(u, by, gain) == [user |-> u, by |-> by, gain |-> gain]

Changed(p, c) ==
  LET old == IF c.user \in tx[p].rows THEN tx[p].draft[c.user] ELSE balance[c.user] IN
  [available |-> old.available - c.by + c.gain, held |-> old.held + c.by]

\* holdFunds, releaseFunds, spendHeld and creditAvailable: none goes below zero.
Covered(b) == b.available >= 0 /\ b.held >= 0

\* What a user has at stake in an auction, read off the tables.
Pledge(a, u) ==
  IF sealed[a][u].max > 0 THEN sealed[a][u].max
  ELSE IF auction[a].leader = u THEN auction[a].current ELSE 0

-----------------------------------------------------------------------------
(* A bid: placeBidController and placeBid *)

\* A key that is found in either table is answered with the bid it belongs to.
KnownKey(k) == k \in bids \/ \E a \in Auctions : sealed[a][Bid[k].user].key = k

Arrive(r, k) ==
  /\ tx[r].at = "idle"
  /\ auction[Bid[k].auction].status # "FREE" /\ ~KnownKey(k)
  /\ tx' = [tx EXCEPT ![r].at = "auction", ![r].key = k]
  /\ UNCHANGED <<tables, time>>

Promoted(a) ==
  [auction[a] EXCEPT !.status = IF time[a] = "late" THEN "SEALED_ENDGAME" ELSE @]

EqualBidAdmittedBug(a, amount) == amount >= AtLeast(Unit, auction[a].current)
HighEnough(a, amount) == amount >= MinimumBidFor(auction[a].current)

Admitted(k) ==
  LET a == Bid[k].auction IN
  /\ auction[a].status \in {"LIVE", "SEALED_ENDGAME"}
  /\ Seller[a] # Bid[k].user
  /\ time[a] # "over"
  /\ HighEnough(a, Bid[k].amount)

\* The bidder's hold, and for an open bid the release of the leader he displaces.
Changes(k) ==
  LET a == Bid[k].auction
      u == Bid[k].user
      l == auction[a].leader
      own == Change(u, Bid[k].amount - Pledge(a, u), 0)
  IN
  IF Promoted(a).status = "SEALED_ENDGAME" \/ l \in {u, Nobody} THEN <<own>>
  ELSE <<own, Change(l, -auction[a].current, 0)>>

LockAuction(r) ==
  LET k == tx[r].key
      a == Bid[k].auction
  IN
  /\ tx[r].at = "auction" /\ AuctionFree(a)
  /\ \/ Admitted(k) /\ tx' = [tx EXCEPT ![r].at = "balances", ![r].row = Promoted(a),
                                        ![r].todo = Changes(k)]
     \/ ~Admitted(k) /\ Abort(r)
  /\ UNCHANGED <<tables, time>>

\* One more balance, also for the settlement worker.
ChangesBalance(p) ==
  LET c == Head(tx[p].todo)
      b == Changed(p, c)
  IN
  /\ tx[p].at = "balances" /\ tx[p].todo # <<>> /\ BalanceFree(p, c.user)
  /\ \/ /\ Covered(b)
        /\ tx' = [tx EXCEPT ![p].rows = @ \cup {c.user}, ![p].draft[c.user] = b,
                            ![p].todo = Tail(@),
                            ![p].at = IF Len(tx[p].todo) > 1 THEN @
                                      ELSE IF p = Settler THEN "lots" ELSE "commit"]
     \/ ~Covered(b) /\ Abort(p)
  /\ UNCHANGED <<tables, time>>

\* The cooldown and the sliding window are asked after the bidder's own balance
\* has been locked and before it is changed; they may refuse, or Redis may fail.
IsPaced(r) ==
  /\ tx[r].at = "balances" /\ tx[r].rows = {} /\ BalanceFree(r, Bid[tx[r].key].user)
  /\ Abort(r)
  /\ UNCHANGED <<tables, time>>

Written(p) == [u \in Users |-> IF u \in tx[p].rows THEN tx[p].draft[u] ELSE balance[u]]

\* A late bid pushes the end back, from wherever time has got to since it was read.
\* bids has one row per bidder and key, which is no obstacle here: a bid that has
\* been made is too low for its own repetition.
CommitsOpen(r) ==
  LET k == tx[r].key
      a == Bid[k].auction
      led == [tx[r].row EXCEPT !.current = Bid[k].amount, !.leader = Bid[k].user]
  IN
  /\ tx[r].row.status = "LIVE"
  /\ bids' = bids \cup {k}
  /\ auction' = [auction EXCEPT ![a] = led]
  /\ time' = time \/ time' = [time EXCEPT ![a] = "early"]
  /\ UNCHANGED sealed

CommitsSealed(r) ==
  LET k == tx[r].key
      a == Bid[k].auction
  IN
  /\ tx[r].row.status = "SEALED_ENDGAME"
  /\ auction' = [auction EXCEPT ![a] = tx[r].row]
  /\ sealed' = [sealed EXCEPT ![a][Bid[k].user] = [max |-> Bid[k].amount, key |-> k]]
  /\ UNCHANGED <<bids, time>>

BidCommits(r) ==
  /\ tx[r].at = "commit"
  /\ CommitsOpen(r) \/ CommitsSealed(r)
  /\ balance' = Written(r)
  /\ done' = done \cup {tx[r].key}
  /\ Ends(r)
  /\ UNCHANGED sale

-----------------------------------------------------------------------------
(* Settlement *)

\* computeSecondPriceFromCandidates, of what each user has at stake and of the row.
Candidates(stakes) == {u \in Users : stakes[u] > 0}

TopCandidate(stakes) == CHOOSE w \in Candidates(stakes) : \A u \in Candidates(stakes) :
  stakes[w] > stakes[u] \/ (stakes[w] = stakes[u] /\ w <= u)

SecondPrice(stakes, row) ==
  LET w    == TopCandidate(stakes)
      rest == {stakes[u] : u \in Candidates(stakes) \ {w}}
      next == CHOOSE n \in rest : \A m \in rest : n >= m
  IN
  CASE rest # {} -> AtMost(stakes[w], next + MinIncrement(next))
    [] rest = {} /\ w = row.leader -> row.current
    [] OTHER -> AtMost(stakes[w], MinimumBidFor(row.current))

Stakes(a)  == [u \in Users |-> Pledge(a, u)]
Bidders(a) == Candidates(Stakes(a))
Winner(a)  == TopCandidate(Stakes(a))
Price(a)   == SecondPrice(Stakes(a), auction[a])

\* The losers, the highest first and equal ones in the order of their updates, which
\* may be any; the winner, the seller and the platform.
Ranked(a) ==
  LET losers == Bidders(a) \ {Winner(a)} IN
  {s \in Bijection(1..Cardinality(losers), losers) :
     \A m, n \in DOMAIN s : m < n => Pledge(a, s[m]) >= Pledge(a, s[n])}

Payments(a, losers) ==
  LET w == Winner(a)
      fee == AuctionFee(Price(a))
  IN
  [n \in DOMAIN losers |-> Change(losers[n], -Pledge(a, losers[n]), 0)]
    \o <<Change(w, -Pledge(a, w), -Price(a)), Change(Seller[a], 0, Price(a) - fee),
         Change(Platform, 0, fee)>>

\* The worker closes what is over, waiting for the bids that have a row of it.
SettlementStarts ==
  LET due == {a \in Auctions : /\ auction[a].status \in {"LIVE", "SEALED_ENDGAME"}
                               /\ time[a] = "over"}
  IN
  /\ tx[Settler].at = "idle" /\ due # {} /\ \A a \in due : AuctionFree(a)
  /\ tx' = [tx EXCEPT ![Settler].at = "lots", ![Settler].lots = due]
  /\ UNCHANGED <<tables, time>>

\* One after the other; `lot' is the last one it has started.
NextLot ==
  LET more == {a \in tx[Settler].lots : a > tx[Settler].lot} IN
  /\ tx[Settler].at = "lots"
  /\ \/ more = {} /\ tx' = [tx EXCEPT ![Settler].at = "commit"]
     \/ \E a \in more :
          /\ \A b \in more : a <= b
          /\ \/ Bidders(a) = {} /\ tx' = [tx EXCEPT ![Settler].lot = a]
             \/ /\ Bidders(a) # {}
                /\ \E losers \in Ranked(a) :
                     tx' = [tx EXCEPT ![Settler].lot = a, ![Settler].at = "balances",
                                      ![Settler].todo = Payments(a, losers)]
  /\ UNCHANGED <<tables, time>>

SettlementCommits ==
  LET lots == tx[Settler].lots
      Sold(a) == IF Bidders(a) = {} THEN NoSale ELSE [winner |-> Winner(a), gross |-> Price(a)]
  IN
  /\ tx[Settler].at = "commit"
  /\ balance' = Written(Settler)
  /\ auction' = [a \in Auctions |->
                   IF a \in lots THEN [auction[a] EXCEPT !.status = "SETTLED"] ELSE auction[a]]
  /\ sale' = [a \in Auctions |-> IF a \in lots THEN Sold(a) ELSE sale[a]]
  /\ Ends(Settler)
  /\ UNCHANGED <<time, sealed, bids, done>>

-----------------------------------------------------------------------------
(* The rest of the service *)

Opens(a) ==
  /\ auction[a].status = "FREE"
  /\ auction' = [auction EXCEPT ![a].status = "LIVE"]
  /\ UNCHANGED <<balance, sealed, bids, sale, done, time, tx>>

TimePasses(a) ==
  /\ auction[a].status # "FREE" /\ time[a] # "over"
  /\ \A b \in 1..(a - 1) : time[b] = "over"  \* bound: they end one after the other
  /\ time' = [time EXCEPT ![a] = IF @ = "early" THEN "late" ELSE "over"]
  /\ UNCHANGED <<tables, tx>>

\* Somebody looks at the auction in its last minute.
IsSealed(a) ==
  /\ auction[a].status = "LIVE" /\ time[a] = "late" /\ AuctionFree(a)
  /\ auction' = [auction EXCEPT ![a] = Promoted(a)]
  /\ UNCHANGED <<balance, sealed, bids, sale, done, time, tx>>

\* Connections break and transactions roll back; clients may send their keys again.
Restart ==
  /\ tx' = [p \in Procs |-> Idle]
  /\ UNCHANGED <<tables, time>>

-----------------------------------------------------------------------------
PlaceBid(r) ==
  \/ LockAuction(r) \/ IsPaced(r) \/ ChangesBalance(r)
  \/ BidCommits(r) \/ DeadlockVictim(r)

Settlement ==
  \/ SettlementStarts \/ NextLot \/ ChangesBalance(Settler) \/ SettlementCommits
  \/ DeadlockVictim(Settler)

Next ==
  \/ \E r \in Requests, k \in Keys : Arrive(r, k)
  \/ \E r \in Requests : PlaceBid(r)
  \/ Settlement
  \/ \E a \in Auctions : Opens(a) \/ TimePasses(a) \/ IsSealed(a)
  \/ Restart

Spec == Init /\ [][Next]_vars

\* PostgreSQL grants a row to those who wait for it in turn, and finds every deadlock.
FairSpec == Spec /\ SF_vars(Settlement) /\ \A r \in Requests : SF_vars(PlaceBid(r))

-----------------------------------------------------------------------------
(* Properties *)

PhaseOf(status) ==
  CASE status = "FREE" -> "none" [] status = "LIVE" -> "open"
    [] status = "SEALED_ENDGAME" -> "veiled" [] status = "SETTLED" -> "done"

\* The refinement mapping: what the escrow sees of the tables.
Available     == [u \in Users |-> balance[u].available]
Pledges       == [a \in Auctions |-> [u \in Users |->
                    IF auction[a].status = "SETTLED" THEN 0 ELSE Pledge(a, u)]]
VisiblePrices == [a \in Auctions |-> auction[a].current]
Phases        == [a \in Auctions |-> PhaseOf(auction[a].status)]
Sellers       == [a \in Auctions |->
                    IF auction[a].status = "FREE" THEN Platform ELSE Seller[a]]

PromisedEscrow == INSTANCE Escrow WITH
  Amounts <- {Bid[k].amount : k \in Keys},
  Prices <- Nat,
  funds <- Available,
  pledge <- Pledges,
  price <- VisiblePrices,
  phase <- Phases,
  seller <- Sellers

\* Interleaved statement by statement, with waits, deadlocks, aborts and restarts,
\* bids and settlements are still the whole steps of the escrow, each on the
\* tables as they are when it commits: no bid is lost or paid back twice.
BidsImplementEscrow == PromisedEscrow!Spec

\* A key has its effect once, however often and whenever it is sent, with one
\* exception: a sealed bid that its bidder has replaced by another one.
OnlyReplacedBidsReturn ==
  [][\A r \in Requests :
       LET k == tx[r].key
           own == sealed[Bid[k].auction][Bid[k].user]
       IN  tx[r].at = "commit" /\ tx'[r].at = "idle" /\ k \in done /\ tables' # tables =>
             k \notin bids /\ own.key \notin {NoOne, k}]_vars

\* Every request for a bid is answered: crossed bids and settlements that wait for
\* each other's balances are resolved, and nobody is left holding a row.
EveryBidEnds == \A r \in Requests : []<>(tx[r].at = "idle")
=============================================================================
