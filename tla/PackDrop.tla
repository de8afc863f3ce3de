------------------------------ MODULE PackDrop ------------------------------
(***************************************************************************)
(* Buying packs of a drop (services/packService.ts): every request runs a  *)
(* database transaction that locks the drop, then the seed commitment,     *)
(* then the balance, and keeps the three row locks until it commits or     *)
(* rolls back.  Its writes are seen by others when it commits.             *)
(*                                                                         *)
(* A request ends with one of three answers: "bought" (the purchase),      *)
(* "refused" (a check of the purchase says no: sold out, limit reached,    *)
(* seed used, too poor, key used for another drop) or "error" (a query or  *)
(* a call of Redis failed), which tells nothing of the purchase.           *)
(* Whatever stopped the transaction, the request looks for a purchase with *)
(* its key before it gives up.                                             *)
(*                                                                         *)
(* A definition whose name ends in Bug is a plausible mistake in the one   *)
(* that follows it, kept to see which property notices.                    *)
(***************************************************************************)
EXTENDS Integers, FiniteSets

CONSTANTS Users, Drops, Keys,
          Sales,          \* what clients ask for: a user, a drop and a key
          Conns,          \* requests served at the same time
          NumSeeds,       \* bound on the commitments ever reserved
          Stock,          \* packs of each drop
          Prices, FirstPrice,
          StartingFunds,
          MaxPacks,       \* ACCOUNT_LIMITS.maxPacksPerDrop
          MaxArrivals, MaxUpdates   \* bounds: requests, price changes

NoOne == "nobody"

ASSUME PackAssumption ==
  /\ NumSeeds \in Nat /\ Stock \in [Drops -> Nat] /\ StartingFunds \in Nat
  /\ MaxPacks \in Nat /\ MaxArrivals \in Nat /\ MaxUpdates \in Nat
  /\ Prices \subseteq Nat /\ FirstPrice \in Prices
  /\ NoOne \notin Users /\ Sales \subseteq [user : Users, drop : Drops, key : Keys]

Seeds   == 1..NumSeeds      \* in the order of reserved_at
NoSeed  == 0
Genesis == 0                \* previous_event_hash of the first event

VARIABLES
  inventory, price,     \* drops
  available, ledger,    \* balances; the PACK_PURCHASE rows of the ledger, added up
  purchases,            \* pack_purchases joined with pack_opening_fairness
  seed,                 \* pack_fairness_commitments
  audit,                \* pack_opening_audit_events
  req,                  \* per request: where it is and what it has read
  cached,               \* the purchases whose answers are in Redis
  told,                 \* history: how often clients were given each answer
  arrivals, updates     \* bounds

drops    == <<inventory, price>>
money    == <<available, ledger>>
bounds   == <<arrivals, updates>>
database == <<inventory, price, available, ledger, purchases, seed, audit>>
vars     == <<inventory, price, available, ledger, purchases, seed, audit, req, cached, told,
              arrivals, updates>>

\* A request at "refused" or "broken" has rolled back after a check or a query; one at
\* "reply" has its purchase.
Steps == {"idle", "reserve", "create", "find", "drop", "seed", "debit", "append", "commit",
          "refused", "broken", "reply"}

Answers == {"bought", "refused", "error"}

Idle == [at |-> "idle", user |-> NoOne, drop |-> NoOne, key |-> NoOne, seed |-> NoSeed,
         paid |-> 0, left |-> 0, event |-> 0, prev |-> 0]

Init ==
  /\ inventory = Stock
  /\ price = [d \in Drops |-> FirstPrice]
  /\ available = [u \in Users |-> StartingFunds]
  /\ ledger = [u \in Users |-> 0]
  /\ purchases = {}
  /\ seed = [s \in Seeds |-> [status |-> "NONE", owner |-> NoOne, lapsed |-> FALSE]]
  /\ audit = {}
  /\ req = [r \in Conns |-> Idle]
  /\ cached = {}
  /\ told = [m \in Sales |-> [a \in Answers |-> 0]]
  /\ arrivals = 0 /\ updates = 0

Proceed(r, step) == req' = [req EXCEPT ![r].at = step]

Sale(x) == [user |-> x.user, drop |-> x.drop, key |-> x.key]

Tell(m, a) == told' = [told EXCEPT ![m][a] = @ + 1]

Answer(r, a) ==
  /\ Tell(Sale(req[r]), a)
  /\ req' = [req EXCEPT ![r] = Idle]

\* The transaction ends, which gives back its locks.
Leave(r, step) ==
  req' = [req EXCEPT ![r] = [Idle EXCEPT !.at = step, !.user = req[r].user,
                                         !.drop = req[r].drop, !.key = req[r].key]]

\* What a request that got this far has locked.
DropNotLockedBug(r, d) == FALSE
HasDrop(r, d) == req[r].at \in {"seed", "debit", "append", "commit"} /\ req[r].drop = d

HasSeed(r, s) == req[r].at \in {"debit", "append", "commit"} /\ req[r].seed = s

BalanceNotLockedBug(r, u) == FALSE
HasBalance(r, u) == req[r].at \in {"append", "commit"} /\ req[r].user = u

-----------------------------------------------------------------------------
(* Seed commitments *)

Usable(u) == {s \in Seeds : seed[s].owner = u /\ seed[s].status = "RESERVED" /\ ~seed[s].lapsed}

Newest(S) == CHOOSE s \in S : \A t \in S : t <= s

\* The controller reserves a commitment when the client named none: the newest
\* one that is still good, or else a new one.
FindReserved(r) ==
  /\ req[r].at = "reserve"
  /\ \/ /\ Usable(req[r].user) # {}
        /\ req' = [req EXCEPT ![r].at = "find", ![r].seed = Newest(Usable(req[r].user))]
     \/ /\ Usable(req[r].user) = {}
        /\ Proceed(r, "create")
  /\ UNCHANGED <<database, cached, told, bounds>>

CreateCommitment(r) ==
  /\ req[r].at = "create"
  /\ \E s \in Seeds :
       /\ seed[s].status = "NONE" /\ \A t \in 1..(s - 1) : seed[t].status # "NONE"
       /\ seed' = [seed EXCEPT ![s] = [status |-> "RESERVED", owner |-> req[r].user,
                                       lapsed |-> FALSE]]
       /\ req' = [req EXCEPT ![r].at = "find", ![r].seed = s]
  /\ UNCHANGED <<drops, money, purchases, audit, cached, told, bounds>>

\* expires_at passes.
Lapse(s) ==
  /\ seed[s].status = "RESERVED" /\ ~seed[s].lapsed
  /\ seed' = [seed EXCEPT ![s].lapsed = TRUE]
  /\ UNCHANGED <<drops, money, purchases, audit, req, cached, told, bounds>>

\* revealPack: the server seed of an opening becomes public.
Reveal(p) ==
  /\ \A r \in Conns : ~HasSeed(r, p.seed)
  /\ seed' = [seed EXCEPT ![p.seed].status = "REVEALED"]
  /\ UNCHANGED <<drops, money, purchases, audit, req, cached, told, bounds>>

-----------------------------------------------------------------------------
(* The purchase *)

\* A client names a commitment of his, or of somebody else, or none.
Arrive(r, m, s) ==
  /\ req[r].at = "idle" /\ arrivals < MaxArrivals
  /\ \A p \in cached : ~(p.user = m.user /\ p.key = m.key)
  /\ s # NoSeed => seed[s].status # "NONE"
  /\ arrivals' = arrivals + 1
  /\ req' = [req EXCEPT ![r] = [Idle EXCEPT !.user = m.user, !.drop = m.drop, !.key = m.key,
                                  !.seed = s,
                                  !.at = IF s = NoSeed THEN "reserve" ELSE "find"]]
  /\ UNCHANGED <<database, cached, told, updates>>

Earlier(r) == {p \in purchases : p.user = req[r].user /\ p.key = req[r].key}

\* A request with a key that has an answer in Redis gets the same one, whatever it asks
\* for; when Redis does not answer it gets an error.
Replay(m) ==
  /\ arrivals < MaxArrivals
  /\ \E p \in cached :
       /\ p.user = m.user /\ p.key = m.key
       /\ Tell(Sale(p), "bought") \/ Tell(m, "error")
  /\ arrivals' = arrivals + 1
  /\ UNCHANGED <<database, req, cached, updates>>

\* Answers are kept for a day.
Expire(p) ==
  /\ cached' = cached \ {p}
  /\ UNCHANGED <<database, req, told, bounds>>

\* A purchase with the same key answers the request, unless it was for another drop.
FindPurchase(r) ==
  /\ req[r].at = "find"
  /\ \/ /\ \E p \in Earlier(r) : p.drop = req[r].drop
        /\ Leave(r, "reply")
     \/ /\ \E p \in Earlier(r) : p.drop # req[r].drop
        /\ Leave(r, "refused")
     \/ /\ Earlier(r) = {}
        /\ Proceed(r, "drop")
  /\ UNCHANGED <<database, cached, told, bounds>>

OneTooManyBug(u, d) == Cardinality({p \in purchases : p.user = u /\ p.drop = d}) > MaxPacks
LimitReached(u, d) == Cardinality({p \in purchases : p.user = u /\ p.drop = d}) >= MaxPacks

\* The row is locked first and read then.  Outside of its dates the drop sells nothing.
\* The advisory lock on user and drop never has to be waited for: it is taken
\* under the lock of the drop.
LockDrop(r) ==
  LET d == req[r].drop IN
  /\ req[r].at = "drop"
  /\ \A q \in Conns : ~HasDrop(q, d)
  /\ \/ /\ inventory[d] > 0 /\ ~LimitReached(req[r].user, d)
        /\ req' = [req EXCEPT ![r].at = "seed", ![r].paid = price[d]]
     \/ Leave(r, "refused")
  /\ UNCHANGED <<database, cached, told, bounds>>

AnybodysSeedBug(r) == seed[req[r].seed].status = "RESERVED" /\ ~seed[req[r].seed].lapsed
SeedIsGood(r) == req[r].seed \in Usable(req[r].user)

LockSeed(r) ==
  /\ req[r].at = "seed"
  /\ \A q \in Conns : ~HasSeed(q, req[r].seed)
  /\ \/ SeedIsGood(r) /\ Proceed(r, "debit")
     \/ ~SeedIsGood(r) /\ Leave(r, "refused")
  /\ UNCHANGED <<database, cached, told, bounds>>

\* The unique columns of pack_purchases and pack_opening_fairness.
Duplicate(r) ==
  \E p \in purchases : \/ p.user = req[r].user /\ p.key = req[r].key
                       \/ p.seed = req[r].seed

CanPay(r) == available[req[r].user] >= req[r].paid

\* The balance is read under its lock and written back as an absolute number;
\* the rows of the purchase are inserted.
Debit(r) ==
  LET u == req[r].user IN
  /\ req[r].at = "debit"
  /\ \A q \in Conns : ~HasBalance(q, u)
  /\ \/ /\ CanPay(r) /\ ~Duplicate(r)
        /\ req' = [req EXCEPT ![r].at = "append", ![r].left = available[u] - req[r].paid]
     \/ ~CanPay(r) /\ Leave(r, "refused")
     \/ CanPay(r) /\ Duplicate(r) /\ Leave(r, "broken")
  /\ UNCHANGED <<database, cached, told, bounds>>

LatestEvent == Newest({Genesis} \cup {e.id : e \in audit})

\* A bigserial: larger than every number given out, gaps left out.
NextEvent == 1 + Newest({Genesis} \cup {e.id : e \in audit} \cup {req[r].event : r \in Conns})

\* The audit event names the latest one that is committed.
AppendAudit(r) ==
  /\ req[r].at = "append"
  /\ req' = [req EXCEPT ![r].at = "commit", ![r].event = NextEvent, ![r].prev = LatestEvent]
  /\ UNCHANGED <<database, cached, told, bounds>>

Opening(r) == [user |-> req[r].user, drop |-> req[r].drop, key |-> req[r].key,
               seed |-> req[r].seed, paid |-> req[r].paid]

Write(r) ==
  LET q == req[r] IN
  /\ inventory' = [inventory EXCEPT ![q.drop] = @ - 1]
  /\ available' = [available EXCEPT ![q.user] = q.left]
  /\ ledger' = [ledger EXCEPT ![q.user] = @ - q.paid]
  /\ purchases' = purchases \cup {Opening(r)}
  /\ seed' = [seed EXCEPT ![q.seed].status = "CONSUMED"]
  /\ audit' = audit \cup {[id |-> q.event, prev |-> q.prev]}

\* The answer to COMMIT may be lost: then the catch block runs after all.
Commit(r) ==
  /\ req[r].at = "commit"
  /\ Write(r)
  /\ Leave(r, "reply") \/ Leave(r, "broken")
  /\ UNCHANGED <<price, cached, told, bounds>>

\* The answer is put in Redis.
Store(r) == cached' = cached \cup {p \in Earlier(r) : p.drop = req[r].drop}

\* Any query or call may fail.  In the transaction of the purchase that aborts it, and
\* the catch block runs.  Outside of it the error is the answer: when the seed is
\* reserved or the card pool fetched, when the lookup of the catch block itself fails,
\* and when a purchase that was made is not known to be in Redis.
QueryFails(r) ==
  /\ \/ /\ req[r].at \in {"find", "drop", "seed", "debit", "append", "commit"}
        /\ Leave(r, "broken") /\ UNCHANGED <<cached, told>>
     \/ /\ req[r].at \in {"reserve", "create", "find", "refused", "broken", "reply"}
        /\ Answer(r, "error") /\ UNCHANGED cached
     \/ req[r].at = "reply" /\ Answer(r, "error") /\ Store(r)
  /\ UNCHANGED <<database, bounds>>

RecoverBlindBug(r) ==
  /\ req[r].at \in {"refused", "broken"}
  /\ Answer(r, IF req[r].at = "refused" THEN "refused" ELSE "error")
  /\ UNCHANGED <<database, cached, bounds>>

RetryForeverBug(r) ==
  /\ req[r].at \in {"refused", "broken"}
  /\ \/ /\ \E p \in Earlier(r) : p.drop = req[r].drop
        /\ Leave(r, "reply")
     \/ /\ \A p \in Earlier(r) : p.drop # req[r].drop
        /\ Proceed(r, "find")
  /\ UNCHANGED <<database, cached, told, bounds>>

\* The catch block: a purchase with the key is the answer after all.  If there is none
\* the error that led here is.
Recover(r) ==
  /\ req[r].at \in {"refused", "broken"}
  /\ \/ /\ \E p \in Earlier(r) : p.drop = req[r].drop
        /\ Leave(r, "reply") /\ UNCHANGED told
     \/ /\ \E p \in Earlier(r) : p.drop # req[r].drop
        /\ Answer(r, "refused")
     \/ /\ Earlier(r) = {}
        /\ Answer(r, IF req[r].at = "refused" THEN "refused" ELSE "error")
  /\ UNCHANGED <<database, cached, bounds>>

\* The answer is kept and sent.
Reply(r) ==
  /\ req[r].at = "reply"
  /\ Answer(r, "bought") /\ Store(r)
  /\ UNCHANGED <<database, bounds>>

\* The client is gone or the server stops: the transaction rolls back and there is no
\* answer at all.
Vanish(r) ==
  /\ req[r].at # "idle"
  /\ req' = [req EXCEPT ![r] = Idle]
  /\ UNCHANGED <<database, cached, told, bounds>>

-----------------------------------------------------------------------------
(* Everything else that writes these tables, and the whole *)

\* An update of the row waits for the purchase that has it locked.
AdminPrice(d, p) ==
  /\ \A r \in Conns : ~HasDrop(r, d)
  /\ p # price[d] /\ updates < MaxUpdates
  /\ updates' = updates + 1
  /\ price' = [price EXCEPT ![d] = p]
  /\ UNCHANGED <<inventory, money, purchases, seed, audit, req, cached, told, arrivals>>

\* What a request does when nothing fails.
Work(r) ==
  \/ FindReserved(r) \/ CreateCommitment(r) \/ FindPurchase(r) \/ LockDrop(r)
  \/ LockSeed(r) \/ Debit(r) \/ AppendAudit(r) \/ Commit(r)
  \/ Recover(r) \/ Reply(r)

Request(r) == Work(r) \/ QueryFails(r) \/ Vanish(r)

Next ==
  \/ \E s \in Seeds : Lapse(s)
  \/ \E p \in purchases : Reveal(p)
  \/ \E p \in cached : Expire(p)
  \/ \E m \in Sales : Replay(m)
  \/ \E d \in Drops, p \in Prices : AdminPrice(d, p)
  \/ \E r \in Conns : \/ \E m \in Sales, s \in Seeds \cup {NoSeed} : Arrive(r, m, s)
                      \/ Request(r)

Spec == Init /\ [][Next]_vars

\* Queries are answered, locks that are free are granted.
Fairness == \A r \in Conns : WF_vars(Work(r))

FairSpec == Spec /\ Fairness

-----------------------------------------------------------------------------
Purchases == {p \in [user : Users, drop : Drops, key : Keys, seed : Seeds, paid : Prices] :
                Sale(p) \in Sales}

Requests == [at : Steps, user : Users \cup {NoOne}, drop : Drops \cup {NoOne},
             key : Keys \cup {NoOne}, seed : Seeds \cup {NoSeed}, paid : Nat, left : Nat,
             event : Nat, prev : Nat]

\* Columns, rows and locals have values of their types; no balance is negative.
TypeOK ==
  /\ inventory \in [Drops -> Int] /\ price \in [Drops -> Prices]
  /\ available \in [Users -> Nat] /\ ledger \in [Users -> Int]
  /\ purchases \subseteq Purchases
  /\ seed \in [Seeds -> [status : {"NONE", "RESERVED", "CONSUMED", "REVEALED"},
                         owner : Users \cup {NoOne}, lapsed : BOOLEAN]]
  /\ audit \subseteq [id : Nat, prev : Nat]
  /\ req \in [Conns -> Requests]
  /\ cached \subseteq Purchases /\ told \in [Sales -> [Answers -> Nat]]
  /\ arrivals \in 0..MaxArrivals /\ updates \in 0..MaxUpdates

\* Requests that race for the last pack, fail halfway or are retried neither
\* oversell a drop nor lose one of its packs.
StockAccounted ==
  \A d \in Drops :
    /\ inventory[d] >= 0
    /\ inventory[d] + Cardinality({p \in purchases : p.drop = d}) = Stock[d]

\* A balance and the ledger tell the same story: purchases of one user in two
\* drops at a time do not overwrite each other's debit.
BalanceMatchesLedger == \A u \in Users : available[u] = StartingFunds + ledger[u]

\* No interleaving of a user's requests gets him more packs of a drop than the limit.
PackLimit ==
  \A u \in Users, d \in Drops : Cardinality({p \in purchases : p.user = u /\ p.drop = d}) <= MaxPacks

\* A commitment backs one opening, that of the user it was reserved for, and
\* is not on offer again: nobody opens a pack with a seed that was shown.
SeedsAreSpent ==
  /\ \A p, q \in purchases : p.seed = q.seed => p = q
  /\ \A p \in purchases : seed[p.seed].owner = p.user /\ seed[p.seed].status # "RESERVED"

\* The price of a pack does not change under a purchase: what is paid is the
\* price of the drop at the moment the purchase is committed.
PaidPriceOnSale ==
  [][\A p \in purchases' : p \in purchases \/ p.paid = price[p.drop]]_vars

\* The key made this very purchase.
Bought(m) == \E p \in purchases : Sale(p) = m

Given(m, a) == told[m][a] < told'[m][a]

\* Clients may trust what they are told, however their requests with one key race, fail
\* and are repeated.  Who is told that his key bought a pack has it.  Who is refused
\* has not, neither by this request nor by an earlier one that was answered with an error
\* or not at all; nobody is refused what he was told to have bought.
AnswersAgree ==
  [][\A m \in Sales : /\ Given(m, "bought") => Bought(m)
                      /\ Given(m, "refused") => ~Bought(m) /\ told[m]["bought"] = 0]_vars

\* Requests do not wait for each other's locks in a circle and do not hold
\* locks for ever: each one is answered, or dropped by a failure.
EveryRequestEnds == \A r \in Conns : []<>(req[r].at = "idle")

\* The events of the public audit log form one chain (docs/ARCHITECTURE.md,
\* "Public audit page can verify chain continuity").  Purchases of two drops
\* that run at the same time name the same previous event.
AuditIsAChain == \A e, f \in audit : e.prev = f.prev => e = f
=============================================================================
