--------------------------- MODULE PackDropProofs ---------------------------
(***************************************************************************)
(* What holds of pack purchases for any number of users, drops, keys,      *)
(* requests at a time and commitments.                                     *)
(*                                                                         *)
(* The invariant says what a request may rely on as long as it holds a     *)
(* lock: the row it read is the row that is there.                         *)
(***************************************************************************)
EXTENDS PackDrop, ArithmeticProofs

HoldsDrop(q)    == q.at \in {"seed", "debit", "append", "commit"}
HoldsSeed(q)    == q.at \in {"debit", "append", "commit"}
HoldsBalance(q) == q.at \in {"append", "commit"}

BoughtBy(P, u, d) == {p \in P : p.user = u /\ p.drop = d}
SoldOf(P, d)      == {p \in P : p.drop = d}

\* A request knows who wants what, and after a while with which commitment.
Known(q) ==
  /\ q.at # "idle" => /\ q.user \in Users /\ q.drop \in Drops /\ q.key \in Keys
                      /\ Sale(q) \in Sales
  /\ q.at \in {"find", "drop"} \/ HoldsDrop(q) => q.seed \in Seeds

DropHeld(q) ==
  HoldsDrop(q) =>
    /\ inventory[q.drop] > 0 /\ q.paid = price[q.drop]
    /\ Cardinality(BoughtBy(purchases, q.user, q.drop)) < MaxPacks

SeedHeld(q) ==
  HoldsSeed(q) => seed[q.seed].owner = q.user /\ seed[q.seed].status = "RESERVED"

BalanceHeld(q) ==
  HoldsBalance(q) =>
    /\ q.left = available[q.user] - q.paid
    /\ \A p \in purchases : ~(p.user = q.user /\ p.key = q.key) /\ p.seed # q.seed

Fit(q) == Known(q) /\ DropHeld(q) /\ SeedHeld(q) /\ BalanceHeld(q)

\* No row is locked twice.
Apart(q, t) ==
  /\ ~(HoldsDrop(q) /\ HoldsDrop(t) /\ q.drop = t.drop)
  /\ ~(HoldsSeed(q) /\ HoldsSeed(t) /\ q.seed = t.seed)
  /\ ~(HoldsBalance(q) /\ HoldsBalance(t) /\ q.user = t.user)

RequestsFit == \A r \in Conns : Fit(req[r])

LocksExclude == \A r, t \in Conns : r # t => Apart(req[r], req[t])

AnswersTyped == cached \subseteq Purchases /\ told \in [Sales -> [Answers -> Nat]]

Lockless == {"idle", "reserve", "create", "find", "drop", "refused", "broken", "reply"}

\* Without a largest event there would be no next one.
EventsBounded ==
  \E n \in Nat : /\ \A e \in audit : e.id <= n
                 /\ \A r \in Conns : req[r].event <= n

\* SeedsAreSpent, and that a commitment without a purchase is never taken for one.
SpentForGood ==
  /\ \A p, q \in purchases : p.seed = q.seed => p = q
  /\ \A p \in purchases :
       seed[p.seed].owner = p.user /\ seed[p.seed].status \in {"CONSUMED", "REVEALED"}

Inv ==
  /\ TypeOK /\ IsFiniteSet(purchases) /\ EventsBounded
  /\ RequestsFit /\ LocksExclude
  /\ StockAccounted /\ BalanceMatchesLedger /\ PackLimit /\ SpentForGood

-----------------------------------------------------------------------------
(* Data *)

\* A bounded set of events has a largest one.
LEMMA NewestExists ==
  ASSUME NEW S \in SUBSET Nat, S # {}, NEW n \in Nat, \A s \in S : s <= n
  PROVE  Newest(S) \in S
<1> DEFINE B == {k \in Nat : \E s \in S : s >= k}
<1>1. CASE \A k \in Nat : k \in B => k + 1 \in B
  <2>1. 0 \in B
    <3>1. PICK s \in S : s \in Nat
      OBVIOUS
    <3> QED
      BY <3>1
  <2> HIDE DEF B
  <2>2. \A k \in Nat : k \in B
    BY <1>1, <2>1, SetInduction
  <2>3. n + 1 \in B
    BY <2>2
  <2> QED
    BY <2>3 DEF B
<1>2. CASE \E k \in Nat : k \in B /\ k + 1 \notin B
  <2>1. PICK k \in Nat : k \in B /\ k + 1 \notin B
    BY <1>2
  <2>2. PICK s \in S : s >= k
    BY <2>1
  <2>3. \A t \in S : t <= s
    BY <2>1, <2>2
  <2> QED
    BY <2>3 DEF Newest
<1> QED
  BY <1>1, <1>2

LEMMA SetStep ==
  ASSUME NEW q \in Requests, NEW step \in Steps
  PROVE  /\ [q EXCEPT !.at = step] \in Requests
         /\ [q EXCEPT !.at = step] =
              [at |-> step, user |-> q.user, drop |-> q.drop, key |-> q.key, seed |-> q.seed,
               paid |-> q.paid, left |-> q.left, event |-> q.event, prev |-> q.prev]
BY DEF Requests

LEMMA IdleIsARequest == Idle \in Requests /\ Idle.at = "idle" /\ Idle.event = 0
BY DEF Idle, Requests, Steps, NoSeed

LEMMA LeavingIsARequest ==
  \A u \in Users, d \in Drops, k \in Keys, step \in Steps :
    [Idle EXCEPT !.at = step, !.user = u, !.drop = d, !.key = k] \in Requests
BY DEF Idle, Requests, NoSeed

LEMMA PartsAreFinite ==
  ASSUME NEW P, IsFiniteSet(P), NEW u, NEW d
  PROVE  /\ IsFiniteSet(SoldOf(P, d)) /\ Cardinality(SoldOf(P, d)) \in Nat
         /\ IsFiniteSet(BoughtBy(P, u, d)) /\ Cardinality(BoughtBy(P, u, d)) \in Nat
<1>1. SoldOf(P, d) \in SUBSET P /\ BoughtBy(P, u, d) \in SUBSET P
  BY DEF SoldOf, BoughtBy
<1> QED
  BY <1>1, FS_Subset, FS_CardinalityType

\* One more purchase is one more of its drop ...
LEMMA OneMoreSold ==
  ASSUME NEW P, IsFiniteSet(P), NEW x, x \notin P, NEW d
  PROVE  Cardinality(SoldOf(P \cup {x}, d)) =
           Cardinality(SoldOf(P, d)) + (IF x.drop = d THEN 1 ELSE 0)
<1>1. IsFiniteSet(SoldOf(P, d)) /\ Cardinality(SoldOf(P, d)) \in Nat
  BY PartsAreFinite
<1>2. CASE x.drop = d
  <2>1. x \notin SoldOf(P, d) /\ SoldOf(P \cup {x}, d) = SoldOf(P, d) \cup {x}
    BY <1>2 DEF SoldOf
  <2>2. Cardinality(SoldOf(P, d) \cup {x}) = Cardinality(SoldOf(P, d)) + 1
    BY <1>1, <2>1, FS_AddElement
  <2> QED
    BY <1>2, <2>1, <2>2
<1>3. CASE x.drop # d
  <2>1. SoldOf(P \cup {x}, d) = SoldOf(P, d)
    BY <1>3 DEF SoldOf
  <2> QED
    BY <1>1, <1>3, <2>1
<1> QED
  BY <1>2, <1>3

\* ... and of its buyer.
LEMMA OneMoreBought ==
  ASSUME NEW P, IsFiniteSet(P), NEW x, x \notin P, NEW u, NEW d
  PROVE  Cardinality(BoughtBy(P \cup {x}, u, d)) =
           Cardinality(BoughtBy(P, u, d)) + (IF x.user = u /\ x.drop = d THEN 1 ELSE 0)
<1>1. IsFiniteSet(BoughtBy(P, u, d)) /\ Cardinality(BoughtBy(P, u, d)) \in Nat
  BY PartsAreFinite
<1>2. CASE x.user = u /\ x.drop = d
  <2>1. x \notin BoughtBy(P, u, d) /\ BoughtBy(P \cup {x}, u, d) = BoughtBy(P, u, d) \cup {x}
    BY <1>2 DEF BoughtBy
  <2>2. Cardinality(BoughtBy(P, u, d) \cup {x}) = Cardinality(BoughtBy(P, u, d)) + 1
    BY <1>1, <2>1, FS_AddElement
  <2> QED
    BY <1>2, <2>1, <2>2
<1>3. CASE ~(x.user = u /\ x.drop = d)
  <2>1. BoughtBy(P \cup {x}, u, d) = BoughtBy(P, u, d)
    BY <1>3 DEF BoughtBy
  <2> QED
    BY <1>1, <1>3, <2>1
<1> QED
  BY <1>2, <1>3

-----------------------------------------------------------------------------
(* Steps of one request that leave the database alone *)

\* A request in a step without locks relies on nothing.
LEMMA FreeFits ==
  ASSUME NEW q, q.at \in Lockless, Known(q)
  PROVE  Fit(q) /\ \A t : Apart(q, t)
BY DEF Lockless, Fit, DropHeld, SeedHeld, BalanceHeld, Apart, HoldsDrop, HoldsSeed, HoldsBalance

\* What fits the tables fits them as long as they do not change.
LEMMA FitStays ==
  ASSUME UNCHANGED database, NEW q, Fit(q)
  PROVE  Fit(q)'
<1>1. UNCHANGED <<inventory, price, available, purchases, seed>>
  BY DEF database
<1> QED
  BY <1>1 DEF Fit, Known, DropHeld, SeedHeld, BalanceHeld

LEMMA LocalStep ==
  ASSUME Inv, UNCHANGED database, NEW r \in Conns, NEW x \in Requests,
         req' = [req EXCEPT ![r] = x], Fit(x),
         \A t \in Conns : t # r => Apart(x, req[t]),
         AnswersTyped', arrivals' \in 0..MaxArrivals, updates' = updates
  PROVE  Inv'
<1>1. UNCHANGED <<inventory, price, available, ledger, purchases, seed, audit>>
  BY DEF database
<1>2. req' \in [Conns -> Requests]
  BY DEF Inv, TypeOK
<1>3. req'[r] = x /\ \A t \in Conns : t # r => req'[t] = req[t]
  BY DEF Inv, TypeOK
<1>4. TypeOK'
  BY <1>1, <1>2 DEF Inv, TypeOK, AnswersTyped
<1>5. EventsBounded'
  <2>1. PICK n \in Nat : /\ \A e \in audit : e.id <= n
                         /\ \A t \in Conns : req[t].event <= n
    BY DEF Inv, EventsBounded
  <2>2. x.event \in Nat /\ (\A e \in audit : e.id \in Nat) /\ \A t \in Conns : req[t].event \in Nat
    BY DEF Inv, TypeOK, Requests
  <2>3. PICK m \in Nat : m >= n /\ m >= x.event
    BY <2>2
  <2>4. \A e \in audit' : e.id <= m
    BY <1>1, <2>1, <2>2, <2>3
  <2>5. \A t \in Conns : req'[t].event <= m
    BY <1>3, <2>1, <2>2, <2>3
  <2> QED
    BY <2>4, <2>5 DEF EventsBounded
<1>6. RequestsFit'
  <2>1. \A q : Fit(q) => Fit(q)'
    BY FitStays
  <2> SUFFICES ASSUME NEW t \in Conns PROVE Fit(req[t])'
    BY DEF RequestsFit
  <2>2. PICK y : y = req'[t]
    OBVIOUS
  <2>3. Fit(y)
    BY <1>3, <2>2 DEF Inv, RequestsFit
  <2>4. Fit(y)'
    BY <2>1, <2>3
  <2> QED
    BY <2>2, <2>4 DEF Fit, Known, DropHeld, SeedHeld, BalanceHeld
<1>7. LocksExclude'
  <2>1. \A q, t : Apart(q, t) => Apart(t, q)
    BY DEF Apart
  <2>2. \A s, t \in Conns : s # t => Apart(req'[s], req'[t])
    BY <1>3, <2>1 DEF Inv, LocksExclude
  <2> QED
    BY <2>2 DEF LocksExclude, Apart, HoldsDrop, HoldsSeed, HoldsBalance
<1>8. StockAccounted' /\ BalanceMatchesLedger' /\ PackLimit' /\ SpentForGood'
  BY <1>1 DEF Inv, StockAccounted, BalanceMatchesLedger, PackLimit, SpentForGood
<1> QED
  BY <1>1, <1>4, <1>5, <1>6, <1>7, <1>8 DEF Inv

LEMMA RequestFacts ==
  ASSUME Inv, NEW r \in Conns
  PROVE  /\ req[r] \in Requests /\ Fit(req[r]) /\ Known(req[r])
         /\ \A t \in Conns : t # r => Apart(req[r], req[t])
         /\ AnswersTyped /\ arrivals \in 0..MaxArrivals /\ arrivals + 1 \in Nat
BY PackAssumption DEF Inv, TypeOK, AnswersTyped, RequestsFit, LocksExclude, Fit

LEMMA AnswersStay ==
  ASSUME Inv, UNCHANGED <<cached, told>>
  PROVE  AnswersTyped'
BY DEF Inv, TypeOK, AnswersTyped

LEMMA FreeStep ==
  ASSUME Inv, UNCHANGED <<database, bounds>>, NEW r \in Conns, NEW x \in Requests,
         req' = [req EXCEPT ![r] = x], Known(x), x.at \in Lockless, AnswersTyped'
  PROVE  Inv'
<1>1. Fit(x) /\ \A t : Apart(x, t)
  BY FreeFits
<1>2. arrivals' \in 0..MaxArrivals /\ updates' = updates
  BY RequestFacts DEF bounds
<1> QED
  BY <1>1, <1>2, LocalStep

\* The record that is left: a request that remembers what it was for.
LEMMA LeavingRecord ==
  ASSUME Inv, NEW r \in Conns, req[r].at # "idle",
         NEW step \in {"refused", "broken", "reply"}, Leave(r, step)
  PROVE  \E x \in Requests : /\ req' = [req EXCEPT ![r] = x] /\ x.at = step /\ x.event = 0
                             /\ Known(x) /\ Sale(x) = Sale(req[r])
<1>1. /\ req[r].user \in Users /\ req[r].drop \in Drops /\ req[r].key \in Keys
      /\ Sale(req[r]) \in Sales
  BY RequestFacts DEF Known
<1> DEFINE x == [Idle EXCEPT !.at = step, !.user = req[r].user,
                             !.drop = req[r].drop, !.key = req[r].key]
<1>2. x \in Requests
  BY <1>1, LeavingIsARequest DEF Steps
<1>3. x.at = step /\ x.event = 0
  BY DEF Idle
<1>4. x.user = req[r].user /\ x.drop = req[r].drop /\ x.key = req[r].key
  BY DEF Idle
<1>5. req' = [req EXCEPT ![r] = x]
  BY DEF Leave
<1> HIDE DEF x
<1>6. Sale(x) = Sale(req[r])
  BY <1>4 DEF Sale
<1>7. Known(x)
  BY <1>1, <1>3, <1>4, <1>6 DEF Known, HoldsDrop
<1> QED
  BY <1>2, <1>3, <1>5, <1>6, <1>7

LEMMA LeaveStep ==
  ASSUME Inv, NEW r \in Conns, req[r].at # "idle",
         NEW step \in {"refused", "broken", "reply"}, Leave(r, step),
         UNCHANGED <<database, cached, told, bounds>>
  PROVE  Inv'
<1>1. PICK x \in Requests : req' = [req EXCEPT ![r] = x] /\ x.at = step /\ Known(x)
  BY LeavingRecord
<1>2. UNCHANGED <<database, bounds>> /\ AnswersTyped'
  BY AnswersStay
<1>3. x.at \in Lockless
  BY <1>1 DEF Lockless
<1> QED
  BY <1>1, <1>2, <1>3, FreeStep

LEMMA IdleKnown == Known(Idle) /\ Idle.at \in Lockless
BY DEF Known, Idle, HoldsDrop, Lockless

LEMMA TellTyped ==
  ASSUME Inv, NEW m \in Sales, NEW a \in Answers, Tell(m, a)
  PROVE  told' \in [Sales -> [Answers -> Nat]]
<1>1. told \in [Sales -> [Answers -> Nat]]
  BY DEF Inv, TypeOK
<1> QED
  BY <1>1 DEF Tell

LEMMA StoreTyped ==
  ASSUME Inv, NEW r \in Conns, Store(r) \/ UNCHANGED cached
  PROVE  cached' \subseteq Purchases
BY DEF Inv, TypeOK, Store, Earlier

LEMMA AnswerStep ==
  ASSUME Inv, NEW r \in Conns, req[r].at # "idle", NEW a \in Answers, Answer(r, a),
         Store(r) \/ UNCHANGED cached, UNCHANGED <<database, bounds>>
  PROVE  Inv'
<1>1. Idle \in Requests /\ Idle.at \in Lockless /\ Known(Idle)
  BY IdleIsARequest, IdleKnown
<1>2. req' = [req EXCEPT ![r] = Idle] /\ Tell(Sale(req[r]), a)
  BY DEF Answer
<1>3. Sale(req[r]) \in Sales
  BY RequestFacts DEF Known
<1>4. AnswersTyped'
  BY <1>2, <1>3, TellTyped, StoreTyped DEF AnswersTyped
<1> QED
  BY <1>1, <1>2, <1>4, FreeStep

\* Going on without a lock taken.
LEMMA ProceedStep ==
  ASSUME Inv, NEW r \in Conns, NEW step \in {"create", "drop"}, Proceed(r, step),
         req[r].at \in {"reserve", "find"}, step = "drop" => req[r].at = "find",
         UNCHANGED <<database, cached, told, bounds>>
  PROVE  Inv'
<1> DEFINE x == [req[r] EXCEPT !.at = step]
<1>1. req[r] \in Requests /\ Known(req[r])
  BY RequestFacts
<1>2. x \in Requests /\ x.at = step /\ x.user = req[r].user /\ x.drop = req[r].drop
      /\ x.key = req[r].key /\ x.seed = req[r].seed
  <2>1. step \in Steps
    BY DEF Steps
  <2>2. /\ x \in Requests
        /\ x = [at |-> step, user |-> req[r].user, drop |-> req[r].drop, key |-> req[r].key,
                seed |-> req[r].seed, paid |-> req[r].paid, left |-> req[r].left,
                event |-> req[r].event, prev |-> req[r].prev]
    BY <1>1, <2>1, SetStep
  <2> HIDE DEF x
  <2> QED
    BY <2>2
<1>3. req' = [req EXCEPT ![r] = x]
  BY DEF Proceed
<1>4. UNCHANGED <<database, bounds>> /\ AnswersTyped'
  BY AnswersStay
<1> HIDE DEF x
<1>5. Known(x) /\ x.at \in Lockless
  BY <1>1, <1>2 DEF Known, HoldsDrop, Sale, Lockless
<1> QED
  BY <1>2, <1>3, <1>4, <1>5, FreeStep

-----------------------------------------------------------------------------
(* The steps of a request, one by one *)

LEMMA ArriveStep ==
  ASSUME Inv, NEW r \in Conns, NEW m \in Sales, NEW s \in Seeds \cup {NoSeed}, Arrive(r, m, s)
  PROVE  Inv'
<1> DEFINE step == IF s = NoSeed THEN "reserve" ELSE "find"
           x == [Idle EXCEPT !.user = m.user, !.drop = m.drop, !.key = m.key, !.seed = s,
                             !.at = step]
<1>1. step \in {"reserve", "find"} /\ step \in Steps /\ (step = "find" => s \in Seeds)
  BY DEF Steps
<1>2. req' = [req EXCEPT ![r] = x]
  BY DEF Arrive
<1>3. UNCHANGED database /\ AnswersTyped' /\ updates' = updates /\ arrivals' = arrivals + 1
  BY AnswersStay DEF Arrive
<1>4. arrivals' \in 0..MaxArrivals
  BY <1>3, PackAssumption DEF Arrive, Inv, TypeOK
<1> HIDE DEF step
<1>5. m.user \in Users /\ m.drop \in Drops /\ m.key \in Keys /\ Sale(m) = m
  BY PackAssumption DEF Sale
<1>6. x \in Requests
  BY <1>1, <1>5 DEF Idle, Requests, NoSeed
<1>7. x.at = step /\ x.user = m.user /\ x.drop = m.drop /\ x.key = m.key /\ x.seed = s
  BY DEF Idle
<1> HIDE DEF x
<1>8. Known(x) /\ x.at \in Lockless
  BY <1>1, <1>5, <1>7 DEF Known, HoldsDrop, Sale, Lockless
<1>9. Fit(x) /\ \A t : Apart(x, t)
  BY <1>8, FreeFits
<1> QED
  BY <1>2, <1>3, <1>4, <1>6, <1>9, LocalStep

LEMMA FindReservedStep ==
  ASSUME Inv, NEW r \in Conns, FindReserved(r)
  PROVE  Inv'
<1>1. CASE Usable(req[r].user) = {} /\ Proceed(r, "create")
  BY <1>1, ProceedStep DEF FindReserved
<1>2. CASE /\ Usable(req[r].user) # {}
           /\ req' = [req EXCEPT ![r].at = "find", ![r].seed = Newest(Usable(req[r].user))]
  <2>1. PICK s : s = Newest(Usable(req[r].user))
    OBVIOUS
  <2>2. s \in Seeds
    <3>1. Usable(req[r].user) \in SUBSET Nat /\ \A t \in Usable(req[r].user) : t <= NumSeeds
      BY PackAssumption DEF Usable, Seeds
    <3>2. s \in Usable(req[r].user)
      BY <1>2, <2>1, <3>1, NewestExists, PackAssumption
    <3> QED
      BY <3>2 DEF Usable
  <2> DEFINE x == [req[r] EXCEPT !.at = "find", !.seed = s]
  <2>3. req[r] \in Requests /\ Known(req[r]) /\ req[r].at = "reserve"
    BY RequestFacts DEF FindReserved
  <2>4. x \in Requests /\ x.at = "find" /\ x.seed = s /\ x.user = req[r].user
        /\ x.drop = req[r].drop /\ x.key = req[r].key
    BY <2>2, <2>3 DEF Requests, Steps
  <2>5. req' = [req EXCEPT ![r] = x]
    BY <1>2, <2>1 DEF Inv, TypeOK
  <2>6. UNCHANGED <<database, bounds>> /\ AnswersTyped'
    BY AnswersStay DEF FindReserved
  <2> HIDE DEF x
  <2>7. Known(x) /\ x.at \in Lockless
    BY <2>2, <2>3, <2>4 DEF Known, HoldsDrop, Sale, Lockless
  <2> QED
    BY <2>4, <2>5, <2>6, <2>7, FreeStep
<1> QED
  BY <1>1, <1>2 DEF FindReserved

LEMMA FindPurchaseStep ==
  ASSUME Inv, NEW r \in Conns, FindPurchase(r)
  PROVE  Inv'
<1>1. req[r].at = "find" /\ UNCHANGED <<database, cached, told, bounds>>
  BY DEF FindPurchase
<1>2. CASE Leave(r, "reply")
  BY <1>1, <1>2, LeaveStep
<1>3. CASE Leave(r, "refused")
  BY <1>1, <1>3, LeaveStep
<1>4. CASE Proceed(r, "drop")
  BY <1>1, <1>4, ProceedStep
<1> QED
  BY <1>2, <1>3, <1>4 DEF FindPurchase

LEMMA LockDropStep ==
  ASSUME Inv, NEW r \in Conns, LockDrop(r)
  PROVE  Inv'
<1>1. req[r].at = "drop" /\ UNCHANGED <<database, cached, told, bounds>>
  BY DEF LockDrop
<1>2. CASE Leave(r, "refused")
  BY <1>1, <1>2, LeaveStep
<1>3. CASE /\ inventory[req[r].drop] > 0 /\ ~LimitReached(req[r].user, req[r].drop)
           /\ req' = [req EXCEPT ![r].at = "seed", ![r].paid = price[req[r].drop]]
  <2> DEFINE x == [req[r] EXCEPT !.at = "seed", !.paid = price[req[r].drop]]
  <2>1. req[r] \in Requests /\ Known(req[r]) /\ req[r].drop \in Drops /\ req[r].seed \in Seeds
    BY <1>1, RequestFacts DEF Known
  <2>2. price[req[r].drop] \in Prices /\ price[req[r].drop] \in Nat
    BY <2>1, PackAssumption DEF Inv, TypeOK
  <2>3. x \in Requests /\ x.at = "seed" /\ x.paid = price[x.drop] /\ x.seed = req[r].seed
        /\ x.user = req[r].user /\ x.drop = req[r].drop /\ x.key = req[r].key
    BY <2>1, <2>2 DEF Requests, Steps
  <2>4. req' = [req EXCEPT ![r] = x]
    BY <1>3 DEF Inv, TypeOK
  <2> HIDE DEF x
  <2>5. Known(x)
    BY <1>1, <2>1, <2>3 DEF Known, HoldsDrop, Sale
  <2>6. Cardinality(BoughtBy(purchases, x.user, x.drop)) < MaxPacks
    <3>1. Cardinality(BoughtBy(purchases, x.user, x.drop)) \in Nat
      BY PartsAreFinite DEF Inv
    <3> QED
      BY <1>3, <2>3, <3>1, PackAssumption DEF LimitReached, BoughtBy
  <2>7. Fit(x)
    BY <1>3, <2>3, <2>5, <2>6 DEF Fit, DropHeld, SeedHeld, BalanceHeld, HoldsDrop, HoldsSeed, HoldsBalance
  <2>8. \A t \in Conns : t # r => Apart(x, req[t])
    BY <2>3 DEF LockDrop, HasDrop, Apart, HoldsDrop, HoldsSeed, HoldsBalance
  <2>9. /\ UNCHANGED database /\ AnswersTyped'
        /\ arrivals' = arrivals /\ updates' = updates
    BY <1>1, AnswersStay DEF bounds
  <2> QED
    BY <2>3, <2>4, <2>7, <2>8, <2>9, LocalStep, RequestFacts
<1> QED
  BY <1>2, <1>3 DEF LockDrop

LEMMA LockSeedStep ==
  ASSUME Inv, NEW r \in Conns, LockSeed(r)
  PROVE  Inv'
<1>1. req[r].at = "seed" /\ UNCHANGED <<database, cached, told, bounds>>
  BY DEF LockSeed
<1>2. CASE Leave(r, "refused")
  BY <1>1, <1>2, LeaveStep
<1>3. CASE SeedIsGood(r) /\ Proceed(r, "debit")
  <2> DEFINE x == [req[r] EXCEPT !.at = "debit"]
  <2>1. req[r] \in Requests /\ Fit(req[r]) /\ \A t \in Conns : t # r => Apart(req[r], req[t])
    BY RequestFacts
  <2>2. x \in Requests /\ x.at = "debit" /\ x.paid = req[r].paid /\ x.seed = req[r].seed
        /\ x.user = req[r].user /\ x.drop = req[r].drop /\ x.key = req[r].key
    BY <2>1 DEF Requests, Steps
  <2>3. req' = [req EXCEPT ![r] = x]
    BY <1>3 DEF Proceed
  <2> HIDE DEF x
  <2>4. seed[x.seed].owner = x.user /\ seed[x.seed].status = "RESERVED"
    BY <1>3, <2>2 DEF SeedIsGood, Usable
  <2>5. Fit(x)
    BY <1>1, <2>1, <2>2, <2>4
       DEF Fit, Known, DropHeld, SeedHeld, BalanceHeld, HoldsDrop, HoldsSeed, HoldsBalance,
           Sale
  <2>6. \A t \in Conns : t # r => Apart(x, req[t])
    BY <1>1, <2>1, <2>2 DEF LockSeed, HasSeed, Apart, HoldsDrop, HoldsSeed, HoldsBalance
  <2>7. /\ UNCHANGED database /\ AnswersTyped'
        /\ arrivals' = arrivals /\ updates' = updates
    BY <1>1, AnswersStay DEF bounds
  <2> QED
    BY <2>2, <2>3, <2>5, <2>6, <2>7, LocalStep, RequestFacts
<1> QED
  BY <1>2, <1>3 DEF LockSeed

LEMMA DebitStep ==
  ASSUME Inv, NEW r \in Conns, Debit(r)
  PROVE  Inv'
<1>1. req[r].at = "debit" /\ UNCHANGED <<database, cached, told, bounds>>
  BY DEF Debit
<1>2. CASE Leave(r, "refused") \/ Leave(r, "broken")
  BY <1>1, <1>2, LeaveStep
<1>3. CASE /\ CanPay(r) /\ ~Duplicate(r)
           /\ req' = [req EXCEPT ![r].at = "append",
                                 ![r].left = available[req[r].user] - req[r].paid]
  <2> DEFINE x == [req[r] EXCEPT !.at = "append", !.left = available[req[r].user] - req[r].paid]
  <2>1. /\ req[r] \in Requests /\ Fit(req[r]) /\ req[r].user \in Users
        /\ \A t \in Conns : t # r => Apart(req[r], req[t])
    BY <1>1, RequestFacts DEF Known
  <2>2. available[req[r].user] - req[r].paid \in Nat
    BY <1>3, <2>1 DEF CanPay, Inv, TypeOK, Requests
  <2>3. x \in Requests /\ x.at = "append" /\ x.paid = req[r].paid /\ x.seed = req[r].seed
        /\ x.user = req[r].user /\ x.drop = req[r].drop /\ x.key = req[r].key
        /\ x.left = available[x.user] - x.paid
    BY <2>1, <2>2 DEF Requests, Steps
  <2>4. req' = [req EXCEPT ![r] = x]
    BY <1>3 DEF Inv, TypeOK
  <2> HIDE DEF x
  <2>5. Fit(x)
    BY <1>1, <1>3, <2>1, <2>3
       DEF Fit, Known, DropHeld, SeedHeld, BalanceHeld, HoldsDrop, HoldsSeed, HoldsBalance,
           Duplicate, Sale
  <2>6. \A t \in Conns : t # r => Apart(x, req[t])
    BY <1>1, <2>1, <2>3 DEF Debit, HasBalance, Apart, HoldsDrop, HoldsSeed, HoldsBalance
  <2>7. /\ UNCHANGED database /\ AnswersTyped'
        /\ arrivals' = arrivals /\ updates' = updates
    BY <1>1, AnswersStay DEF bounds
  <2> QED
    BY <2>3, <2>4, <2>5, <2>6, <2>7, LocalStep, RequestFacts
<1> QED
  BY <1>2, <1>3 DEF Debit

LEMMA LatestIsNat ==
  ASSUME Inv
  PROVE  LatestEvent \in Nat /\ NextEvent \in Nat
<1>1. PICK n \in Nat : /\ \A e \in audit : e.id <= n
                       /\ \A r \in Conns : req[r].event <= n
  BY DEF Inv, EventsBounded
<1> DEFINE S == {Genesis} \cup {e.id : e \in audit}
           T == {Genesis} \cup {e.id : e \in audit} \cup {req[r].event : r \in Conns}
<1>2. /\ S \in SUBSET Nat /\ T \in SUBSET Nat
      /\ S # {} /\ T # {} /\ (\A s \in S : s <= n) /\ \A t \in T : t <= n
  BY <1>1 DEF Genesis, Inv, TypeOK, Requests
<1> HIDE DEF S, T
<1>3. Newest(S) \in Nat /\ Newest(T) \in Nat
  BY <1>2, NewestExists
<1> QED
  BY <1>3 DEF S, T, LatestEvent, NextEvent

LEMMA AppendAuditStep ==
  ASSUME Inv, NEW r \in Conns, AppendAudit(r)
  PROVE  Inv'
<1> DEFINE x == [req[r] EXCEPT !.at = "commit", !.event = NextEvent, !.prev = LatestEvent]
<1>1. /\ req[r] \in Requests /\ Fit(req[r]) /\ req[r].at = "append"
      /\ \A t \in Conns : t # r => Apart(req[r], req[t])
  BY RequestFacts DEF AppendAudit
<1>2. x \in Requests /\ x.at = "commit" /\ x.paid = req[r].paid /\ x.seed = req[r].seed
      /\ x.user = req[r].user /\ x.drop = req[r].drop /\ x.key = req[r].key
      /\ x.left = req[r].left
  BY <1>1, LatestIsNat DEF Requests, Steps
<1>3. req' = [req EXCEPT ![r] = x]
  BY DEF AppendAudit, Inv, TypeOK
<1>4. /\ UNCHANGED database /\ AnswersTyped'
      /\ arrivals' = arrivals /\ updates' = updates
  BY AnswersStay DEF AppendAudit, bounds
<1> HIDE DEF x
<1>5. Fit(x)
  BY <1>1, <1>2
     DEF Fit, Known, DropHeld, SeedHeld, BalanceHeld, HoldsDrop, HoldsSeed, HoldsBalance,
         Sale
<1>6. \A t \in Conns : t # r => Apart(x, req[t])
  BY <1>1, <1>2 DEF Apart, HoldsDrop, HoldsSeed, HoldsBalance
<1> QED
  BY <1>2, <1>3, <1>4, <1>5, <1>6, LocalStep, RequestFacts

LEMMA QueryFailsStep ==
  ASSUME Inv, NEW r \in Conns, QueryFails(r)
  PROVE  Inv'
<1>1. req[r].at # "idle" /\ UNCHANGED <<database, bounds>> /\ "error" \in Answers
  BY DEF QueryFails, Answers
<1>2. CASE Leave(r, "broken") /\ UNCHANGED <<cached, told>>
  BY <1>1, <1>2, LeaveStep
<1>3. CASE Answer(r, "error") /\ (Store(r) \/ UNCHANGED cached)
  BY <1>1, <1>3, AnswerStep
<1> QED
  BY <1>2, <1>3 DEF QueryFails

LEMMA RecoverStep ==
  ASSUME Inv, NEW r \in Conns, Recover(r)
  PROVE  Inv'
<1>1. req[r].at # "idle" /\ UNCHANGED <<database, cached, bounds>>
  BY DEF Recover
<1>2. CASE Leave(r, "reply") /\ UNCHANGED told
  BY <1>1, <1>2, LeaveStep
<1>3. CASE \E a \in Answers : Answer(r, a)
  BY <1>1, <1>3, AnswerStep
<1> QED
  BY <1>2, <1>3 DEF Recover, Answers

LEMMA ReplyStep ==
  ASSUME Inv, NEW r \in Conns, Reply(r)
  PROVE  Inv'
<1>1. req[r].at # "idle" /\ UNCHANGED <<database, bounds>> /\ "bought" \in Answers
  BY DEF Reply, Answers
<1> QED
  BY <1>1, AnswerStep DEF Reply

LEMMA VanishStep ==
  ASSUME Inv, NEW r \in Conns, Vanish(r)
  PROVE  Inv'
<1>1. UNCHANGED <<database, bounds>> /\ AnswersTyped' /\ req' = [req EXCEPT ![r] = Idle]
  BY AnswersStay DEF Vanish
<1> QED
  BY <1>1, IdleIsARequest, IdleKnown, FreeStep

-----------------------------------------------------------------------------
(* Steps that change the tables *)

\* A change of commitments that are not locked disturbs no request.
LEMMA SeedStays ==
  ASSUME UNCHANGED <<inventory, price, available, purchases>>, NEW q, Fit(q),
         HoldsSeed(q) => /\ seed'[q.seed].owner = seed[q.seed].owner
                         /\ seed'[q.seed].status = seed[q.seed].status
  PROVE  Fit(q)'
BY DEF Fit, Known, DropHeld, SeedHeld, BalanceHeld

LEMMA SeedStep ==
  ASSUME Inv, UNCHANGED <<inventory, price, available, ledger, purchases, audit, req, updates>>,
         AnswersTyped', arrivals' \in 0..MaxArrivals,
         seed' \in [Seeds -> [status : {"NONE", "RESERVED", "CONSUMED", "REVEALED"},
                              owner : Users \cup {NoOne}, lapsed : BOOLEAN]],
         \A r \in Conns : HoldsSeed(req[r]) =>
           /\ seed'[req[r].seed].owner = seed[req[r].seed].owner
           /\ seed'[req[r].seed].status = seed[req[r].seed].status,
         \A p \in purchases : /\ seed'[p.seed].owner = seed[p.seed].owner
                              /\ seed'[p.seed].status \in {"CONSUMED", "REVEALED"}
  PROVE  Inv'
<1>1. TypeOK' /\ IsFiniteSet(purchases)' /\ EventsBounded'
  BY DEF Inv, TypeOK, AnswersTyped, EventsBounded
<1>2. RequestsFit'
  <2> SUFFICES ASSUME NEW r \in Conns PROVE Fit(req[r])'
    BY DEF RequestsFit
  <2>1. PICK y : y = req[r]
    OBVIOUS
  <2>2. Fit(y)'
    BY <2>1, SeedStays DEF Inv, RequestsFit
  <2> QED
    BY <2>1, <2>2 DEF Fit, Known, DropHeld, SeedHeld, BalanceHeld
<1>3. LocksExclude'
  BY DEF Inv, LocksExclude, Apart, HoldsDrop, HoldsSeed, HoldsBalance
<1>4. StockAccounted' /\ BalanceMatchesLedger' /\ PackLimit' /\ SpentForGood'
  BY DEF Inv, StockAccounted, BalanceMatchesLedger, PackLimit, SpentForGood
<1> QED
  BY <1>1, <1>2, <1>3, <1>4 DEF Inv

\* A step outside of the database and of the requests.
LEMMA SideStep ==
  ASSUME Inv, UNCHANGED <<database, req, updates>>, AnswersTyped', arrivals' \in 0..MaxArrivals
  PROVE  Inv'
<1>1. /\ UNCHANGED <<inventory, price, available, ledger, purchases, audit, req, updates>>
      /\ seed' = seed
  BY DEF database
<1>2. /\ seed \in [Seeds -> [status : {"NONE", "RESERVED", "CONSUMED", "REVEALED"},
                             owner : Users \cup {NoOne}, lapsed : BOOLEAN]]
      /\ \A p \in purchases : seed[p.seed].status \in {"CONSUMED", "REVEALED"}
  BY DEF Inv, TypeOK, SpentForGood
<1> QED
  BY <1>1, <1>2, SeedStep

LEMMA ReplayStep ==
  ASSUME Inv, NEW m \in Sales, Replay(m)
  PROVE  Inv'
<1>1. UNCHANGED <<database, req, updates>> /\ arrivals' \in 0..MaxArrivals
  BY PackAssumption DEF Replay, Inv, TypeOK
<1>2. PICK p \in cached : Tell(Sale(p), "bought") \/ Tell(m, "error")
  BY DEF Replay
<1>3. Sale(p) \in Sales /\ "bought" \in Answers /\ "error" \in Answers
  BY DEF Inv, TypeOK, Purchases, Answers
<1>4. AnswersTyped'
  BY <1>2, <1>3, TellTyped DEF Replay, Inv, TypeOK, AnswersTyped
<1> QED
  BY <1>1, <1>4, SideStep

LEMMA ExpireStep ==
  ASSUME Inv, NEW p \in cached, Expire(p)
  PROVE  Inv'
<1>1. UNCHANGED <<database, req, updates>> /\ arrivals' = arrivals
  BY DEF Expire, bounds
<1>2. AnswersTyped' /\ arrivals \in 0..MaxArrivals
  BY DEF Expire, Inv, TypeOK, AnswersTyped
<1> QED
  BY <1>1, <1>2, SideStep

LEMMA LapseStep ==
  ASSUME Inv, NEW s \in Seeds, Lapse(s)
  PROVE  Inv'
<1>1. /\ seed' = [seed EXCEPT ![s].lapsed = TRUE]
      /\ UNCHANGED <<inventory, price, available, ledger, purchases, audit, req, updates>>
      /\ AnswersTyped' /\ arrivals' \in 0..MaxArrivals
  BY AnswersStay DEF Lapse, drops, money, bounds, Inv, TypeOK
<1>2. seed \in [Seeds -> [status : {"NONE", "RESERVED", "CONSUMED", "REVEALED"},
                          owner : Users \cup {NoOne}, lapsed : BOOLEAN]]
  BY DEF Inv, TypeOK
<1>3. /\ seed' \in [Seeds -> [status : {"NONE", "RESERVED", "CONSUMED", "REVEALED"},
                              owner : Users \cup {NoOne}, lapsed : BOOLEAN]]
      /\ \A t \in Seeds : seed'[t].owner = seed[t].owner /\ seed'[t].status = seed[t].status
  BY <1>1, <1>2
<1>4. \A r \in Conns : HoldsSeed(req[r]) => req[r].seed \in Seeds
  BY RequestFacts DEF Known, HoldsSeed, HoldsDrop
<1>5. \A p \in purchases : p.seed \in Seeds
  BY DEF Inv, TypeOK, Purchases
<1>6. \A p \in purchases : seed[p.seed].status \in {"CONSUMED", "REVEALED"}
  BY DEF Inv, SpentForGood
<1> QED
  BY <1>1, <1>3, <1>4, <1>5, <1>6, SeedStep

LEMMA RevealStep ==
  ASSUME Inv, NEW o \in purchases, Reveal(o)
  PROVE  Inv'
<1>1. /\ seed' = [seed EXCEPT ![o.seed].status = "REVEALED"]
      /\ UNCHANGED <<inventory, price, available, ledger, purchases, audit, req, updates>>
      /\ AnswersTyped' /\ arrivals' \in 0..MaxArrivals
  BY AnswersStay DEF Reveal, drops, money, bounds, Inv, TypeOK
<1>2. /\ seed \in [Seeds -> [status : {"NONE", "RESERVED", "CONSUMED", "REVEALED"},
                             owner : Users \cup {NoOne}, lapsed : BOOLEAN]]
      /\ \A p \in purchases : p.seed \in Seeds
  BY DEF Inv, TypeOK, Purchases
<1>3. /\ seed' \in [Seeds -> [status : {"NONE", "RESERVED", "CONSUMED", "REVEALED"},
                              owner : Users \cup {NoOne}, lapsed : BOOLEAN]]
      /\ \A t \in Seeds : seed'[t].owner = seed[t].owner
      /\ \A t \in Seeds : t # o.seed => seed'[t].status = seed[t].status
      /\ seed'[o.seed].status = "REVEALED"
  BY <1>1, <1>2
<1>4. \A r \in Conns : HoldsSeed(req[r]) => req[r].seed \in Seeds /\ req[r].seed # o.seed
  BY RequestFacts DEF Known, HoldsSeed, HoldsDrop, Reveal, HasSeed
<1>5. \A p \in purchases : seed[p.seed].status \in {"CONSUMED", "REVEALED"}
  BY DEF Inv, SpentForGood
<1> QED
  BY <1>1, <1>2, <1>3, <1>4, <1>5, SeedStep

LEMMA AdminPriceStep ==
  ASSUME Inv, NEW d \in Drops, NEW p \in Prices, AdminPrice(d, p)
  PROVE  Inv'
<1>1. /\ price' = [price EXCEPT ![d] = p] /\ updates' = updates + 1 /\ updates < MaxUpdates
      /\ UNCHANGED <<inventory, available, ledger, purchases, seed, audit, req, cached, told,
                     arrivals>>
  BY DEF AdminPrice, money
<1>2. TypeOK'
  BY <1>1, PackAssumption DEF Inv, TypeOK
<1>3. IsFiniteSet(purchases)' /\ EventsBounded'
  BY <1>1 DEF Inv, EventsBounded
<1>4. RequestsFit'
  <2> SUFFICES ASSUME NEW r \in Conns PROVE Fit(req[r])'
    BY DEF RequestsFit
  <2>1. PICK y : y = req[r]
    OBVIOUS
  <2>2. Fit(y) /\ (HoldsDrop(y) => y.drop \in Drops /\ y.drop # d)
    BY <2>1, RequestFacts DEF Known, HoldsDrop, AdminPrice, HasDrop
  <2>3. HoldsDrop(y) => price'[y.drop] = price[y.drop]
    BY <1>1, <2>2 DEF Inv, TypeOK
  <2>4. Fit(y)'
    BY <1>1, <2>2, <2>3 DEF Fit, Known, DropHeld, SeedHeld, BalanceHeld
  <2> QED
    BY <1>1, <2>1, <2>4 DEF Fit, Known, DropHeld, SeedHeld, BalanceHeld
<1>5. LocksExclude'
  BY <1>1 DEF Inv, LocksExclude, Apart, HoldsDrop, HoldsSeed, HoldsBalance
<1>6. StockAccounted' /\ BalanceMatchesLedger' /\ PackLimit' /\ SpentForGood'
  BY <1>1 DEF Inv, StockAccounted, BalanceMatchesLedger, PackLimit, SpentForGood
<1> QED
  BY <1>2, <1>3, <1>4, <1>5, <1>6 DEF Inv

\* Reserving is adding an unused commitment, then going on with it.
LEMMA CreateCommitmentStep ==
  ASSUME Inv, NEW r \in Conns, CreateCommitment(r)
  PROVE  Inv'
<1>1. PICK s \in Seeds :
        /\ seed[s].status = "NONE"
        /\ seed' = [seed EXCEPT ![s] = [status |-> "RESERVED", owner |-> req[r].user,
                                       lapsed |-> FALSE]]
        /\ req' = [req EXCEPT ![r].at = "find", ![r].seed = s]
  BY DEF CreateCommitment
<1>2. /\ req[r].at = "create"
      /\ UNCHANGED <<inventory, price, available, ledger, purchases, audit, cached, told,
                     arrivals, updates>>
  BY DEF CreateCommitment, drops, money, bounds
<1> DEFINE x == [req[r] EXCEPT !.at = "find", !.seed = s]
<1>3. /\ req[r] \in Requests /\ Known(req[r]) /\ req[r].user \in Users
      /\ seed \in [Seeds -> [status : {"NONE", "RESERVED", "CONSUMED", "REVEALED"},
                             owner : Users \cup {NoOne}, lapsed : BOOLEAN]]
  BY <1>2, RequestFacts DEF Known, Inv, TypeOK
<1>4. x \in Requests /\ x.at = "find" /\ x.seed = s /\ x.user = req[r].user
      /\ x.drop = req[r].drop /\ x.key = req[r].key /\ x.event = req[r].event
  BY <1>3 DEF Requests, Steps
<1>5. req' = [req EXCEPT ![r] = x]
  BY <1>1 DEF Inv, TypeOK
<1> HIDE DEF x
<1>6. /\ req' \in [Conns -> Requests] /\ req'[r] = x
      /\ \A t \in Conns : t # r => req'[t] = req[t]
  BY <1>4, <1>5 DEF Inv, TypeOK
<1>7. /\ seed' \in [Seeds -> [status : {"NONE", "RESERVED", "CONSUMED", "REVEALED"},
                              owner : Users \cup {NoOne}, lapsed : BOOLEAN]]
      /\ \A t \in Seeds : t # s => seed'[t] = seed[t]
  BY <1>1, <1>3
<1>8. TypeOK' /\ IsFiniteSet(purchases)'
  BY <1>2, <1>6, <1>7 DEF Inv, TypeOK
<1>9. EventsBounded'
  <2>1. \A t \in Conns : req'[t].event = req[t].event
    BY <1>4, <1>6
  <2> QED
    BY <1>2, <2>1 DEF Inv, EventsBounded
<1>10. Known(x) /\ ~HoldsDrop(x) /\ ~HoldsSeed(x) /\ ~HoldsBalance(x)
  BY <1>2, <1>3, <1>4 DEF Known, HoldsDrop, HoldsSeed, HoldsBalance, Sale
<1>11. RequestsFit'
  <2> SUFFICES ASSUME NEW t \in Conns PROVE Fit(req[t])'
    BY DEF RequestsFit
  <2>1. PICK y : y = req'[t]
    OBVIOUS
  <2>2. CASE t = r
    BY <1>6, <1>10, <2>1, <2>2 DEF Fit, Known, DropHeld, SeedHeld, BalanceHeld
  <2>3. CASE t # r
    <3>1. y = req[t] /\ Fit(y)
      BY <1>6, <2>1, <2>3, RequestFacts
    <3>2. HoldsSeed(y) => y.seed \in Seeds /\ y.seed # s
      BY <1>1, <3>1 DEF Fit, Known, SeedHeld, HoldsSeed, HoldsDrop
    <3>3. Fit(y)'
      BY <1>2, <1>7, <3>1, <3>2, SeedStays
    <3> QED
      BY <2>1, <3>3 DEF Fit, Known, DropHeld, SeedHeld, BalanceHeld
  <2> QED
    BY <2>2, <2>3
<1>12. LocksExclude'
  <2>1. \A p, t \in Conns : p # t => Apart(req'[p], req'[t])
    BY <1>6, <1>10 DEF Inv, LocksExclude, Apart
  <2> QED
    BY <2>1 DEF LocksExclude, Apart, HoldsDrop, HoldsSeed, HoldsBalance
<1>13. StockAccounted' /\ BalanceMatchesLedger' /\ PackLimit'
  BY <1>2 DEF Inv, StockAccounted, BalanceMatchesLedger, PackLimit
<1>14. SpentForGood'
  <2>1. \A p \in purchases : p.seed \in Seeds /\ p.seed # s
    BY <1>1 DEF Inv, TypeOK, Purchases, SpentForGood
  <2> QED
    BY <1>2, <1>7, <2>1 DEF Inv, SpentForGood
<1> QED
  BY <1>8, <1>9, <1>11, <1>12, <1>13, <1>14 DEF Inv

\* Everything a purchase writes it may write: its locks have kept what it read.
LEMMA CommitStep ==
  ASSUME Inv, NEW r \in Conns, Commit(r)
  PROVE  Inv'
<1> DEFINE q == req[r]
           o == Opening(r)
<1>1. q \in Requests /\ Fit(q) /\ q.at = "commit" /\ HoldsDrop(q) /\ HoldsSeed(q)
      /\ HoldsBalance(q) /\ \A t \in Conns : t # r => Apart(q, req[t])
  BY RequestFacts DEF Commit, HoldsDrop, HoldsSeed, HoldsBalance
<1>2. /\ q.user \in Users /\ q.drop \in Drops /\ q.key \in Keys /\ q.seed \in Seeds
      /\ q.paid \in Prices /\ q.paid \in Nat /\ q.left \in Nat /\ q.event \in Nat
      /\ q.prev \in Nat
  BY <1>1, PackAssumption DEF Fit, Known, DropHeld, Requests, Inv, TypeOK
<1>3. /\ inventory[q.drop] > 0 /\ q.paid = price[q.drop]
      /\ Cardinality(BoughtBy(purchases, q.user, q.drop)) < MaxPacks
      /\ seed[q.seed].owner = q.user /\ q.left = available[q.user] - q.paid
      /\ \A p \in purchases : ~(p.user = q.user /\ p.key = q.key) /\ p.seed # q.seed
  BY <1>1 DEF Fit, DropHeld, SeedHeld, BalanceHeld
<1>4. /\ inventory' = [inventory EXCEPT ![q.drop] = @ - 1]
      /\ available' = [available EXCEPT ![q.user] = q.left]
      /\ ledger' = [ledger EXCEPT ![q.user] = @ - q.paid]
      /\ purchases' = purchases \cup {o}
      /\ seed' = [seed EXCEPT ![q.seed].status = "CONSUMED"]
      /\ audit' = audit \cup {[id |-> q.event, prev |-> q.prev]}
      /\ UNCHANGED <<price, cached, told, arrivals, updates>>
  BY DEF Commit, Write, bounds
<1>5. /\ o \in Purchases /\ o.user = q.user /\ o.drop = q.drop /\ o.key = q.key
      /\ o.seed = q.seed /\ o.paid = q.paid
  <2>1. /\ o = [user |-> q.user, drop |-> q.drop, key |-> q.key, seed |-> q.seed, paid |-> q.paid]
        /\ Sale(q) \in Sales
    BY <1>1 DEF Opening, Fit, Known
  <2> HIDE DEF o, q
  <2>2. Sale(o) = Sale(q)
    BY <2>1 DEF Sale
  <2> QED
    BY <1>2, <2>1, <2>2 DEF Purchases
<1>6. o \notin purchases
  BY <1>3, <1>5
<1>7. PICK x \in Requests : /\ req' = [req EXCEPT ![r] = x] /\ Known(x)
                            /\ x.at \in {"broken", "reply"} /\ x.event = 0
  BY <1>1, LeavingRecord DEF Commit
<1>8. cached' \subseteq Purchases /\ told' \in [Sales -> [Answers -> Nat]]
  BY <1>4 DEF Inv, TypeOK
<1> HIDE DEF q, o
<1>9. /\ req' \in [Conns -> Requests] /\ req'[r] = x
      /\ \A t \in Conns : t # r => req'[t] = req[t]
  BY <1>7 DEF Inv, TypeOK
<1>10. /\ inventory' \in [Drops -> Int] /\ available' \in [Users -> Nat]
       /\ ledger' \in [Users -> Int]
       /\ inventory'[q.drop] = inventory[q.drop] - 1
       /\ \A d \in Drops : d # q.drop => inventory'[d] = inventory[d]
       /\ available'[q.user] = q.left /\ ledger'[q.user] = ledger[q.user] - q.paid
       /\ \A u \in Users : u # q.user =>
            available'[u] = available[u] /\ ledger'[u] = ledger[u]
  BY <1>2, <1>4 DEF Inv, TypeOK
<1>11. /\ seed' \in [Seeds -> [status : {"NONE", "RESERVED", "CONSUMED", "REVEALED"},
                               owner : Users \cup {NoOne}, lapsed : BOOLEAN]]
       /\ \A s \in Seeds : s # q.seed => seed'[s] = seed[s]
       /\ seed'[q.seed].owner = q.user /\ seed'[q.seed].status = "CONSUMED"
  BY <1>2, <1>3, <1>4 DEF Inv, TypeOK
<1>12. TypeOK'
  BY <1>2, <1>4, <1>5, <1>8, <1>9, <1>10, <1>11 DEF Inv, TypeOK
<1>13. EventsBounded'
  <2>1. PICK n \in Nat : /\ \A e \in audit : e.id <= n
                         /\ \A t \in Conns : req[t].event <= n
    BY DEF Inv, EventsBounded
  <2>2. \A t \in Conns : req'[t].event <= n
    BY <1>7, <1>9, <2>1
  <2>3. \A e \in audit' : e.id <= n
    BY <1>4, <2>1 DEF q
  <2> QED
    BY <2>2, <2>3 DEF EventsBounded
<1>14. RequestsFit'
  <2> SUFFICES ASSUME NEW t \in Conns PROVE Fit(req[t])'
    BY DEF RequestsFit
  <2>1. PICK y : y = req'[t]
    OBVIOUS
  <2>2. CASE t = r
    BY <1>7, <1>9, <2>1, <2>2
       DEF Fit, Known, DropHeld, SeedHeld, BalanceHeld, HoldsDrop, HoldsSeed, HoldsBalance
  <2>3. CASE t # r
    <3>1. y = req[t] /\ Fit(y) /\ Apart(q, y)
      BY <1>1, <1>9, <2>1, <2>3, RequestFacts
    <3>2. HoldsDrop(y) => y.drop \in Drops /\ y.drop # q.drop
      BY <1>1, <3>1 DEF Fit, Known, Apart, HoldsDrop
    <3>3. HoldsSeed(y) => y.seed \in Seeds /\ y.seed # q.seed
      BY <1>1, <3>1 DEF Fit, Known, Apart, HoldsSeed, HoldsDrop
    <3>4. HoldsBalance(y) => y.user \in Users /\ y.user # q.user /\ HoldsSeed(y)
      BY <1>1, <3>1 DEF Fit, Known, Apart, HoldsBalance, HoldsSeed, HoldsDrop
    <3>5. HoldsDrop(y) =>
            BoughtBy(purchases', y.user, y.drop) = BoughtBy(purchases, y.user, y.drop)
      BY <1>4, <1>5, <3>2 DEF BoughtBy
    <3>6. Known(y)' /\ DropHeld(y)'
      BY <1>4, <1>10, <3>1, <3>2, <3>5 DEF Fit, Known, DropHeld, BoughtBy
    <3>7. SeedHeld(y)' /\ BalanceHeld(y)'
      BY <1>4, <1>5, <1>10, <1>11, <3>1, <3>3, <3>4 DEF Fit, SeedHeld, BalanceHeld
    <3> QED
      BY <2>1, <3>6, <3>7 DEF Fit, Known, DropHeld, SeedHeld, BalanceHeld
  <2> QED
    BY <2>2, <2>3
<1>15. LocksExclude'
  <2>1. \A p, t \in Conns : p # t => Apart(req'[p], req'[t])
    BY <1>7, <1>9 DEF Inv, LocksExclude, Apart, HoldsDrop, HoldsSeed, HoldsBalance
  <2> QED
    BY <2>1 DEF LocksExclude, Apart, HoldsDrop, HoldsSeed, HoldsBalance
<1>16. IsFiniteSet(purchases) /\ IsFiniteSet(purchases')
  BY <1>4, FS_AddElement DEF Inv
<1>17. StockAccounted'
  <2> SUFFICES ASSUME NEW d \in Drops
               PROVE  inventory'[d] >= 0 /\ inventory'[d] + Cardinality(SoldOf(purchases', d)) = Stock[d]
    BY DEF StockAccounted, SoldOf
  <2>1. inventory[d] >= 0 /\ inventory[d] + Cardinality(SoldOf(purchases, d)) = Stock[d]
    BY DEF Inv, StockAccounted, SoldOf
  <2>2. Cardinality(SoldOf(purchases', d)) =
          Cardinality(SoldOf(purchases, d)) + (IF q.drop = d THEN 1 ELSE 0)
    BY <1>4, <1>5, <1>6, <1>16, OneMoreSold
  <2>3. Cardinality(SoldOf(purchases, d)) \in Nat /\ inventory[d] \in Int
    BY <1>16, PartsAreFinite DEF Inv, TypeOK
  <2> QED
    BY <1>3, <1>10, <2>1, <2>2, <2>3
<1>18. BalanceMatchesLedger'
  BY <1>2, <1>3, <1>10, PackAssumption DEF Inv, TypeOK, BalanceMatchesLedger
<1>19. PackLimit'
  <2> SUFFICES ASSUME NEW u \in Users, NEW d \in Drops
               PROVE  Cardinality(BoughtBy(purchases', u, d)) <= MaxPacks
    BY DEF PackLimit, BoughtBy
  <2>1. Cardinality(BoughtBy(purchases, u, d)) <= MaxPacks
    BY DEF Inv, PackLimit, BoughtBy
  <2>2. Cardinality(BoughtBy(purchases', u, d)) =
          Cardinality(BoughtBy(purchases, u, d)) + (IF q.user = u /\ q.drop = d THEN 1 ELSE 0)
    BY <1>4, <1>5, <1>6, <1>16, OneMoreBought
  <2>3. Cardinality(BoughtBy(purchases, u, d)) \in Nat
    BY <1>16, PartsAreFinite
  <2>4. CASE q.user = u /\ q.drop = d
    BY <1>3, <2>2, <2>3, <2>4, PackAssumption
  <2>5. CASE ~(q.user = u /\ q.drop = d)
    BY <2>1, <2>2, <2>3, <2>5, PackAssumption
  <2> QED
    BY <2>4, <2>5
<1>20. SpentForGood'
  <2>1. \A p \in purchases : p.seed \in Seeds /\ p.seed # q.seed
    BY <1>3 DEF Inv, TypeOK, Purchases
  <2> QED
    BY <1>4, <1>5, <1>11, <2>1 DEF Inv, SpentForGood
<1> QED
  BY <1>12, <1>13, <1>14, <1>15, <1>16, <1>17, <1>18, <1>19, <1>20 DEF Inv

\* Nothing but a commit writes purchases.
LEMMA OnlyCommitBuys ==
  ASSUME Next
  PROVE  purchases' = purchases \/ \E r \in Conns : Commit(r)
BY DEF Next, Lapse, Reveal, Expire, Replay, AdminPrice, Arrive, Request, Work, FindReserved,
       CreateCommitment, FindPurchase, LockDrop, LockSeed, Debit, AppendAudit, Recover, Reply,
       QueryFails, Vanish, database

-----------------------------------------------------------------------------
(* The theorems *)

LEMMA InvInit == Init => Inv
<1> SUFFICES ASSUME Init PROVE Inv
  OBVIOUS
<1>1. \A r \in Conns : req[r] = Idle
  BY DEF Init
<1>2. TypeOK
  BY PackAssumption, IdleIsARequest DEF Init, TypeOK, Answers
<1>3. IsFiniteSet(purchases)
  BY FS_EmptySet DEF Init
<1>4. EventsBounded
  <2>1. \A e \in audit : e.id <= 0
    BY DEF Init
  <2>2. \A r \in Conns : req[r].event <= 0
    BY <1>1, IdleIsARequest
  <2> QED
    BY <2>1, <2>2 DEF EventsBounded
<1>5. RequestsFit /\ LocksExclude
  <2>1. Fit(Idle) /\ \A t : Apart(Idle, t)
    BY IdleKnown, IdleIsARequest, FreeFits
  <2> QED
    BY <1>1, <2>1 DEF RequestsFit, LocksExclude
<1>6. StockAccounted
  <2> SUFFICES ASSUME NEW d \in Drops
               PROVE  inventory[d] >= 0 /\ inventory[d] + Cardinality(SoldOf(purchases, d)) = Stock[d]
    BY DEF StockAccounted, SoldOf
  <2>1. SoldOf(purchases, d) = {}
    BY DEF Init, SoldOf
  <2>2. Cardinality(SoldOf(purchases, d)) = 0
    BY <2>1, FS_EmptySet
  <2> QED
    BY <2>2, PackAssumption DEF Init
<1>7. PackLimit
  <2> SUFFICES ASSUME NEW u \in Users, NEW d \in Drops
               PROVE  Cardinality(BoughtBy(purchases, u, d)) <= MaxPacks
    BY DEF PackLimit, BoughtBy
  <2>1. BoughtBy(purchases, u, d) = {}
    BY DEF Init, BoughtBy
  <2>2. Cardinality(BoughtBy(purchases, u, d)) = 0
    BY <2>1, FS_EmptySet
  <2> QED
    BY <2>2, PackAssumption
<1>8. BalanceMatchesLedger /\ SpentForGood
  BY PackAssumption DEF Init, BalanceMatchesLedger, SpentForGood
<1> QED
  BY <1>2, <1>3, <1>4, <1>5, <1>6, <1>7, <1>8 DEF Inv

LEMMA RequestStep ==
  ASSUME Inv, NEW r \in Conns, Request(r)
  PROVE  Inv'
<1>1. CASE Work(r)
  BY <1>1, FindReservedStep, CreateCommitmentStep, FindPurchaseStep, LockDropStep,
     LockSeedStep, DebitStep, AppendAuditStep, CommitStep, RecoverStep, ReplyStep DEF Work
<1>2. CASE QueryFails(r)
  BY <1>2, QueryFailsStep
<1>3. CASE Vanish(r)
  BY <1>3, VanishStep
<1> QED
  BY <1>1, <1>2, <1>3 DEF Request

LEMMA InvStutter == ASSUME Inv, UNCHANGED vars PROVE Inv'
<1>1. UNCHANGED <<database, req, updates>> /\ AnswersTyped' /\ arrivals' = arrivals
  BY AnswersStay DEF vars, database
<1>2. arrivals \in 0..MaxArrivals
  BY DEF Inv, TypeOK
<1> QED
  BY <1>1, <1>2, SideStep

LEMMA InvNext == Inv /\ [Next]_vars => Inv'
<1> SUFFICES ASSUME Inv, [Next]_vars PROVE Inv'
  OBVIOUS
<1>1. CASE UNCHANGED vars
  BY <1>1, InvStutter
<1>2. ASSUME NEW s \in Seeds, Lapse(s) PROVE Inv'
  BY <1>2, LapseStep
<1>3. ASSUME NEW p \in purchases, Reveal(p) PROVE Inv'
  BY <1>3, RevealStep
<1>4. ASSUME NEW d \in Drops, NEW p \in Prices, AdminPrice(d, p) PROVE Inv'
  BY <1>4, AdminPriceStep
<1>5. ASSUME NEW r \in Conns, NEW m \in Sales, NEW s \in Seeds \cup {NoSeed}, Arrive(r, m, s)
      PROVE Inv'
  BY <1>5, ArriveStep
<1>6. ASSUME NEW r \in Conns, Request(r) PROVE Inv'
  BY <1>6, RequestStep
<1>7. ASSUME NEW p \in cached, Expire(p) PROVE Inv'
  BY <1>7, ExpireStep
<1>8. ASSUME NEW m \in Sales, Replay(m) PROVE Inv'
  BY <1>8, ReplayStep
<1> QED
  BY <1>1, <1>2, <1>3, <1>4, <1>5, <1>6, <1>7, <1>8 DEF Next

LEMMA InvAlways == Spec => []Inv
BY InvInit, InvNext, PTL DEF Spec

\* Rows and running requests are well typed; in particular no purchase takes a
\* balance below zero (balanceService.ts, debitAvailable).
THEOREM PackTypeOK == Spec => []TypeOK
<1>1. Inv => TypeOK
  BY DEF Inv
<1> QED
  BY <1>1, InvAlways, PTL

\* No drop is oversold and no pack is lost, however purchases interleave and
\* fail (packService.ts, the lock of the drop).
THEOREM NoOversell == Spec => []StockAccounted
<1>1. Inv => StockAccounted
  BY DEF Inv
<1> QED
  BY <1>1, InvAlways, PTL

\* Absolute writes of a balance lose no debit (balanceService.ts, the lock of
\* the balance).
THEOREM NoLostDebit == Spec => []BalanceMatchesLedger
<1>1. Inv => BalanceMatchesLedger
  BY DEF Inv
<1> QED
  BY <1>1, InvAlways, PTL

\* Nobody gets more packs of a drop than the limit (packService.ts, the count
\* under the lock of the drop).
THEOREM LimitHolds == Spec => []PackLimit
<1>1. Inv => PackLimit
  BY DEF Inv
<1> QED
  BY <1>1, InvAlways, PTL

\* A commitment backs one opening of the user who reserved it and is then gone
\* (packService.ts, the lock and the checks of the commitment).
THEOREM SeedsUsedOnce == Spec => []SeedsAreSpent
<1>1. Inv => SeedsAreSpent
  BY DEF Inv, SpentForGood, SeedsAreSpent
<1> QED
  BY <1>1, InvAlways, PTL

\* What a purchase is charged is the price when it is committed: the locked row
\* keeps price changes out (packService.ts, dropRepository.ts).
THEOREM PriceHolds == Spec => PaidPriceOnSale
<1>1. Inv /\ [Next]_vars =>
        [\A p \in purchases' : p \in purchases \/ p.paid = price[p.drop]]_vars
  <2> SUFFICES ASSUME Inv, Next, NEW p \in purchases', p \notin purchases
               PROVE  p.paid = price[p.drop]
    OBVIOUS
  <2>1. PICK r \in Conns : Commit(r)
    BY OnlyCommitBuys
  <2>2. p = Opening(r)
    BY <2>1 DEF Commit, Write
  <2>3. Fit(req[r]) /\ HoldsDrop(req[r])
    BY <2>1, RequestFacts DEF Commit, HoldsDrop
  <2> QED
    BY <2>2, <2>3 DEF Opening, Fit, DropHeld
<1> QED
  BY <1>1, InvAlways, PTL DEF PaidPriceOnSale, Spec

-----------------------------------------------------------------------------
(* Answers *)

OncePerKey == \A p, t \in purchases : p.user = t.user /\ p.key = t.key => p = t

\* Every answer "bought" was true when it was given and still is, and so are those that
\* are kept or about to be given.
AnswersTrue ==
  /\ \A m \in Sales : told[m]["bought"] > 0 => Bought(m)
  /\ cached \subseteq purchases
  /\ \A r \in Conns : req[r].at = "reply" => Bought(Sale(req[r]))
  /\ OncePerKey

\* What a step answers is true.
Honest ==
  \A m \in Sales : /\ Given(m, "bought") => Bought(m)
                   /\ Given(m, "refused") => ~Bought(m)

LEMMA OneAnswer ==
  ASSUME Inv, NEW m \in Sales, NEW a \in Answers, Tell(m, a),
         NEW n \in Sales, NEW b \in Answers, Given(n, b)
  PROVE  n = m /\ b = a
<1>1. told \in [Sales -> [Answers -> Nat]]
  BY DEF Inv, TypeOK
<1>2. CASE n # m
  BY <1>1, <1>2 DEF Tell, Given
<1>3. CASE n = m /\ b # a
  BY <1>1, <1>3 DEF Tell, Given
<1> QED
  BY <1>2, <1>3

LEMMA SilentStep ==
  ASSUME Inv, UNCHANGED told
  PROVE  Honest
<1>1. told \in [Sales -> [Answers -> Nat]] /\ "bought" \in Answers /\ "refused" \in Answers
  BY DEF Inv, TypeOK, Answers
<1> QED
  BY <1>1 DEF Honest, Given

\* The one answer of a step decides whether it is honest.
LEMMA HonestAnswer ==
  ASSUME Inv, NEW m \in Sales, NEW a \in Answers, Tell(m, a),
         a = "bought" => Bought(m), a = "refused" => ~Bought(m)
  PROVE  Honest
<1>1. "bought" \in Answers /\ "refused" \in Answers
  BY DEF Answers
<1>2. \A n \in Sales : \A b \in Answers : Given(n, b) => n = m /\ b = a
  BY OneAnswer
<1> QED
  BY <1>1, <1>2 DEF Honest

LEMMA ReplayIsHonest ==
  ASSUME Inv, AnswersTrue, NEW m \in Sales, Replay(m)
  PROVE  Honest
<1>1. PICK p \in cached : Tell(Sale(p), "bought") \/ Tell(m, "error")
  BY DEF Replay
<1>2. /\ p \in purchases /\ Sale(p) \in Sales /\ Bought(Sale(p))
      /\ "bought" \in Answers /\ "error" \in Answers
  BY DEF AnswersTrue, Inv, TypeOK, Purchases, Answers, Bought
<1>3. CASE Tell(Sale(p), "bought")
  BY <1>2, <1>3, HonestAnswer
<1>4. CASE Tell(m, "error")
  BY <1>2, <1>4, HonestAnswer
<1> QED
  BY <1>1, <1>3, <1>4

LEMMA AnswerIsHonest ==
  ASSUME Inv, AnswersTrue, NEW r \in Conns, QueryFails(r) \/ Recover(r) \/ Reply(r)
  PROVE  Honest
<1>1. "bought" \in Answers /\ "refused" \in Answers /\ "error" \in Answers
  BY DEF Answers
<1>2. req[r].at # "idle" /\ Sale(req[r]) \in Sales
  BY RequestFacts DEF QueryFails, Recover, Reply, Known
<1>3. CASE UNCHANGED told
  BY <1>3, SilentStep
<1>4. CASE Answer(r, "error")
  BY <1>1, <1>2, <1>4, HonestAnswer DEF Answer
<1>5. CASE Reply(r)
  BY <1>1, <1>2, <1>5, HonestAnswer DEF Reply, Answer, AnswersTrue
<1>6. CASE Recover(r) /\ Answer(r, "refused")
  <2>1. CASE Bought(Sale(req[r]))
    <3>1. PICK p \in purchases : Sale(p) = Sale(req[r])
      BY <2>1 DEF Bought
    <3>2. p.user = req[r].user /\ p.key = req[r].key /\ p.drop = req[r].drop
      BY <3>1 DEF Sale
    <3>3. \A t \in Earlier(r) : t = p
      BY <3>2 DEF Earlier, AnswersTrue, OncePerKey
    <3>4. p \in Earlier(r)
      BY <3>2 DEF Earlier
    <3>5. UNCHANGED told
      BY <1>6, <3>2, <3>3, <3>4 DEF Recover
    <3> QED
      BY <3>5, SilentStep
  <2>2. CASE ~Bought(Sale(req[r]))
    BY <1>1, <1>2, <1>6, <2>2, HonestAnswer DEF Answer
  <2> QED
    BY <2>1, <2>2
<1> QED
  BY <1>3, <1>4, <1>5, <1>6 DEF QueryFails, Recover

LEMMA StepIsHonest ==
  ASSUME Inv, AnswersTrue, [Next]_vars
  PROVE  Honest
<1>1. CASE UNCHANGED told
  BY <1>1, SilentStep
<1>2. CASE \E m \in Sales : Replay(m)
  BY <1>2, ReplayIsHonest
<1>3. CASE \E r \in Conns : QueryFails(r) \/ Recover(r) \/ Reply(r)
  BY <1>3, AnswerIsHonest
<1> QED
  BY <1>1, <1>2, <1>3
     DEF vars, Next, Lapse, Reveal, Expire, AdminPrice, Arrive, Request, Work, FindReserved,
         CreateCommitment, FindPurchase, LockDrop, LockSeed, Debit, AppendAudit, Commit, Vanish

LEMMA KeysStayUnique ==
  ASSUME Inv, OncePerKey, Next
  PROVE  purchases \subseteq purchases' /\ OncePerKey'
<1>1. CASE purchases' = purchases
  BY <1>1 DEF OncePerKey
<1>2. ASSUME NEW r \in Conns, Commit(r) PROVE purchases \subseteq purchases' /\ OncePerKey'
  <2>1. purchases' = purchases \cup {Opening(r)}
    BY <1>2 DEF Commit, Write
  <2>2. Opening(r).user = req[r].user /\ Opening(r).key = req[r].key
    BY DEF Opening
  <2>3. \A p \in purchases : ~(p.user = req[r].user /\ p.key = req[r].key)
    BY <1>2, RequestFacts DEF Commit, Fit, BalanceHeld, HoldsBalance
  <2> QED
    BY <2>1, <2>2, <2>3 DEF OncePerKey
<1> QED
  BY <1>1, <1>2, OnlyCommitBuys

\* What is kept is the answer of a purchase.
LEMMA KeptIsBought ==
  ASSUME Inv, AnswersTrue, Next
  PROVE  cached' \subseteq purchases
<1>1. CASE UNCHANGED cached
  BY <1>1 DEF AnswersTrue
<1>2. CASE \E p \in cached : Expire(p)
  BY <1>2 DEF Expire, AnswersTrue
<1>3. CASE \E r \in Conns : Store(r)
  BY <1>3 DEF Store, Earlier, AnswersTrue
<1> QED
  BY <1>1, <1>2, <1>3
     DEF Next, Lapse, Reveal, Replay, AdminPrice, Arrive, Request, Work, FindReserved,
         CreateCommitment, FindPurchase, LockDrop, LockSeed, Debit, AppendAudit, Commit,
         Recover, Reply, QueryFails, Vanish

\* A request that turns to its answer has a purchase.
LEMMA TurnsToReply ==
  ASSUME Inv, NEW r \in Conns, req[r].at # "idle", Leave(r, "reply"),
         FindPurchase(r) \/ Recover(r) \/ Commit(r)
  PROVE  Bought(Sale(req[r]))'
<1>1. req'[r].at = "reply" /\ Sale(req'[r]) = Sale(req[r])
  BY LeavingRecord DEF Inv, TypeOK
<1>2. CASE Commit(r)
  <2>1. Opening(r) \in purchases' /\ Sale(Opening(r)) = Sale(req[r])
    BY <1>2 DEF Commit, Write, Opening, Sale
  <2> QED
    BY <1>1, <2>1 DEF Bought, Sale
<1>3. CASE (FindPurchase(r) \/ Recover(r)) /\ \E p \in Earlier(r) : p.drop = req[r].drop
  <2>1. PICK p \in purchases : Sale(p) = Sale(req[r])
    BY <1>3 DEF Earlier, Sale
  <2>2. p \in purchases'
    BY <1>3 DEF FindPurchase, Recover, database
  <2> QED
    BY <1>1, <2>1, <2>2 DEF Bought, Sale
<1>4. CASE (FindPurchase(r) \/ Recover(r)) /\ \A p \in Earlier(r) : p.drop # req[r].drop
  <2>1. \/ Leave(r, "refused") \/ Proceed(r, "drop") \/ req' = [req EXCEPT ![r] = Idle]
    BY <1>4 DEF FindPurchase, Recover, Answer
  <2>2. req \in [Conns -> Requests]
    BY DEF Inv, TypeOK
  <2>3. CASE Leave(r, "refused")
    BY <1>1, <2>2, <2>3 DEF Leave, Idle
  <2>4. CASE Proceed(r, "drop")
    BY <1>1, <2>2, <2>4 DEF Proceed, Requests
  <2>5. CASE req' = [req EXCEPT ![r] = Idle]
    BY <1>1, <2>2, <2>5 DEF Idle
  <2> QED
    BY <2>1, <2>3, <2>4, <2>5
<1> QED
  BY <1>2, <1>3, <1>4

\* A step changes one request, which is then at its answer for one of three reasons.
LEMMA OneRequestMoves ==
  ASSUME Inv, NEW r \in Conns,
         Request(r) \/ \E m \in Sales, s \in Seeds \cup {NoSeed} : Arrive(r, m, s)
  PROVE  /\ \A t \in Conns : t # r => req'[t] = req[t]
         /\ req'[r].at = "reply" =>
              /\ req[r].at # "idle" /\ Leave(r, "reply")
              /\ FindPurchase(r) \/ Recover(r) \/ Commit(r)
<1>1. req \in [Conns -> Requests]
  BY DEF Inv, TypeOK
<1>2. CASE \E m \in Sales, s \in Seeds \cup {NoSeed} : Arrive(r, m, s)
  BY <1>1, <1>2 DEF Arrive, Idle
<1>3. CASE FindReserved(r) \/ CreateCommitment(r)
  <2>1. CASE FindReserved(r)
    BY <1>1, <2>1 DEF FindReserved, Proceed, Requests
  <2>2. CASE CreateCommitment(r)
    BY <1>1, <2>2 DEF CreateCommitment, Requests
  <2> QED
    BY <1>3, <2>1, <2>2
<1>4. CASE FindPurchase(r)
  BY <1>1, <1>4 DEF FindPurchase, Leave, Proceed, Idle, Requests
<1>5. CASE LockDrop(r)
  BY <1>1, <1>5 DEF LockDrop, Leave, Idle, Requests
<1>6. CASE LockSeed(r)
  BY <1>1, <1>6 DEF LockSeed, Leave, Proceed, Idle, Requests
<1>7. CASE Debit(r)
  BY <1>1, <1>7 DEF Debit, Leave, Idle, Requests
<1>8. CASE AppendAudit(r)
  BY <1>1, <1>8 DEF AppendAudit, Requests
<1>9. CASE Commit(r)
  BY <1>1, <1>9 DEF Commit, Leave, Idle
<1>10. CASE Recover(r)
  BY <1>1, <1>10 DEF Recover, Leave, Answer, Idle
<1>11. CASE Reply(r) \/ Vanish(r)
  BY <1>1, <1>11 DEF Reply, Vanish, Answer, Idle
<1>12. CASE QueryFails(r)
  <2>1. CASE Leave(r, "broken")
    BY <1>1, <2>1 DEF Leave, Idle
  <2>2. CASE Answer(r, "error")
    BY <1>1, <2>2 DEF Answer, Idle
  <2> QED
    BY <1>12, <2>1, <2>2 DEF QueryFails
<1> QED
  BY <1>2, <1>3, <1>4, <1>5, <1>6, <1>7, <1>8, <1>9, <1>10, <1>11, <1>12 DEF Request, Work

LEMMA RepliesAreBought ==
  ASSUME Inv, AnswersTrue, Next, NEW r \in Conns, req'[r].at = "reply"
  PROVE  Bought(Sale(req[r]))'
<1>1. CASE req'[r] = req[r]
  <2>1. PICK p \in purchases : Sale(p) = Sale(req[r])
    BY <1>1 DEF AnswersTrue, Bought
  <2>2. p \in purchases'
    BY KeysStayUnique DEF AnswersTrue
  <2> QED
    BY <1>1, <2>1, <2>2 DEF Bought, Sale
<1>2. CASE /\ req[r].at # "idle" /\ Leave(r, "reply")
           /\ FindPurchase(r) \/ Recover(r) \/ Commit(r)
  BY <1>2, TurnsToReply
<1>3. CASE UNCHANGED req
  BY <1>1, <1>3
<1>4. ASSUME NEW t \in Conns,
             Request(t) \/ \E m \in Sales, s \in Seeds \cup {NoSeed} : Arrive(t, m, s)
      PROVE  Bought(Sale(req[r]))'
  <2>1. CASE t = r
    BY <1>2, <1>4, <2>1, OneRequestMoves
  <2>2. CASE t # r
    BY <1>1, <1>4, <2>2, OneRequestMoves
  <2> QED
    BY <2>1, <2>2
<1> QED
  BY <1>3, <1>4 DEF Next, Lapse, Reveal, Expire, Replay, AdminPrice

LEMMA AnswersTrueNext ==
  ASSUME Inv, AnswersTrue, [Next]_vars
  PROVE  AnswersTrue'
<1>1. CASE UNCHANGED vars
  BY <1>1 DEF vars, AnswersTrue, OncePerKey, Bought, Sale
<1>2. CASE Next
  <2>1. purchases \subseteq purchases' /\ OncePerKey'
    BY <1>2, KeysStayUnique DEF AnswersTrue
  <2>2. cached' \subseteq purchases'
    BY <1>2, <2>1, KeptIsBought
  <2>3. \A r \in Conns : req'[r].at = "reply" => Bought(Sale(req[r]))'
    BY <1>2, RepliesAreBought
  <2>4. ASSUME NEW m \in Sales, told'[m]["bought"] > 0 PROVE Bought(m)'
    <3>1. /\ told[m]["bought"] \in Nat /\ told'[m]["bought"] \in Nat
      BY InvNext DEF Inv, TypeOK, Answers
    <3>2. told[m]["bought"] > 0 \/ Given(m, "bought")
      BY <2>4, <3>1 DEF Given
    <3>3. Bought(m)
      BY <3>2, StepIsHonest DEF AnswersTrue, Honest
    <3> QED
      BY <2>1, <3>3 DEF Bought, Sale
  <2> QED
    BY <2>1, <2>2, <2>3, <2>4 DEF AnswersTrue
<1> QED
  BY <1>1, <1>2

LEMMA AnswersTrueAlways == Spec => []AnswersTrue
<1>1. Init => AnswersTrue
  <2> SUFFICES ASSUME Init PROVE AnswersTrue
    OBVIOUS
  <2>1. \A m \in Sales : told[m]["bought"] = 0
    BY DEF Init, Answers
  <2>2. \A r \in Conns : req[r].at = "idle"
    BY IdleIsARequest DEF Init
  <2> QED
    BY <2>1, <2>2 DEF Init, AnswersTrue, OncePerKey
<1>2. Inv /\ AnswersTrue /\ [Next]_vars => AnswersTrue'
  BY AnswersTrueNext
<1> QED
  BY <1>1, <1>2, InvAlways, PTL DEF Spec

\* A client is told that a pack was bought only when it was, by this request or by an
\* earlier one with its key, and is refused only when it was not; nobody is refused a
\* pack that he was told to have, however his requests fail in between (packService.ts,
\* the lookups before the transaction and in the catch block; packController.ts, the
\* answers kept in Redis).
THEOREM AnswersHold == Spec => AnswersAgree
<1>1. Inv /\ AnswersTrue /\ [Next]_vars =>
        [\A m \in Sales : /\ Given(m, "bought") => Bought(m)
                          /\ Given(m, "refused") => ~Bought(m) /\ told[m]["bought"] = 0]_vars
  <2> SUFFICES ASSUME Inv, AnswersTrue, [Next]_vars, NEW m \in Sales
               PROVE  /\ Given(m, "bought") => Bought(m)
                      /\ Given(m, "refused") => ~Bought(m) /\ told[m]["bought"] = 0
    OBVIOUS
  <2>1. /\ Given(m, "bought") => Bought(m)
        /\ Given(m, "refused") => ~Bought(m)
    BY StepIsHonest DEF Honest
  <2>2. told[m]["bought"] \in Nat
    BY DEF Inv, TypeOK, Answers
  <2>3. ~Bought(m) => told[m]["bought"] = 0
    BY <2>2 DEF AnswersTrue
  <2> QED
    BY <2>1, <2>3
<1> QED
  BY <1>1, InvAlways, AnswersTrueAlways, PTL DEF AnswersAgree, Spec
=============================================================================
