--------------------------- MODULE PackEconomics ---------------------------
(***************************************************************************)
(* The versions of the rarity weights and those who replace them: the      *)
(* scheduled worker, which goes through the tiers, and administrators, who *)
(* ask for one tier (a request for all tiers is one such process for each, *)
(* all at once).  Each reads the market and the active weights, optimises  *)
(* without a lock, and commits a new version in a transaction.  Meanwhile  *)
(* prices move, rarities leave the card pool and drops sell out.           *)
(*                                                                         *)
(* Whoever looks at the market does so over a second connection to the     *)
(* database and keeps the first while waiting for it.                      *)
(*                                                                         *)
(* configs[t] are the committed versions of tier t.  Activating one        *)
(* deactivates all others in the same transaction, so the active one is    *)
(* the last.                                                               *)
(***************************************************************************)
EXTENDS FairOpening

CONSTANTS
  Tiers,              \* PACK_ECONOMICS.TIERS, a sequence
  Budget,             \* Budget[t]: price * (1 - TARGET_MARGIN), per card
  Threshold,          \* DRIFT_THRESHOLD, as a value
  Noise,              \* how far a simulated mean may be from the expectation
  Seed,               \* Seed[t]: the weights of version 1
  Workers, Admins,
  PoolSize,           \* connections to the database, 10 in the code
  MaxVersions         \* bound: no weights are accepted once tier t has MaxVersions[t]

Procs == Workers \cup Admins

ASSUME EconomicsAssumption ==
  /\ Tiers \in Seq(ToSet(Tiers)) /\ Tiers # <<>>
  /\ Budget \in [ToSet(Tiers) -> Nat] /\ Threshold \in Nat /\ Noise \in Nat
  /\ \A t \in ToSet(Tiers) : DOMAIN Seed[t] \subseteq Rarities /\ IsAcceptable(Seed[t], Seed[t])
  /\ IsFiniteSet(Procs) /\ PoolSize \in Nat \ {0} /\ MaxVersions \in [ToSet(Tiers) -> Nat]

VARIABLES
  market,             \* the averages now
  configs,
  used,               \* connections that are taken
  proc

vars == <<market, configs, used, proc>>

Idle == [step |-> "idle"]

Init ==
  /\ market \in Markets
  /\ configs = [t \in ToSet(Tiers) |-> <<[version |-> 1, weights |-> Seed[t]]>>]
  /\ used = 0
  /\ proc = [p \in Procs |-> Idle]

Active(t) == Last(configs[t]).weights

-----------------------------------------------------------------------------
(* Processes *)

Goes(p, to) == proc' = [proc EXCEPT ![p] = to]
At(p, step) == proc[p].step = step

Connect    == used < PoolSize /\ used' = used + 1
Disconnect == used' = used - 1

LeaksBug(p) == Goes(p, Idle) /\ UNCHANGED used
\* An exception: the connection is given back; a worker's loop over the tiers ends.
Throws(p) == Goes(p, Idle) /\ Disconnect

\* What a process does when it is done with tier t.
After(p, t) ==
  LET n == CHOOSE k \in DOMAIN Tiers : Tiers[k] = t IN
  IF p \in Workers /\ n < Len(Tiers) THEN [step |-> "check", tier |-> Tiers[n + 1]] ELSE Idle

Scheduled(p) ==
  /\ p \in Workers /\ At(p, "idle")
  /\ Goes(p, [step |-> "check", tier |-> Head(Tiers)])
  /\ UNCHANGED <<market, configs, used>>

Manual(p, t) ==
  /\ p \in Admins /\ At(p, "idle")
  /\ Goes(p, [step |-> "start", tier |-> t])
  /\ UNCHANGED <<market, configs, used>>

\* An administrator's request for a simulation or for the drifts of all tiers.
Inquire(p) ==
  /\ p \in Admins /\ At(p, "idle")
  /\ Connect
  /\ Goes(p, [step |-> "look"])
  /\ UNCHANGED <<market, configs>>

LookAtMarket(p) ==
  /\ At(p, "look") /\ used < PoolSize
  /\ Throws(p)
  /\ UNCHANGED <<market, configs>>

HasDrifted(w, t) == Distance(computeAnalyticalEV(w, market), Budget[t]) > Threshold

\* Whether a drop of the tier is running is looked up at every use.  Drops come and
\* go, so every lookup may find one or none, and any query may fail.  Whatever happens
\* before the second connection is needed is part of the step that takes the first.
\*
\* rebalanceIfNeeded reads the active weights; without a drop there is no drift.
OpenCheck(p) ==
  LET t == proc[p].tier IN
  /\ At(p, "check")
  /\ \/ Connect /\ Goes(p, [step |-> "drift", tier |-> t, weights |-> Active(t)])
     \/ used < PoolSize /\ UNCHANGED used /\ (Goes(p, After(p, t)) \/ Goes(p, Idle))
  /\ UNCHANGED <<market, configs>>

CheckDrift(p) ==
  LET t == proc[p].tier IN
  /\ At(p, "drift") /\ used < PoolSize /\ Disconnect
  /\ \/ HasDrifted(proc[p].weights, t) /\ Goes(p, [step |-> "start", tier |-> t])
     \/ ~HasDrifted(proc[p].weights, t) /\ Goes(p, After(p, t))
     \/ Goes(p, Idle)
  /\ UNCHANGED <<market, configs>>

\* rebalanceTier takes a connection, which it keeps while it optimises; without a drop
\* it throws.
Start(p) ==
  /\ At(p, "start")
  /\ \/ Connect /\ Goes(p, [step |-> "read", tier |-> proc[p].tier])
     \/ used < PoolSize /\ UNCHANGED used /\ Goes(p, Idle)
  /\ UNCHANGED <<market, configs>>

\* The market, over the second connection, then the active weights.
ReadMarket(p) ==
  LET t == proc[p].tier IN
  /\ At(p, "read") /\ used < PoolSize
  /\ \/ /\ UNCHANGED used
        /\ Goes(p, [step |-> "priced", tier |-> t, market |-> market, weights |-> Active(t)])
     \/ Throws(p)
  /\ UNCHANGED <<market, configs>>

\* What a card of a simulated pack is worth on average: Common stands in for rarities
\* that have left the pool.  (What stands in for Common is within Noise.)
SimulatedEV(w) ==
  SumOf([r \in DOMAIN w |->
           w[r] * (IF r \in DOMAIN market THEN market[r]
                   ELSE IF Common \in DOMAIN market THEN market[Common] ELSE 0)])

\* The search, the cap and the simulations, which look at the market again, once more
\* over a second connection.  Any candidate may turn out to win often enough, and in a
\* dry run it is not activated.
Optimise(p) ==
  LET t    == proc[p].tier
      seen == proc[p].market
      now  == proc[p].weights
  IN
  /\ At(p, "priced") /\ Disconnect
  /\ \/ Goes(p, Idle) /\ (used < PoolSize \/ OptimizerThrows(seen, now))
     \/ Goes(p, After(p, t)) /\ used < PoolSize /\ ~OptimizerThrows(seen, now)
     \/ /\ Len(configs[t]) < MaxVersions[t] /\ used < PoolSize /\ ~OptimizerThrows(seen, now)
        /\ \E w \in Candidates(seen, Budget[t], now) :
             /\ IsAcceptable(w, now) /\ SimulatedEV(w) <= Budget[t] + Noise
             /\ Goes(p, [step |-> "chosen", tier |-> t, weights |-> w])
  /\ UNCHANGED <<market, configs>>

\* withTx: a connection of its own, then the next version.
ReadVersion(p) ==
  LET t == proc[p].tier IN
  /\ At(p, "chosen") /\ Connect
  /\ Goes(p, [step |-> "tx", tier |-> t, weights |-> proc[p].weights,
              version |-> Last(configs[t]).version + 1])
  /\ UNCHANGED <<market, configs>>

\* unique (tier, version): an insert waits for one that has not been committed, and
\* fails when it has.
NotUniqueBug(t, v) == TRUE
VersionIsFree(t, v) == \A n \in DOMAIN configs[t] : configs[t][n].version # v

VersionIsLocked(t, v) == \E q \in Procs : At(q, "inserted") /\ proc[q].tier = t /\ proc[q].version = v

InsertVersion(p) ==
  LET t == proc[p].tier
      v == proc[p].version
  IN
  /\ At(p, "tx") /\ ~VersionIsLocked(t, v)
  /\ IF VersionIsFree(t, v)
     THEN /\ Goes(p, [step |-> "inserted", tier |-> t, version |-> v, weights |-> proc[p].weights])
          /\ UNCHANGED used
     ELSE Throws(p)
  /\ UNCHANGED <<market, configs>>

\* The others are deactivated, this one is activated, and the transaction commits.
Activate(p) ==
  LET t == proc[p].tier IN
  /\ At(p, "inserted") /\ Disconnect
  /\ configs' = [configs EXCEPT ![t] =
                   Append(@, [version |-> proc[p].version, weights |-> proc[p].weights])]
  /\ Goes(p, After(p, t))
  /\ UNCHANGED market

-----------------------------------------------------------------------------
(* The rest of the world *)

MarketMoves ==
  /\ market' \in Markets
  /\ UNCHANGED <<configs, used, proc>>

\* Transactions that have not committed leave nothing.
Restart ==
  /\ proc' = [p \in Procs |-> Idle] /\ used' = 0
  /\ UNCHANGED <<market, configs>>

Rebalancing(p) ==
  \/ LookAtMarket(p)
  \/ OpenCheck(p)
  \/ CheckDrift(p)
  \/ Start(p)
  \/ ReadMarket(p)
  \/ Optimise(p)
  \/ ReadVersion(p)
  \/ InsertVersion(p)
  \/ Activate(p)

Next ==
  \/ \E p \in Procs : \/ Rebalancing(p) \/ Scheduled(p) \/ Inquire(p)
                      \/ \E t \in ToSet(Tiers) : Manual(p, t)
  \/ MarketMoves
  \/ Restart

Spec == Init /\ [][Next]_vars

\* A rebalance that can go on does: connections are handed out in the order in which
\* they were asked for, so nobody is passed over for ever.
FairSpec == Spec /\ \A p \in Procs : SF_vars(Rebalancing(p))

-----------------------------------------------------------------------------
(* Properties *)

\* However rebalances of one tier overlap and fail, its versions count up without a
\* gap or a repetition, in the order in which they became active: there is one
\* active version, the newest.
OneActiveVersion ==
  \A t \in ToSet(Tiers) : \A n \in DOMAIN configs[t] : configs[t][n].version = n

\* The pairs of rarities between which weight can be moved within the bounds.
Movable(w) ==
  {m \in (DOMAIN w) \X (DOMAIN w) :
     m[1] # m[2] /\ w[m[1]] > Lower[m[1]] /\ w[m[2]] < Upper[m[2]]}

\* Players get as much as the margin allows.  The two ends of the search are the cheapest
\* and the most exciting weights within the bounds: no weight can be moved to a cheaper,
\* or to a dearer, rarity.  Unless the bounds leave no weights at all, the search finds
\* the last of the mixes between them that keeps the margin.
SearchFindsTheEdge ==
  \A p \in Procs : At(p, "priced") =>
    LET seen   == proc[p].market
        budget == Budget[proc[p].tier]
        alpha  == findOptimalAlpha(seen, budget)
        ev(n)  == computeAnalyticalEV(interpolateWeights[seen][n], seen)
    IN  /\ \A m \in Movable(computeProfitMaxWeights[seen]) : seen[m[1]] < seen[m[2]]
        /\ \A m \in Movable(computeExcitementMaxWeights[seen]) : seen[m[1]] > seen[m[2]]
        /\ SumOf(computeProfitMaxWeights[seen]) = One =>
             \A n \in 1..(Steps - 1) : ev(n) < budget <=> n <= alpha

\* While the rarities of the pool stay, no price movement makes the cap on changes
\* unattainable: whatever mix the optimiser wants, it finds weights it may activate.
CapCanBeMet ==
  \A p \in Procs : At(p, "priced") =>
    LET seen == proc[p].market
        now  == proc[p].weights
    IN  DOMAIN now = DOMAIN seen =>
          \A alpha \in 0..Steps : IsAcceptable(Adjusted(seen, now, alpha), now)

\* Packs are drawn as the active weights say: of the possible rolls, each rarity of the
\* pool gets its share up to rounding, and the one that takes what rounding leaves over
\* is off by no more than the others together.  Only Common gets more, once it stands in
\* for rarities that have left.
DrawsFollowWeights ==
  \A t \in ToSet(Tiers) :
    LET w == Active(t)
        m == normalizeRarityWeightsToMicros(w)
        slot == [roll \in Rolls |-> SlotRarities(roll, m, DOMAIN market)]
        drawn(r) == Cardinality({roll \in Rolls : r \in slot[roll]})
        off(r) == IF r = Heaviest(InMicros(w)) THEN Cardinality(DOMAIN w) - 1 ELSE 1
    IN  Common \in DOMAIN market =>
          \A r \in DOMAIN w \cap DOMAIN market :
            r # Common \/ DOMAIN w \subseteq DOMAIN market =>
              2 * Distance(drawn(r) * One, w[r] * Micros) <= off(r) * One

\* Those who keep a connection while they wait for a second one.
Waiting ==
  {p \in Procs : \/ proc[p].step \in {"look", "drift", "read"}
                 \/ At(p, "priced") /\ ~OptimizerThrows(proc[p].market, proc[p].weights)}

\* They have all there are.
Exhausted == Cardinality(Waiting) = PoolSize

\* Every rebalance ends, activated, rejected or failed, however often it fails.  Only when
\* as many as there are connections wait for a second one at the same time do they, and
\* all others, wait for ever; no other circle and no leak of connections stops them.
RebalancesEnd == \A p \in Procs : []<>At(p, "idle") \/ <>[]Exhausted
=============================================================================
