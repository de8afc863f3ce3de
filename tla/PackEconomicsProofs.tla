------------------------ MODULE PackEconomicsProofs ------------------------
(***************************************************************************)
(* What holds of the versions of the weights, of the search for new ones,  *)
(* of the cap on their changes, of the draws that follow them and of the   *)
(* pool of connections, for any number of tiers, workers, administrators   *)
(* and connections, any rarities, markets, budgets and bounds.             *)
(***************************************************************************)
EXTENDS PackEconomics, ArithmeticProofs, SequenceTheorems

AllTiers == ToSet(Tiers)

\* The variables are functions, and the versions of a tier a sequence of at least one.
Shapes ==
  /\ proc = [p \in Procs |-> proc[p]]
  /\ configs = [t \in AllTiers |-> configs[t]]
  /\ \A t \in AllTiers : (\E S : configs[t] \in Seq(S)) /\ Len(configs[t]) > 0

\* A process that is at work is at work on a tier, unless it only looks.
WorkingOnATier ==
  \A p \in Procs : proc[p].step \notin {"idle", "look"} => proc[p].tier \in AllTiers

\* A version that was read may be taken by now, but none has been left out before it.
VersionsRead ==
  \A p \in Procs : proc[p].step = "tx" =>
    /\ proc[p].version \in Nat
    /\ 1 <= proc[p].version /\ proc[p].version <= Len(configs[proc[p].tier]) + 1

\* A version that was inserted is still the next one, and nobody else inserts it.
VersionsInserted ==
  \A p \in Procs : proc[p].step = "inserted" =>
    /\ proc[p].version = Len(configs[proc[p].tier]) + 1
    /\ \A q \in Procs : proc[q].step = "inserted" /\ proc[q].tier = proc[p].tier => q = p

Inv == Shapes /\ WorkingOnATier /\ VersionsRead /\ VersionsInserted /\ OneActiveVersion

-----------------------------------------------------------------------------
LEMMA TiersAreListed ==
  /\ Tiers \in Seq(AllTiers) /\ Len(Tiers) \in Nat /\ Len(Tiers) > 0
  /\ Head(Tiers) \in AllTiers
  /\ \A n \in 1..Len(Tiers) : Tiers[n] \in AllTiers
<1>1. Tiers \in Seq(AllTiers) /\ Tiers # <<>>
  BY EconomicsAssumption DEF AllTiers
<1> QED
  BY <1>1

\* Where a process goes next, it is idle or it checks a tier.
LEMMA AfterATier ==
  ASSUME NEW p \in Procs, NEW t \in AllTiers
  PROVE  \/ After(p, t) = Idle
         \/ After(p, t).step = "check" /\ After(p, t).tier \in AllTiers
<1> DEFINE n == CHOOSE k \in DOMAIN Tiers : Tiers[k] = t
<1>1. DOMAIN Tiers = 1..Len(Tiers)
  BY TiersAreListed
<1>2. \E k \in DOMAIN Tiers : Tiers[k] = t
  BY DEF AllTiers, ToSet
<1>3. n \in 1..Len(Tiers)
  BY <1>1, <1>2
<1>4. n < Len(Tiers) => Tiers[n + 1] \in AllTiers
  BY <1>3, TiersAreListed
<1> HIDE DEF n
<1>5. After(p, t) = IF p \in Workers /\ n < Len(Tiers)
                    THEN [step |-> "check", tier |-> Tiers[n + 1]] ELSE Idle
  BY DEF After, n
<1> QED
  BY <1>4, <1>5

LEMMA LastOfVersions ==
  ASSUME Inv, NEW t \in AllTiers
  PROVE  /\ Len(configs[t]) \in Nat /\ Len(configs[t]) > 0
         /\ DOMAIN configs[t] = 1..Len(configs[t])
         /\ Last(configs[t]).version = Len(configs[t])
<1>1. PICK S : configs[t] \in Seq(S)
  BY DEF Inv, Shapes
<1>2. /\ Len(configs[t]) \in Nat /\ Len(configs[t]) > 0
      /\ DOMAIN configs[t] = 1..Len(configs[t])
  BY <1>1 DEF Inv, Shapes
<1>3. configs[t][Len(configs[t])].version = Len(configs[t])
  BY <1>2 DEF Inv, OneActiveVersion, AllTiers
<1> QED
  BY <1>2, <1>3 DEF Last

LEMMA InitInv == Init => Inv
<1> SUFFICES ASSUME Init PROVE Inv
  OBVIOUS
<1>1. \A p \in Procs : proc[p].step = "idle"
  BY DEF Init, Idle
<1>2. ASSUME NEW t \in AllTiers
      PROVE  /\ \E S : configs[t] \in Seq(S)
             /\ Len(configs[t]) = 1 /\ configs[t][1].version = 1
  <2> DEFINE first == [version |-> 1, weights |-> Seed[t]]
  <2>1. configs[t] = <<first>>
    BY DEF Init, AllTiers
  <2>2. configs[t] \in Seq({first}) /\ Len(configs[t]) = 1 /\ configs[t][1] = first
    BY <2>1
  <2> QED
    BY <2>2
<1>3. Shapes
  BY <1>2 DEF Init, Shapes, AllTiers
<1>4. OneActiveVersion
  <2> SUFFICES ASSUME NEW t \in AllTiers, NEW n \in DOMAIN configs[t]
               PROVE  configs[t][n].version = n
    BY DEF OneActiveVersion, AllTiers
  <2>1. PICK S : configs[t] \in Seq(S)
    BY <1>2
  <2>2. n = 1
    BY <1>2, <2>1
  <2> QED
    BY <1>2, <2>2
<1> QED
  BY <1>1, <1>3, <1>4 DEF Inv, WorkingOnATier, VersionsRead, VersionsInserted

\* A step of one process that leaves the versions alone and takes it out of, or
\* does not bring it into, a transaction.
LEMMA OutsideTransactions ==
  ASSUME Inv, NEW p \in Procs, NEW c, Goes(p, c), UNCHANGED configs,
         c.step \notin {"tx", "inserted"}, c.step \notin {"idle", "look"} => c.tier \in AllTiers
  PROVE  Inv'
<1>1. proc' = [q \in Procs |-> IF q = p THEN c ELSE proc[q]]
  BY DEF Goes, Inv, Shapes
<1>2. Shapes' /\ OneActiveVersion'
  BY <1>1 DEF Inv, Shapes, OneActiveVersion
<1>3. WorkingOnATier'
  BY <1>1 DEF Inv, WorkingOnATier
<1>4. VersionsRead' /\ VersionsInserted'
  BY <1>1 DEF Inv, VersionsRead, VersionsInserted
<1> QED
  BY <1>2, <1>3, <1>4 DEF Inv

LEMMA GoesIdle ==
  ASSUME Inv, NEW p \in Procs, Goes(p, Idle), UNCHANGED configs
  PROVE  Inv'
BY OutsideTransactions DEF Idle

LEMMA GoesOn ==
  ASSUME Inv, NEW p \in Procs, NEW t \in AllTiers, Goes(p, After(p, t)), UNCHANGED configs
  PROVE  Inv'
BY AfterATier, OutsideTransactions DEF Idle

-----------------------------------------------------------------------------
LEMMA ReadVersionInv ==
  ASSUME Inv, NEW p \in Procs, ReadVersion(p)
  PROVE  Inv'
<1> DEFINE t == proc[p].tier
           v == Last(configs[t]).version + 1
           c == [step |-> "tx", tier |-> t, weights |-> proc[p].weights, version |-> v]
<1>1. t \in AllTiers
  BY DEF ReadVersion, At, Inv, WorkingOnATier
<1>2. v \in Nat /\ 1 <= v /\ v <= Len(configs[t]) + 1
  BY <1>1, LastOfVersions
<1>3. proc' = [q \in Procs |-> IF q = p THEN c ELSE proc[q]] /\ UNCHANGED configs
  BY DEF ReadVersion, Goes, Inv, Shapes
<1>4. c.step = "tx" /\ c.tier = t /\ c.version = v
  OBVIOUS
<1> HIDE DEF c, v
<1>5. Shapes' /\ OneActiveVersion'
  BY <1>3 DEF Inv, Shapes, OneActiveVersion
<1>6. WorkingOnATier'
  BY <1>1, <1>3, <1>4 DEF Inv, WorkingOnATier
<1>7. VersionsRead'
  BY <1>2, <1>3, <1>4 DEF Inv, VersionsRead
<1>8. VersionsInserted'
  BY <1>3, <1>4 DEF Inv, VersionsInserted
<1> QED
  BY <1>5, <1>6, <1>7, <1>8 DEF Inv

\* The number is free and nobody is inserting it, so it is the next one.
LEMMA InsertVersionInv ==
  ASSUME Inv, NEW p \in Procs, InsertVersion(p)
  PROVE  Inv'
<1> DEFINE t == proc[p].tier
           v == proc[p].version
           c == [step |-> "inserted", tier |-> t, version |-> v, weights |-> proc[p].weights]
<1>1. proc[p].step = "tx" /\ ~VersionIsLocked(t, v) /\ UNCHANGED configs
  BY DEF InsertVersion, At
<1>2. CASE ~VersionIsFree(t, v)
  <2>1. Goes(p, Idle)
    BY <1>2 DEF InsertVersion, Throws, VersionIsFree
  <2> QED
    BY <1>1, <2>1, GoesIdle
<1>3. CASE VersionIsFree(t, v)
  <2>1. t \in AllTiers
    BY <1>1 DEF Inv, WorkingOnATier
  <2>2. proc' = [q \in Procs |-> IF q = p THEN c ELSE proc[q]]
    BY <1>3 DEF InsertVersion, VersionIsFree, Goes, Inv, Shapes
  <2>3. c.step = "inserted" /\ c.tier = t /\ c.version = v
    OBVIOUS
  <2>4. v = Len(configs[t]) + 1
    <3>1. v \in Nat /\ 1 <= v /\ v <= Len(configs[t]) + 1
      BY <1>1 DEF Inv, VersionsRead
    <3>2. v \in 1..Len(configs[t]) => configs[t][v].version = v
      BY <2>1, LastOfVersions DEF Inv, OneActiveVersion, AllTiers
    <3>3. v \notin 1..Len(configs[t])
      BY <1>3, <2>1, <3>2, LastOfVersions DEF VersionIsFree
    <3> QED
      BY <2>1, <3>1, <3>3, LastOfVersions
  <2>5. \A q \in Procs : proc[q].step = "inserted" => proc[q].tier # t
    BY <1>1, <2>4 DEF Inv, VersionsInserted, VersionIsLocked, At
  <2> HIDE DEF c
  <2>6. Shapes' /\ OneActiveVersion'
    BY <1>1, <2>2 DEF Inv, Shapes, OneActiveVersion
  <2>7. WorkingOnATier'
    BY <2>1, <2>2, <2>3 DEF Inv, WorkingOnATier
  <2>8. VersionsRead'
    BY <1>1, <2>2, <2>3 DEF Inv, VersionsRead
  <2>9. VersionsInserted'
    BY <1>1, <2>2, <2>3, <2>4, <2>5 DEF Inv, VersionsInserted
  <2> QED
    BY <2>6, <2>7, <2>8, <2>9 DEF Inv
<1> QED
  BY <1>2, <1>3

\* The version that is appended is the next one; whoever has read it finds it taken.
LEMMA ActivateInv ==
  ASSUME Inv, NEW p \in Procs, Activate(p)
  PROVE  Inv'
<1> DEFINE t == proc[p].tier
           row == [version |-> proc[p].version, weights |-> proc[p].weights]
           c == After(p, t)
<1>1. proc[p].step = "inserted"
  BY DEF Activate, At
<1>2. t \in AllTiers
  BY <1>1 DEF Inv, WorkingOnATier
<1>3. configs' = [configs EXCEPT ![t] = Append(@, row)]
  BY DEF Activate
<1>4. proc' = [q \in Procs |-> IF q = p THEN c ELSE proc[q]]
  BY DEF Activate, Goes, Inv, Shapes
<1>5. \/ c.step = "idle"
      \/ c.step = "check" /\ c.tier \in AllTiers
  BY <1>2, AfterATier DEF Idle
<1>6. row.version = Len(configs[t]) + 1
  BY <1>1 DEF Inv, VersionsInserted
<1> HIDE DEF row, c
<1>7. /\ configs' = [s \in AllTiers |-> configs'[s]]
      /\ configs'[t] = Append(configs[t], row)
      /\ \A s \in AllTiers \ {t} : configs'[s] = configs[s]
  BY <1>2, <1>3 DEF Inv, Shapes
<1>8. PICK S : configs[t] \in Seq(S)
  BY <1>2 DEF Inv, Shapes
<1>9. /\ configs'[t] \in Seq(S \cup {row})
      /\ Len(configs'[t]) = Len(configs[t]) + 1
      /\ configs'[t][Len(configs[t]) + 1] = row
      /\ \A n \in 1..Len(configs[t]) : configs'[t][n] = configs[t][n]
  <2>1. configs[t] \in Seq(S \cup {row})
    BY <1>8
  <2> QED
    BY <1>7, <2>1, AppendProperties
<1>10. Shapes'
  <2>1. ASSUME NEW s \in AllTiers PROVE (\E R : configs'[s] \in Seq(R)) /\ Len(configs'[s]) > 0
    <3>1. CASE s = t
      BY <1>2, <1>9, <3>1, LastOfVersions
    <3>2. CASE s # t
      BY <1>7, <3>2 DEF Inv, Shapes
    <3> QED
      BY <3>1, <3>2
  <2> QED
    BY <1>4, <1>7, <2>1 DEF Shapes, AllTiers
<1>11. OneActiveVersion'
  <2> SUFFICES ASSUME NEW s \in AllTiers, NEW n \in DOMAIN configs'[s]
               PROVE  configs'[s][n].version = n
    BY DEF OneActiveVersion, AllTiers
  <2>1. CASE s = t
    <3>1. n \in 1..(Len(configs[t]) + 1)
      BY <1>9, <2>1
    <3>2. CASE n = Len(configs[t]) + 1
      BY <1>6, <1>9, <2>1, <3>2
    <3>3. CASE n \in 1..Len(configs[t])
      <4>1. configs[t][n].version = n
        BY <1>2, <3>3, LastOfVersions DEF Inv, OneActiveVersion, AllTiers
      <4> QED
        BY <1>9, <2>1, <3>3, <4>1
    <3> QED
      BY <1>2, <3>1, <3>2, <3>3, LastOfVersions
  <2>2. CASE s # t
    BY <1>7, <2>2 DEF Inv, OneActiveVersion, AllTiers
  <2> QED
    BY <2>1, <2>2
<1>12. WorkingOnATier'
  BY <1>4, <1>5 DEF Inv, WorkingOnATier
<1>13. \A s \in AllTiers : Len(configs'[s]) \in Nat /\ Len(configs'[s]) >= Len(configs[s])
  BY <1>2, <1>7, <1>9, LastOfVersions
<1>14. VersionsRead'
  <2> SUFFICES ASSUME NEW q \in Procs, proc'[q].step = "tx"
               PROVE  /\ proc'[q].version \in Nat /\ 1 <= proc'[q].version
                      /\ proc'[q].version <= Len(configs'[proc'[q].tier]) + 1
    BY DEF VersionsRead
  <2>1. proc'[q] = proc[q]
    BY <1>4, <1>5
  <2>2. proc[q].tier \in AllTiers
    BY <2>1 DEF Inv, WorkingOnATier
  <2> QED
    BY <1>13, <2>1, <2>2, LastOfVersions DEF Inv, VersionsRead
<1>15. VersionsInserted'
  <2> SUFFICES ASSUME NEW q \in Procs, proc'[q].step = "inserted"
               PROVE  /\ proc'[q].version = Len(configs'[proc'[q].tier]) + 1
                      /\ \A r \in Procs :
                           proc'[r].step = "inserted" /\ proc'[r].tier = proc'[q].tier
                             => r = q
    BY DEF VersionsInserted
  <2>1. q # p /\ proc'[q] = proc[q]
    BY <1>4, <1>5
  <2>2. proc[q].tier \in AllTiers \ {t}
    BY <1>1, <2>1 DEF Inv, WorkingOnATier, VersionsInserted
  <2>3. proc'[q].version = Len(configs'[proc'[q].tier]) + 1
    BY <1>7, <2>1, <2>2 DEF Inv, VersionsInserted
  <2>4. ASSUME NEW r \in Procs, proc'[r].step = "inserted", proc'[r].tier = proc'[q].tier
        PROVE  r = q
    <3>1. proc'[r] = proc[r]
      BY <1>4, <1>5, <2>4
    <3> QED
      BY <2>1, <2>4, <3>1 DEF Inv, VersionsInserted
  <2> QED
    BY <2>3, <2>4
<1> QED
  BY <1>10, <1>11, <1>12, <1>14, <1>15 DEF Inv

LEMMA RebalancingInv ==
  ASSUME Inv, NEW p \in Procs, Rebalancing(p)
  PROVE  Inv'
<1>1. CASE CheckDrift(p) \/ OpenCheck(p)
  <2>1. proc[p].tier \in AllTiers /\ UNCHANGED configs
    BY <1>1 DEF CheckDrift, OpenCheck, At, Inv, WorkingOnATier
  <2> DEFINE c == [step |-> "start", tier |-> proc[p].tier]
             d == [step |-> "drift", tier |-> proc[p].tier, weights |-> Active(proc[p].tier)]
  <2>2. CASE Goes(p, c)
    BY <2>1, <2>2, OutsideTransactions
  <2>3. CASE Goes(p, d)
    BY <2>1, <2>3, OutsideTransactions
  <2>4. CASE Goes(p, After(p, proc[p].tier)) \/ Goes(p, Idle)
    BY <2>1, <2>4, GoesOn, GoesIdle
  <2> QED
    BY <1>1, <2>2, <2>3, <2>4 DEF CheckDrift, OpenCheck
<1>2. CASE Start(p)
  <2> DEFINE c == [step |-> "read", tier |-> proc[p].tier]
  <2>1. proc[p].tier \in AllTiers /\ UNCHANGED configs
    BY <1>2 DEF Start, At, Inv, WorkingOnATier
  <2>2. CASE Goes(p, c)
    BY <2>1, <2>2, OutsideTransactions
  <2>3. CASE Goes(p, Idle)
    BY <2>1, <2>3, GoesIdle
  <2> QED
    BY <1>2, <2>2, <2>3 DEF Start
<1>3. CASE ReadMarket(p)
  <2> DEFINE c == [step |-> "priced", tier |-> proc[p].tier, market |-> market,
                   weights |-> Active(proc[p].tier)]
  <2>1. proc[p].tier \in AllTiers /\ UNCHANGED configs
    BY <1>3 DEF ReadMarket, At, Inv, WorkingOnATier
  <2>2. CASE Goes(p, c)
    BY <2>1, <2>2, OutsideTransactions
  <2>3. CASE Goes(p, Idle)
    BY <2>1, <2>3, GoesIdle
  <2> QED
    BY <1>3, <2>2, <2>3 DEF ReadMarket, Throws
<1>4. CASE Optimise(p)
  <2> DEFINE t == proc[p].tier
  <2>1. t \in AllTiers /\ UNCHANGED configs
    BY <1>4 DEF Optimise, At, Inv, WorkingOnATier
  <2>2. CASE Goes(p, Idle)
    BY <2>1, <2>2, GoesIdle
  <2>3. CASE Goes(p, After(p, t))
    BY <2>1, <2>3, GoesOn
  <2>4. CASE \E w : Goes(p, [step |-> "chosen", tier |-> t, weights |-> w])
    <3>1. PICK w : Goes(p, [step |-> "chosen", tier |-> t, weights |-> w])
      BY <2>4
    <3> QED
      BY <2>1, <3>1, OutsideTransactions
  <2> QED
    BY <1>4, <2>2, <2>3, <2>4 DEF Optimise
<1>5. CASE LookAtMarket(p)
  BY <1>5, GoesIdle DEF LookAtMarket, Throws
<1> QED
  BY <1>1, <1>2, <1>3, <1>4, <1>5, ReadVersionInv, InsertVersionInv, ActivateInv DEF Rebalancing

LEMMA NextInv == Inv /\ [Next]_vars => Inv'
<1> SUFFICES ASSUME Inv, [Next]_vars PROVE Inv'
  OBVIOUS
<1>1. CASE \E p \in Procs : Rebalancing(p)
  BY <1>1, RebalancingInv
<1>2. ASSUME NEW p \in Procs, Scheduled(p) PROVE Inv'
  <2> DEFINE c == [step |-> "check", tier |-> Head(Tiers)]
  <2>1. Goes(p, c) /\ UNCHANGED configs
    BY <1>2 DEF Scheduled
  <2> QED
    BY <2>1, TiersAreListed, OutsideTransactions
<1>3. ASSUME NEW p \in Procs, NEW t \in AllTiers, Manual(p, t) PROVE Inv'
  <2> DEFINE c == [step |-> "start", tier |-> t]
  <2>1. Goes(p, c) /\ UNCHANGED configs
    BY <1>3 DEF Manual
  <2> QED
    BY <2>1, OutsideTransactions
<1>4. CASE MarketMoves \/ UNCHANGED vars
  <2>1. UNCHANGED <<proc, configs>>
    BY <1>4 DEF MarketMoves, vars
  <2> QED
    BY <2>1 DEF Inv, Shapes, WorkingOnATier, VersionsRead, VersionsInserted, OneActiveVersion
<1>5. CASE Restart
  <2>1. UNCHANGED configs /\ proc' = [p \in Procs |-> Idle]
    BY <1>5 DEF Restart
  <2>2. \A p \in Procs : proc'[p].step = "idle"
    BY <2>1 DEF Idle
  <2>3. Shapes' /\ OneActiveVersion'
    BY <2>1 DEF Inv, Shapes, OneActiveVersion
  <2> QED
    BY <2>2, <2>3 DEF Inv, WorkingOnATier, VersionsRead, VersionsInserted
<1>6. ASSUME NEW p \in Procs, Inquire(p) PROVE Inv'
  <2> DEFINE c == [step |-> "look"]
  <2>1. Goes(p, c) /\ UNCHANGED configs
    BY <1>6 DEF Inquire
  <2> QED
    BY <2>1, OutsideTransactions
<1> QED
  BY <1>1, <1>2, <1>3, <1>4, <1>5, <1>6 DEF Next, AllTiers

\* However rebalances of a tier overlap, fail and are cut off by restarts, the
\* versions of a tier that were activated are numbered 1, 2, 3 and so on, in the
\* order of their activation (createConfigVersion, activateConfig).
THEOREM VersionsInOrder == Spec => []OneActiveVersion
<1>1. Inv => OneActiveVersion
  BY DEF Inv
<1> QED
  BY <1>1, InitInv, NextInv, PTL DEF Spec

-----------------------------------------------------------------------------
(* The pool *)

\* The steps at which a process keeps a connection.
KeepsOne == {"look", "drift", "read", "priced", "tx", "inserted"}

Holders == {p \in Procs : proc[p].step \in KeepsOne}

\* The connections that are taken are those the processes keep, one each.
PoolIsExact == used = Cardinality(Holders) /\ used <= PoolSize

PoolInv == Inv /\ PoolIsExact

LEMMA HoldersAreFinite ==
  IsFiniteSet(Holders) /\ Cardinality(Holders) \in Nat
<1>1. IsFiniteSet(Procs) /\ Holders \in SUBSET Procs
  BY EconomicsAssumption DEF Holders
<1> HIDE DEF Holders
<1> QED
  BY <1>1, FS_Subset, FS_CardinalityType

\* One process moves: the holders with it, without it, or the same.
LEMMA HoldersOf ==
  ASSUME Inv, NEW p \in Procs, NEW c, Goes(p, c)
  PROVE  /\ c.step \in KeepsOne => Holders' = Holders \cup {p}
         /\ c.step \notin KeepsOne => Holders' = Holders \ {p}
         /\ p \in Holders <=> proc[p].step \in KeepsOne
<1>1. proc' = [q \in Procs |-> IF q = p THEN c ELSE proc[q]]
  BY DEF Goes, Inv, Shapes
<1> QED
  BY <1>1 DEF Holders

LEMMA PoolSteps ==
  ASSUME PoolInv, NEW p \in Procs, NEW c, Goes(p, c),
         \/ /\ proc[p].step \notin KeepsOne /\ c.step \in KeepsOne /\ Connect
         \/ /\ proc[p].step \in KeepsOne /\ c.step \notin KeepsOne /\ Disconnect
         \/ /\ proc[p].step \in KeepsOne <=> c.step \in KeepsOne
            /\ UNCHANGED used
  PROVE  PoolIsExact'
<1>1. /\ c.step \in KeepsOne => Holders' = Holders \cup {p}
      /\ c.step \notin KeepsOne => Holders' = Holders \ {p}
      /\ p \in Holders <=> proc[p].step \in KeepsOne
  BY HoldersOf DEF PoolInv
<1>2. /\ Cardinality(Holders \cup {p}) =
           IF p \in Holders THEN Cardinality(Holders) ELSE Cardinality(Holders) + 1
      /\ Cardinality(Holders \ {p}) =
           IF p \in Holders THEN Cardinality(Holders) - 1 ELSE Cardinality(Holders)
  <2> HIDE DEF Holders
  <2> QED
    BY HoldersAreFinite, FS_AddElement, FS_RemoveElement
<1>3. /\ PoolSize \in Nat /\ Cardinality(Holders) \in Nat
      /\ used = Cardinality(Holders) /\ used <= PoolSize
  BY EconomicsAssumption, HoldersAreFinite DEF PoolInv, PoolIsExact
<1> HIDE DEF Holders
<1>4. CASE proc[p].step \notin KeepsOne /\ c.step \in KeepsOne /\ Connect
  <2>1. Cardinality(Holders') = Cardinality(Holders) + 1
    BY <1>1, <1>2, <1>4
  <2>2. used' = used + 1 /\ used < PoolSize
    BY <1>4 DEF Connect
  <2> QED
    BY <1>3, <2>1, <2>2 DEF PoolIsExact
<1>5. CASE proc[p].step \in KeepsOne /\ c.step \notin KeepsOne /\ Disconnect
  <2>1. Cardinality(Holders') = Cardinality(Holders) - 1
    BY <1>1, <1>2, <1>5
  <2>2. used' = used - 1
    BY <1>5 DEF Disconnect
  <2> QED
    BY <1>3, <2>1, <2>2 DEF PoolIsExact
<1>6. CASE (proc[p].step \in KeepsOne <=> c.step \in KeepsOne) /\ UNCHANGED used
  BY <1>1, <1>2, <1>3, <1>6 DEF PoolIsExact
<1> QED
  BY <1>4, <1>5, <1>6

\* A step to Idle or to the next tier keeps nothing.
LEMMA PoolRests ==
  ASSUME PoolInv, NEW p \in Procs,
         Goes(p, Idle) \/ \E t \in AllTiers : Goes(p, After(p, t)),
         \/ proc[p].step \in KeepsOne /\ Disconnect
         \/ proc[p].step \notin KeepsOne /\ UNCHANGED used
  PROVE  PoolIsExact'
<1>1. PICK c : Goes(p, c) /\ c.step \in {"idle", "check"}
  BY AfterATier DEF Idle
<1>2. c.step \notin KeepsOne
  BY <1>1 DEF KeepsOne
<1> QED
  BY <1>1, <1>2, PoolSteps

LEMMA RebalancingPool ==
  ASSUME PoolInv, NEW p \in Procs, Rebalancing(p)
  PROVE  PoolIsExact'
<1> DEFINE t == proc[p].tier
<1>0. proc[p].step \notin {"idle", "look"} => t \in AllTiers
  BY DEF PoolInv, Inv, WorkingOnATier
<1>1. CASE LookAtMarket(p)
  BY <1>1, PoolRests DEF LookAtMarket, At, Throws, KeepsOne
<1>2. CASE OpenCheck(p)
  <2> DEFINE c == [step |-> "drift", tier |-> t, weights |-> Active(t)]
  <2>1. t \in AllTiers /\ proc[p].step \notin KeepsOne /\ c.step \in KeepsOne
    BY <1>0, <1>2 DEF OpenCheck, At, KeepsOne
  <2>2. CASE Connect /\ Goes(p, c)
    BY <2>1, <2>2, PoolSteps
  <2>3. CASE UNCHANGED used /\ (Goes(p, After(p, t)) \/ Goes(p, Idle))
    BY <2>1, <2>3, PoolRests
  <2> QED
    BY <1>2, <2>2, <2>3 DEF OpenCheck
<1>3. CASE CheckDrift(p)
  <2> DEFINE c == [step |-> "start", tier |-> t]
  <2>1. t \in AllTiers /\ proc[p].step \in KeepsOne /\ c.step \notin KeepsOne /\ Disconnect
    BY <1>0, <1>3 DEF CheckDrift, At, KeepsOne
  <2>2. CASE Goes(p, c)
    BY <2>1, <2>2, PoolSteps
  <2>3. CASE Goes(p, After(p, t)) \/ Goes(p, Idle)
    BY <2>1, <2>3, PoolRests
  <2> QED
    BY <1>3, <2>2, <2>3 DEF CheckDrift
<1>4. CASE Start(p)
  <2> DEFINE c == [step |-> "read", tier |-> t]
  <2>1. proc[p].step \notin KeepsOne /\ c.step \in KeepsOne
    BY <1>4 DEF Start, At, KeepsOne
  <2>2. CASE Connect /\ Goes(p, c)
    BY <2>1, <2>2, PoolSteps
  <2>3. CASE UNCHANGED used /\ Goes(p, Idle)
    BY <2>1, <2>3, PoolRests
  <2> QED
    BY <1>4, <2>2, <2>3 DEF Start
<1>5. CASE ReadMarket(p)
  <2> DEFINE c == [step |-> "priced", tier |-> t, market |-> market, weights |-> Active(t)]
  <2>1. proc[p].step \in KeepsOne /\ c.step \in KeepsOne
    BY <1>5 DEF ReadMarket, At, KeepsOne
  <2>2. CASE UNCHANGED used /\ Goes(p, c)
    BY <2>1, <2>2, PoolSteps
  <2>3. CASE Throws(p)
    BY <2>1, <2>3, PoolRests DEF Throws
  <2> QED
    BY <1>5, <2>2, <2>3 DEF ReadMarket
<1>6. CASE Optimise(p)
  <2>1. t \in AllTiers /\ proc[p].step \in KeepsOne /\ Disconnect
    BY <1>0, <1>6 DEF Optimise, At, KeepsOne
  <2>2. CASE Goes(p, Idle) \/ Goes(p, After(p, t))
    BY <2>1, <2>2, PoolRests
  <2>3. CASE \E w : Goes(p, [step |-> "chosen", tier |-> t, weights |-> w])
    <3>1. PICK w : Goes(p, [step |-> "chosen", tier |-> t, weights |-> w])
      BY <2>3
    <3> DEFINE c == [step |-> "chosen", tier |-> t, weights |-> w]
    <3>2. c.step \notin KeepsOne
      BY DEF KeepsOne
    <3> QED
      BY <2>1, <3>1, <3>2, PoolSteps
  <2> QED
    BY <1>6, <2>2, <2>3 DEF Optimise
<1>7. CASE ReadVersion(p)
  <2> DEFINE c == [step |-> "tx", tier |-> t, weights |-> proc[p].weights,
                   version |-> Last(configs[t]).version + 1]
  <2>1. proc[p].step \notin KeepsOne /\ c.step \in KeepsOne /\ Connect /\ Goes(p, c)
    BY <1>7 DEF ReadVersion, At, KeepsOne
  <2> QED
    BY <2>1, PoolSteps
<1>8. CASE InsertVersion(p)
  <2> DEFINE c == [step |-> "inserted", tier |-> t, version |-> proc[p].version,
                   weights |-> proc[p].weights]
  <2>1. proc[p].step \in KeepsOne /\ c.step \in KeepsOne
    BY <1>8 DEF InsertVersion, At, KeepsOne
  <2>2. CASE UNCHANGED used /\ Goes(p, c)
    BY <2>1, <2>2, PoolSteps
  <2>3. CASE Throws(p)
    BY <2>1, <2>3, PoolRests DEF Throws
  <2> QED
    BY <1>8, <2>2, <2>3 DEF InsertVersion
<1>9. CASE Activate(p)
  BY <1>0, <1>9, PoolRests DEF Activate, At, KeepsOne
<1> QED
  BY <1>1, <1>2, <1>3, <1>4, <1>5, <1>6, <1>7, <1>8, <1>9 DEF Rebalancing

LEMMA NextPool == PoolInv /\ [Next]_vars => PoolIsExact'
<1> SUFFICES ASSUME PoolInv, [Next]_vars PROVE PoolIsExact'
  OBVIOUS
<1>1. CASE \E p \in Procs : Rebalancing(p)
  BY <1>1, RebalancingPool
<1>2. ASSUME NEW p \in Procs, Scheduled(p) \/ \E t \in AllTiers : Manual(p, t)
      PROVE  PoolIsExact'
  <2>1. \/ Goes(p, [step |-> "check", tier |-> Head(Tiers)])
        \/ \E t \in AllTiers : Goes(p, [step |-> "start", tier |-> t])
    BY <1>2 DEF Scheduled, Manual
  <2>2. PICK c : Goes(p, c) /\ c.step \in {"check", "start"}
    <3> DEFINE first == [step |-> "check", tier |-> Head(Tiers)]
               at(t) == [step |-> "start", tier |-> t]
    <3>1. first.step = "check" /\ \A t : at(t).step = "start"
      OBVIOUS
    <3> HIDE DEF first, at
    <3>2. Goes(p, first) \/ \E t \in AllTiers : Goes(p, at(t))
      BY <2>1 DEF first, at
    <3> QED
      BY <3>1, <3>2
  <2>3. c.step \notin KeepsOne /\ proc[p].step \notin KeepsOne /\ UNCHANGED used
    BY <1>2, <2>2 DEF Scheduled, Manual, At, KeepsOne
  <2> QED
    BY <2>2, <2>3, PoolSteps
<1>3. ASSUME NEW p \in Procs, Inquire(p) PROVE PoolIsExact'
  <2> DEFINE c == [step |-> "look"]
  <2>1. proc[p].step \notin KeepsOne /\ c.step \in KeepsOne /\ Connect /\ Goes(p, c)
    BY <1>3 DEF Inquire, At, KeepsOne
  <2> QED
    BY <2>1, PoolSteps
<1>4. CASE MarketMoves \/ UNCHANGED vars
  BY <1>4 DEF MarketMoves, vars, PoolInv, PoolIsExact, Holders
<1>5. CASE Restart
  <2>1. Holders' = {} /\ used' = 0
    BY <1>5 DEF Restart, Holders, Idle, KeepsOne
  <2> QED
    BY <2>1, FS_EmptySet, EconomicsAssumption DEF PoolIsExact
<1> QED
  BY <1>1, <1>2, <1>3, <1>4, <1>5 DEF Next, AllTiers

\* However rebalances overlap, fail and are cut off, the pool has lent what they keep and
\* no more (pool.connect, client.release in the finally blocks): connections are neither
\* leaked nor given back twice.
THEOREM NothingLeaks == Spec => []PoolIsExact
<1>1. Init => PoolIsExact
  <2> SUFFICES ASSUME Init PROVE PoolIsExact
    OBVIOUS
  <2>1. Holders = {} /\ used = 0
    BY DEF Init, Holders, Idle, KeepsOne
  <2> QED
    BY <2>1, FS_EmptySet, EconomicsAssumption DEF PoolIsExact
<1> QED
  BY <1>1, InitInv, NextInv, NextPool, PTL DEF Spec, PoolInv

-----------------------------------------------------------------------------
(* Dealing out in an order *)

\* The order of v on S; first[r] are those that come before r.
InOrder(S, v, first) ==
  /\ IsFiniteSet(S)
  /\ \A r \in S : v[r] \in Int /\ first[r] = {s \in S : v[s] < v[r]}
  /\ \A r, s \in S : v[r] = v[s] => r = s

LEMMA PrefixType ==
  ASSUME NEW S, NEW v, NEW first, InOrder(S, v, first),
         NEW room, \A x \in S : room[x] \in Nat, NEW r \in S
  PROVE  /\ IsFiniteSet(first[r]) /\ first[r] \in SUBSET S /\ r \notin first[r]
         /\ SumFunctionOnSet(room, first[r]) \in Nat
<1>1. first[r] \in SUBSET S /\ r \notin first[r] /\ IsFiniteSet(first[r])
  BY FS_Subset DEF InOrder
<1>2. SumFunctionOnSet(room, first[r]) \in Int
  BY <1>1, SumRemove
<1>3. SumFunctionOnSet(room, {}) <= SumFunctionOnSet(room, first[r])
  BY <1>1, SumPart
<1>4. SumFunctionOnSet(room, {}) = 0
  BY SumStep, FS_EmptySet
<1> QED BY <1>1, <1>2, <1>3, <1>4

\* Whoever comes before r has room for no more than what comes before r.
LEMMA PrefixGrows ==
  ASSUME NEW S, NEW v, NEW first, InOrder(S, v, first),
         NEW room, \A x \in S : room[x] \in Nat,
         NEW r \in S, NEW s \in S, v[s] < v[r]
  PROVE  SumFunctionOnSet(room, first[s]) + room[s] <= SumFunctionOnSet(room, first[r])
<1> DEFINE A == first[s]
           B == first[s] \cup {s}
           C == first[r]
<1>1. IsFiniteSet(A) /\ A \in SUBSET S /\ s \notin A /\ IsFiniteSet(C) /\ C \in SUBSET S
  BY PrefixType
<1>2. B \in SUBSET C
  BY DEF InOrder
<1> HIDE DEF A, C
<1>3. SumFunctionOnSet(room, A \cup {s}) = SumFunctionOnSet(room, A) + room[s]
  BY <1>1, SumAdd
<1>4. SumFunctionOnSet(room, B) <= SumFunctionOnSet(room, C)
  <2> HIDE DEF B
  <2> QED BY <1>1, <1>2, SumPart
<1> QED BY <1>3, <1>4 DEF A, C

LEMMA DealtType ==
  ASSUME NEW S, NEW v, NEW first, InOrder(S, v, first),
         NEW room, DOMAIN room = S, \A x \in S : room[x] \in Nat,
         NEW amount \in Int, NEW r \in S
  PROVE  /\ DOMAIN Dealt(amount, room, first) = S
         /\ Dealt(amount, room, first)[r] \in Nat
         /\ Dealt(amount, room, first)[r] <= room[r]
<1>1. SumFunctionOnSet(room, first[r]) \in Nat
  BY PrefixType
<1>2. room[r] \in Nat
  OBVIOUS
<1> QED BY <1>1, <1>2 DEF Dealt, Least, Greatest

\* Nobody gets anything before those that come first have got all they have room for.
LEMMA DealtInOrder ==
  ASSUME NEW S, NEW v, NEW first, InOrder(S, v, first),
         NEW room, DOMAIN room = S, \A x \in S : room[x] \in Nat,
         NEW amount \in Int, NEW r \in S, NEW s \in S, r # s,
         Dealt(amount, room, first)[r] > 0, Dealt(amount, room, first)[s] < room[s]
  PROVE  v[r] < v[s]
<1> SUFFICES ASSUME ~(v[r] < v[s]) PROVE FALSE
  OBVIOUS
<1>1. v[s] < v[r]
  BY DEF InOrder
<1>2. SumFunctionOnSet(room, first[s]) + room[s] <= SumFunctionOnSet(room, first[r])
  BY <1>1, PrefixGrows
<1>3. SumFunctionOnSet(room, first[s]) \in Nat /\ SumFunctionOnSet(room, first[r]) \in Nat
  BY PrefixType
<1>4. room[r] \in Nat /\ room[s] \in Nat
  OBVIOUS
<1>5. /\ Dealt(amount, room, first)[r]
           = Least(room[r], Greatest(0, amount - SumFunctionOnSet(room, first[r])))
      /\ Dealt(amount, room, first)[s]
           = Least(room[s], Greatest(0, amount - SumFunctionOnSet(room, first[s])))
  BY DEF Dealt
<1> QED BY <1>2, <1>3, <1>4, <1>5 DEF Least, Greatest

\* What there is room for is dealt out without a rest.
LEMMA DealtSum ==
  ASSUME NEW S, NEW v, NEW first, InOrder(S, v, first),
         NEW room, DOMAIN room = S, \A x \in S : room[x] \in Nat,
         NEW amount \in Nat
  PROVE  SumFunctionOnSet(Dealt(amount, room, first), S)
           = Least(amount, SumFunctionOnSet(room, S))
<1> DEFINE dealt == Dealt(amount, room, first)
           Closed(T) == \A r \in T : first[r] \subseteq T
           Good(T) == SumFunctionOnSet(dealt, T) = Least(amount, SumFunctionOnSet(room, T))
           K == {k \in Nat : \A T \in SUBSET S : Cardinality(T) = k /\ Closed(T) => Good(T)}
<1>0. \A T \in SUBSET S : IsFiniteSet(T) /\ Cardinality(T) \in Nat
  BY FS_Subset, FS_CardinalityType DEF InOrder
<1>a. \A r \in S : dealt[r] \in Nat /\ dealt[r] <= room[r]
  BY DealtType
<1>b. \A r \in S : dealt[r] = Least(room[r], Greatest(0, amount - SumFunctionOnSet(room, first[r])))
  BY DEF Dealt
<1> HIDE DEF dealt
<1>1. 0 \in K
  <2>1. SUFFICES ASSUME NEW T \in SUBSET S, Cardinality(T) = 0 PROVE Good(T)
    OBVIOUS
  <2>2. T = {}
    BY <1>0, <2>1, FS_EmptySet
  <2>3. SumFunctionOnSet(dealt, T) = 0 /\ SumFunctionOnSet(room, T) = 0
    BY <2>2, FS_EmptySet, SumStep
  <2> QED BY <2>3 DEF Least
<1>2. ASSUME NEW k \in Nat, k \in K PROVE k + 1 \in K
  <2>1. SUFFICES ASSUME NEW T \in SUBSET S, Cardinality(T) = k + 1, Closed(T) PROVE Good(T)
    OBVIOUS
  <2>2. IsFiniteSet(T) /\ T # {} /\ \A x \in T : v[x] \in Int
    BY <1>0, <2>1, FS_EmptySet DEF InOrder
  <2>3. PICK x \in T : \A y \in T : v[y] <= v[x]
    BY <2>2, HighestExists
  <2> DEFINE P == T \ {x}
             D == SumFunctionOnSet(dealt, P)
             R == SumFunctionOnSet(room, P)
  <2>4. P = first[x] /\ Closed(P)
    <3>1. x \in S /\ first[x] = {y \in S : v[y] < v[x]} /\ v[x] \in Int
      BY <2>3 DEF InOrder
    <3>2. \A y \in P : v[y] < v[x]
      BY <2>3, <3>1 DEF InOrder
    <3>3. first[x] \subseteq T
      BY <2>1
    <3>4. P = first[x]
      BY <3>1, <3>2, <3>3
    <3>5. ASSUME NEW r \in P PROVE first[r] \subseteq P
      BY <2>1, <2>2, <2>3, <3>2, <3>5 DEF InOrder
    <3> QED BY <3>4, <3>5
  <2>5. P \in SUBSET S /\ Cardinality(P) = k
    <3>1. Cardinality(P) = Cardinality(T) - 1
      BY <2>2, <2>3, FS_RemoveElement
    <3> QED BY <2>1, <3>1
  <2>6. D = Least(amount, R)
    BY <1>2, <2>4, <2>5
  <2>7. R \in Nat
    BY <2>4, PrefixType
  <2>8. SumFunctionOnSet(dealt, T) = dealt[x] + D /\ SumFunctionOnSet(room, T) = room[x] + R
    BY <1>a, <2>2, <2>3, SumRemove
  <2>9. dealt[x] = Least(room[x], Greatest(0, amount - R)) /\ room[x] \in Nat
    BY <1>b, <2>4
  <2> HIDE DEF D, R, P
  <2> QED BY <2>6, <2>7, <2>8, <2>9 DEF Least, Greatest
<1> DEFINE n == Cardinality(S)
<1>3. n \in Nat /\ S \in SUBSET S
  BY <1>0
<1>4. Closed(S)
  BY DEF InOrder
<1> HIDE DEF K, Closed, Good
<1>5. n \in K
  BY <1>1, <1>2, <1>3, SetInduction
<1>6. Good(S)
  BY <1>3, <1>4, <1>5 DEF K
<1> QED BY <1>6 DEF Good, dealt

-----------------------------------------------------------------------------
(* The steps of the mix are a power of 2 *)

\* The recursive function in Doubled, up to k.
IsDoubled(k, g) == g = [n \in 0..k |-> IF n = 0 THEN 1 ELSE 2 * g[n - 1]]

LEMMA DoubledExists ==
  ASSUME NEW k \in Nat
  PROVE  \E g : IsDoubled(k, g)
<1> DEFINE K == {n \in Nat : \E g : IsDoubled(n, g)}
<1>1. 0 \in K
  <2>1. IsDoubled(0, [n \in 0..0 |-> 1])
    BY DEF IsDoubled
  <2> QED BY <2>1
<1>2. ASSUME NEW n \in Nat, n \in K PROVE n + 1 \in K
  <2>1. PICK g : IsDoubled(n, g)
    BY <1>2
  <2> DEFINE h == [i \in 0..(n + 1) |-> IF i = n + 1 THEN 2 * g[n] ELSE g[i]]
  <2>2. ASSUME NEW i \in 0..(n + 1)
        PROVE  h[i] = IF i = 0 THEN 1 ELSE 2 * h[i - 1]
    <3>1. CASE i = n + 1
      BY <3>1
    <3>2. CASE i # n + 1
      <4>1. i \in 0..n /\ (i # 0 => i - 1 \in 0..(n + 1) /\ i - 1 # n + 1)
        BY <3>2
      <4>2. g[i] = IF i = 0 THEN 1 ELSE 2 * g[i - 1]
        BY <2>1, <4>1 DEF IsDoubled
      <4> QED BY <3>2, <4>1, <4>2
    <3> QED BY <3>1, <3>2
  <2>3. IsDoubled(n + 1, h)
    <3> HIDE DEF h
    <3>1. h = [i \in 0..(n + 1) |-> h[i]]
      BY DEF h
    <3> QED BY <2>2, <3>1 DEF IsDoubled
  <2> QED BY <2>3
<1> HIDE DEF K
<1>3. k \in K
  BY <1>1, <1>2, SetInduction
<1> QED BY <1>3 DEF K

LEMMA DoubledStep ==
  /\ Doubled[0] = 1
  /\ \A n \in 0..(Iterations - 1) : Doubled[n + 1] = 2 * Doubled[n]
<1>1. Iterations \in Nat
  BY WeightsAssumption
<1>2. \E g : IsDoubled(Iterations, g)
  BY <1>1, DoubledExists
<1>3. IsDoubled(Iterations, CHOOSE g : IsDoubled(Iterations, g))
  BY <1>2
<1>4. Doubled = CHOOSE g : IsDoubled(Iterations, g)
  BY DEF Doubled, IsDoubled
<1>5. IsDoubled(Iterations, Doubled)
  BY <1>3, <1>4
<1> HIDE DEF Doubled
<1>6. \A n \in 0..Iterations : Doubled[n] = IF n = 0 THEN 1 ELSE 2 * Doubled[n - 1]
  BY <1>5 DEF IsDoubled
<1>7. ASSUME NEW n \in 0..(Iterations - 1) PROVE Doubled[n + 1] = 2 * Doubled[n]
  <2>1. n + 1 \in 0..Iterations /\ n + 1 # 0 /\ (n + 1) - 1 = n
    BY <1>1
  <2> QED BY <1>6, <2>1
<1> QED BY <1>1, <1>6, <1>7

LEMMA DoubledType == \A n \in 0..Iterations : Doubled[n] \in Nat \ {0}
<1> DEFINE K == {n \in Nat : n <= Iterations => Doubled[n] \in Nat \ {0}}
<1>0. Iterations \in Nat
  BY WeightsAssumption
<1>1. 0 \in K
  BY DoubledStep
<1>2. ASSUME NEW n \in Nat, n \in K PROVE n + 1 \in K
  <2>1. SUFFICES ASSUME n + 1 <= Iterations PROVE Doubled[n + 1] \in Nat \ {0}
    OBVIOUS
  <2>2. n \in 0..(Iterations - 1) /\ Doubled[n] \in Nat \ {0}
    BY <1>0, <1>2, <2>1
  <2>3. Doubled[n + 1] = 2 * Doubled[n]
    BY <2>2, DoubledStep
  <2> QED BY <2>2, <2>3
<1> HIDE DEF K
<1>3. \A n \in Nat : n \in K
  BY <1>1, <1>2, SetInduction
<1> QED BY <1>0, <1>3 DEF K

LEMMA StepsType == Steps \in Nat \ {0}
BY DoubledType, WeightsAssumption DEF Steps

-----------------------------------------------------------------------------
(* The market and the bounds *)

LEMMA MarketType ==
  ASSUME NEW m \in Markets
  PROVE  /\ IsFiniteSet(DOMAIN m) /\ DOMAIN m \subseteq Rarities /\ DOMAIN m # {}
         /\ \A r \in DOMAIN m : /\ m[r] \in Nat
                                /\ Lower[r] \in Nat /\ Upper[r] \in Nat /\ Lower[r] <= Upper[r]
<1>1. /\ IsFiniteSet(Rarities) /\ DOMAIN m \subseteq Rarities /\ Cardinality(DOMAIN m) > 1
      /\ \A r \in DOMAIN m : m[r] \in Nat
  BY WeightsAssumption
<1>2. /\ Lower \in [Rarities -> {n \in 0..One : n % Steps = 0}]
      /\ Upper \in [Rarities -> {n \in 0..One : n % Steps = 0}]
      /\ \A r \in Rarities : Lower[r] <= Upper[r]
  BY WeightsAssumption
<1>3. One \in Nat
  BY WeightsAssumption
<1>4. \A r \in Rarities : Lower[r] \in 0..One /\ Upper[r] \in 0..One
  BY <1>2
<1>5. IsFiniteSet(DOMAIN m) /\ DOMAIN m # {}
  BY <1>1, FS_Subset, FS_EmptySet
<1> QED BY <1>1, <1>2, <1>3, <1>4, <1>5

LEMMA CheaperInOrder ==
  ASSUME NEW m \in Markets
  PROVE  InOrder(DOMAIN m, m, Cheaper(m))
<1>1. \A r, s \in DOMAIN m : m[r] = m[s] => r = s
  BY WeightsAssumption
<1> QED BY <1>1, MarketType DEF InOrder, Cheaper

\* The order of the prices, from the highest.
Negated(m) == [r \in DOMAIN m |-> -m[r]]

LEMMA DearerInOrder ==
  ASSUME NEW m \in Markets
  PROVE  InOrder(DOMAIN m, Negated(m), Dearer(m))
<1>1. \A r, s \in DOMAIN m : m[r] = m[s] => r = s
  BY WeightsAssumption
<1>2. \A r \in DOMAIN m : m[r] \in Nat /\ Negated(m)[r] = -m[r] /\ Negated(m)[r] \in Int
  BY MarketType DEF Negated
<1>3. \A r, s \in DOMAIN m : Negated(m)[s] < Negated(m)[r] <=> m[s] > m[r]
  BY <1>2
<1>4. \A r \in DOMAIN m : Dearer(m)[r] = {s \in DOMAIN m : Negated(m)[s] < Negated(m)[r]}
  BY <1>3 DEF Dearer
<1>5. \A r, s \in DOMAIN m : Negated(m)[r] = Negated(m)[s] => r = s
  BY <1>1, <1>2
<1> QED BY <1>2, <1>4, <1>5, MarketType DEF InOrder

-----------------------------------------------------------------------------
(* The two ends of the search *)

LEMMA AllocatedType ==
  ASSUME NEW m \in Markets, NEW v, NEW first, InOrder(DOMAIN m, v, first), NEW r \in DOMAIN m
  PROVE  /\ DOMAIN allocateGreedy(DOMAIN m, first) = DOMAIN m
         /\ allocateGreedy(DOMAIN m, first)[r] \in Lower[r]..Upper[r]
<1> DEFINE S == DOMAIN m
           room == [s \in S |-> Upper[s] - Lower[s]]
           amount == One - SumFunctionOnSet(Lower, S)
<1>1. IsFiniteSet(S) /\ \A s \in S : Lower[s] \in Nat /\ Upper[s] \in Nat /\ Lower[s] <= Upper[s]
  BY MarketType
<1>2. \A s \in S : room[s] \in Nat /\ room[s] = Upper[s] - Lower[s]
  BY <1>1
<1>3. amount \in Int
  <2>1. SumFunctionOnSet(Lower, S) \in Int
    BY <1>1, SumRemove
  <2> QED BY <2>1, WeightsAssumption
<1>4. DOMAIN room = S
  OBVIOUS
<1>5. allocateGreedy(S, first) = [s \in S |-> Lower[s] + Dealt(amount, room, first)[s]]
  BY DEF allocateGreedy
<1> HIDE DEF room, amount
<1>6. Dealt(amount, room, first)[r] \in Nat /\ Dealt(amount, room, first)[r] <= room[r]
  BY <1>2, <1>3, <1>4, DealtType
<1> QED BY <1>1, <1>2, <1>5, <1>6

\* Weight can be moved in the direction of the order only.
LEMMA NothingToMove ==
  ASSUME NEW m \in Markets, NEW v, NEW first, InOrder(DOMAIN m, v, first),
         NEW r \in DOMAIN m, NEW s \in DOMAIN m, r # s,
         allocateGreedy(DOMAIN m, first)[r] > Lower[r],
         allocateGreedy(DOMAIN m, first)[s] < Upper[s]
  PROVE  v[r] < v[s]
<1> DEFINE S == DOMAIN m
           room == [x \in S |-> Upper[x] - Lower[x]]
           amount == One - SumFunctionOnSet(Lower, S)
<1>1. IsFiniteSet(S) /\ \A x \in S : Lower[x] \in Nat /\ Upper[x] \in Nat /\ Lower[x] <= Upper[x]
  BY MarketType
<1>2. \A x \in S : room[x] \in Nat /\ room[x] = Upper[x] - Lower[x]
  BY <1>1
<1>3. amount \in Int
  <2>1. SumFunctionOnSet(Lower, S) \in Int
    BY <1>1, SumRemove
  <2> QED BY <2>1, WeightsAssumption
<1>4. DOMAIN room = S
  OBVIOUS
<1>5. allocateGreedy(S, first) = [x \in S |-> Lower[x] + Dealt(amount, room, first)[x]]
  BY DEF allocateGreedy
<1> HIDE DEF room, amount
<1>6. Dealt(amount, room, first)[r] \in Nat /\ Dealt(amount, room, first)[s] \in Nat
  BY <1>2, <1>3, <1>4, DealtType
<1>7. Dealt(amount, room, first)[r] > 0 /\ Dealt(amount, room, first)[s] < room[s]
  BY <1>1, <1>2, <1>5, <1>6
<1> QED BY <1>2, <1>3, <1>4, <1>7, DealtInOrder

LEMMA ProfitEnd ==
  ASSUME NEW m \in Markets
  PROVE  /\ DOMAIN computeProfitMaxWeights[m] = DOMAIN m
         /\ \A r \in DOMAIN m : computeProfitMaxWeights[m][r] \in Lower[r]..Upper[r]
         /\ \A x \in Movable(computeProfitMaxWeights[m]) : m[x[1]] < m[x[2]]
<1> DEFINE w == allocateGreedy(DOMAIN m, Cheaper(m))
<1>1. computeProfitMaxWeights[m] = w
  BY DEF computeProfitMaxWeights
<1>2. DOMAIN w = DOMAIN m /\ \A r \in DOMAIN m : w[r] \in Lower[r]..Upper[r]
  BY CheaperInOrder, AllocatedType, MarketType
<1>3. \A r \in DOMAIN m, s \in DOMAIN m :
        r # s /\ w[r] > Lower[r] /\ w[s] < Upper[s] => m[r] < m[s]
  BY CheaperInOrder, NothingToMove
<1> HIDE DEF w
<1>4. \A x \in Movable(w) : m[x[1]] < m[x[2]]
  BY <1>2, <1>3 DEF Movable
<1> QED BY <1>1, <1>2, <1>4

LEMMA ExcitementEnd ==
  ASSUME NEW m \in Markets
  PROVE  /\ DOMAIN computeExcitementMaxWeights[m] = DOMAIN m
         /\ \A r \in DOMAIN m : computeExcitementMaxWeights[m][r] \in Lower[r]..Upper[r]
         /\ \A x \in Movable(computeExcitementMaxWeights[m]) : m[x[1]] > m[x[2]]
<1> DEFINE w == allocateGreedy(DOMAIN m, Dearer(m))
<1>1. computeExcitementMaxWeights[m] = w
  BY DEF computeExcitementMaxWeights
<1>2. DOMAIN w = DOMAIN m /\ \A r \in DOMAIN m : w[r] \in Lower[r]..Upper[r]
  BY DearerInOrder, AllocatedType, MarketType
<1>3. \A r \in DOMAIN m, s \in DOMAIN m :
        r # s /\ w[r] > Lower[r] /\ w[s] < Upper[s] => Negated(m)[r] < Negated(m)[s]
  BY DearerInOrder, NothingToMove
<1>4. \A r \in DOMAIN m, s \in DOMAIN m : Negated(m)[r] < Negated(m)[s] => m[r] > m[s]
  <2>1. \A r \in DOMAIN m : m[r] \in Nat /\ Negated(m)[r] = -m[r]
    BY MarketType DEF Negated
  <2> QED BY <2>1
<1> HIDE DEF w
<1>5. \A x \in Movable(w) : m[x[1]] > m[x[2]]
  BY <1>2, <1>3, <1>4 DEF Movable
<1> QED BY <1>1, <1>2, <1>5

-----------------------------------------------------------------------------
(* Projection *)

\* Weights are projected into their bounds and, if that is possible at all, to the sum One.
LEMMA Projected ==
  ASSUME NEW m \in Markets, NEW target, DOMAIN target = DOMAIN m, NEW bound,
         \A r \in DOMAIN m : /\ target[r] \in Int /\ bound[r].min \in Int /\ bound[r].max \in Int
                             /\ bound[r].min <= bound[r].max,
         NEW w, w = projectWeightsToConstraints(target, bound, m)
  PROVE  /\ DOMAIN w = DOMAIN m
         /\ \A r \in DOMAIN m : w[r] \in bound[r].min..bound[r].max
         /\ \A low, high :
              /\ \A r \in DOMAIN m : low[r] = bound[r].min /\ high[r] = bound[r].max
              /\ SumFunctionOnSet(low, DOMAIN m) <= One
              /\ One <= SumFunctionOnSet(high, DOMAIN m)
              => SumOf(w) = One
<1> DEFINE S == DOMAIN m
           clamped == [r \in S |-> Least(bound[r].max, Greatest(bound[r].min, target[r]))]
           short == One - SumOf(clamped)
           more == [r \in S |-> bound[r].max - clamped[r]]
           less == [r \in S |-> clamped[r] - bound[r].min]
           given == Dealt(short, more, Cheaper(m))
           taken == Dealt(-short, less, Dearer(m))
<1>1. IsFiniteSet(S) /\ One \in Nat
  BY MarketType, WeightsAssumption
<1>2. \A r \in S : clamped[r] \in Int /\ bound[r].min <= clamped[r] /\ clamped[r] <= bound[r].max
  BY DEF Least, Greatest
<1>3. \A r \in S : more[r] \in Nat /\ less[r] \in Nat
  <2> HIDE DEF clamped
  <2> QED BY <1>2
<1>4. SumOf(clamped) = SumFunctionOnSet(clamped, S) /\ SumFunctionOnSet(clamped, S) \in Int
  <2>1. SumOf(clamped) = SumFunctionOnSet(clamped, S)
    BY DEF SumOf
  <2> HIDE DEF clamped
  <2> QED BY <1>1, <1>2, <2>1, SumRemove
<1>5. short \in Int /\ -short \in Int
  BY <1>1, <1>4
<1>6. w = [r \in S |-> IF short > 0 THEN clamped[r] + given[r] ELSE clamped[r] - taken[r]]
  BY DEF projectWeightsToConstraints
<1>7. DOMAIN more = S /\ DOMAIN less = S
  OBVIOUS
<1>8. /\ \A r \in S : more[r] = bound[r].max - clamped[r] /\ less[r] = clamped[r] - bound[r].min
      /\ short = One - SumFunctionOnSet(clamped, S)
  BY <1>4
<1> HIDE DEF clamped, more, less, short
<1>9. \A r \in S : /\ given[r] \in Nat /\ given[r] <= more[r]
                   /\ taken[r] \in Nat /\ taken[r] <= less[r]
  BY <1>3, <1>5, <1>7, CheaperInOrder, DearerInOrder, DealtType
<1>10. /\ short > 0 => SumFunctionOnSet(given, S) = Least(short, SumFunctionOnSet(more, S))
       /\ ~(short > 0) => SumFunctionOnSet(taken, S) = Least(-short, SumFunctionOnSet(less, S))
  <2>1. short > 0 => short \in Nat
    BY <1>5
  <2>2. ~(short > 0) => -short \in Nat
    BY <1>5
  <2> QED BY <1>3, <1>7, <2>1, <2>2, CheaperInOrder, DearerInOrder, DealtSum
<1> HIDE DEF given, taken
<1>11. DOMAIN w = S /\ \A r \in S : w[r] \in bound[r].min..bound[r].max
  BY <1>2, <1>6, <1>8, <1>9
<1>12. ASSUME NEW low, NEW high,
              \A r \in S : low[r] = bound[r].min /\ high[r] = bound[r].max,
              SumFunctionOnSet(low, S) <= One, One <= SumFunctionOnSet(high, S)
       PROVE  SumOf(w) = One
  <2>1. SumFunctionOnSet(high, S) = SumFunctionOnSet(clamped, S) + SumFunctionOnSet(more, S)
    <3>1. \A r \in S : clamped[r] \in Int /\ more[r] \in Int /\ high[r] = clamped[r] + more[r]
      BY <1>2, <1>3, <1>8, <1>12
    <3> QED BY <1>1, <3>1, SumPlus
  <2>2. SumFunctionOnSet(clamped, S) = SumFunctionOnSet(low, S) + SumFunctionOnSet(less, S)
    <3>1. \A r \in S : low[r] \in Int /\ less[r] \in Int /\ clamped[r] = low[r] + less[r]
      BY <1>2, <1>3, <1>8, <1>12
    <3> QED BY <1>1, <3>1, SumPlus
  <2>3. /\ SumFunctionOnSet(more, S) \in Int /\ SumFunctionOnSet(less, S) \in Int
        /\ SumFunctionOnSet(low, S) \in Int
    <3>1. \A r \in S : more[r] \in Int /\ less[r] \in Int /\ low[r] \in Int
      BY <1>3, <1>12
    <3> QED BY <1>1, <3>1, SumRemove
  <2>4. SumOf(w) = SumFunctionOnSet(w, S)
    BY <1>11 DEF SumOf
  <2>5. CASE short > 0
    <3>1. SumFunctionOnSet(w, S) = SumFunctionOnSet(clamped, S) + SumFunctionOnSet(given, S)
      <4>1. \A r \in S : clamped[r] \in Int /\ given[r] \in Int /\ w[r] = clamped[r] + given[r]
        BY <1>2, <1>6, <1>9, <2>5
      <4> QED BY <1>1, <4>1, SumPlus
    <3>2. SumFunctionOnSet(given, S) = short
      BY <1>1, <1>4, <1>8, <1>10, <1>12, <2>1, <2>3, <2>5 DEF Least
    <3> QED BY <1>1, <1>4, <1>8, <2>4, <3>1, <3>2
  <2>6. CASE ~(short > 0)
    <3>1. SumFunctionOnSet(clamped, S) = SumFunctionOnSet(w, S) + SumFunctionOnSet(taken, S)
      <4>1. \A r \in S : w[r] \in Int /\ taken[r] \in Int /\ clamped[r] = w[r] + taken[r]
        BY <1>2, <1>6, <1>9, <2>6
      <4> QED BY <1>1, <4>1, SumPlus
    <3>2. SumFunctionOnSet(taken, S) = -short
      BY <1>1, <1>4, <1>5, <1>8, <1>10, <1>12, <2>2, <2>3, <2>6 DEF Least
    <3>3. SumFunctionOnSet(w, S) \in Int
      <4>1. \A r \in S : w[r] \in Int
        BY <1>2, <1>6, <1>9, <2>6
      <4> QED BY <1>1, <4>1, SumRemove
    <3> QED BY <1>1, <1>4, <1>8, <2>4, <3>1, <3>2, <3>3
  <2> QED BY <2>5, <2>6
<1> QED BY <1>11, <1>12

-----------------------------------------------------------------------------
(* The search *)

LEMMA InterpolatedType ==
  ASSUME NEW m \in Markets, NEW alpha \in 0..Steps
  PROVE  /\ DOMAIN interpolateWeights[m][alpha] = DOMAIN m
         /\ \A r \in DOMAIN m : interpolateWeights[m][alpha][r] \in Lower[r]..Upper[r]
<1> DEFINE profit == computeProfitMaxWeights[m]
           excite == computeExcitementMaxWeights[m]
           mixed == [r \in DOMAIN m |-> ((Steps - alpha) * profit[r] + alpha * excite[r]) \div Steps]
           bound == Bounds(DOMAIN m)
           w == projectWeightsToConstraints(mixed, bound, m)
<1>1. interpolateWeights[m][alpha] = w
  BY DEF interpolateWeights
<1>2. ASSUME NEW r \in DOMAIN m PROVE mixed[r] \in Int
  <2>1. profit[r] \in Lower[r]..Upper[r] /\ excite[r] \in Lower[r]..Upper[r]
    BY ProfitEnd, ExcitementEnd
  <2>2. profit[r] \in Int /\ excite[r] \in Int /\ Steps \in Nat \ {0} /\ alpha \in Int
    BY <2>1, StepsType, MarketType
  <2> HIDE DEF profit, excite
  <2>3. (Steps - alpha) * profit[r] \in Int /\ alpha * excite[r] \in Int
    BY <2>2
  <2>4. (Steps - alpha) * profit[r] + alpha * excite[r] \in Int
    BY <2>3
  <2> QED BY <2>2, <2>4
<1>3. \A r \in DOMAIN m : /\ bound[r].min = Lower[r] /\ bound[r].max = Upper[r]
                          /\ Lower[r] \in Int /\ Upper[r] \in Int /\ Lower[r] <= Upper[r]
  BY MarketType DEF Bounds
<1>4. DOMAIN mixed = DOMAIN m
  OBVIOUS
<1> HIDE DEF mixed, bound
<1>5. DOMAIN w = DOMAIN m /\ \A r \in DOMAIN m : w[r] \in bound[r].min..bound[r].max
  BY <1>2, <1>3, <1>4, Projected
<1> QED BY <1>1, <1>3, <1>5

LEMMA ValueType ==
  ASSUME NEW m \in Markets, NEW alpha \in 0..Steps
  PROVE  computeAnalyticalEV(interpolateWeights[m][alpha], m) \in Int
<1> DEFINE w == interpolateWeights[m][alpha]
           S == DOMAIN w \cap DOMAIN m
           f == [r \in S |-> w[r] * m[r]]
<1>1. IsFiniteSet(S)
  BY MarketType, FS_Subset
<1>2. \A r \in S : f[r] \in Int
  <2> SUFFICES ASSUME NEW r \in S PROVE f[r] \in Int
    OBVIOUS
  <2>1. w[r] \in Lower[r]..Upper[r] /\ Lower[r] \in Nat /\ Upper[r] \in Nat /\ m[r] \in Nat
    BY InterpolatedType, MarketType
  <2>2. w[r] * m[r] \in Int
    BY <2>1
  <2> QED BY <2>2
<1>3. SumOf(f) = SumFunctionOnSet(f, S)
  BY DEF SumOf
<1>4. computeAnalyticalEV(w, m) = SumOf(f)
  BY DEF computeAnalyticalEV
<1> HIDE DEF f, S
<1> QED BY <1>1, <1>2, <1>3, <1>4, SumRemove

\* One round of the bisection, and the recursive function in Bisected up to round k.
Round(m, budget, s) ==
  LET mid == (s.lo + s.hi) \div 2
  IN  IF computeAnalyticalEV(interpolateWeights[m][mid], m) < budget
      THEN [s EXCEPT !.lo = mid] ELSE [s EXCEPT !.hi = mid]

IsSearch(m, budget, k, g) ==
  g = [n \in 0..k |-> IF n = 0 THEN [lo |-> 0, hi |-> Steps] ELSE Round(m, budget, g[n - 1])]

LEMMA SearchExists ==
  ASSUME NEW m, NEW budget, NEW k \in Nat
  PROVE  \E g : IsSearch(m, budget, k, g)
<1> DEFINE K == {n \in Nat : \E g : IsSearch(m, budget, n, g)}
           start == [lo |-> 0, hi |-> Steps]
<1>1. 0 \in K
  <2>1. IsSearch(m, budget, 0, [n \in 0..0 |-> start])
    BY DEF IsSearch
  <2> QED BY <2>1
<1>2. ASSUME NEW n \in Nat, n \in K PROVE n + 1 \in K
  <2>1. PICK g : IsSearch(m, budget, n, g)
    BY <1>2
  <2> DEFINE h == [i \in 0..(n + 1) |-> IF i = n + 1 THEN Round(m, budget, g[n]) ELSE g[i]]
  <2>2. ASSUME NEW i \in 0..(n + 1)
        PROVE  h[i] = IF i = 0 THEN start ELSE Round(m, budget, h[i - 1])
    <3>1. CASE i = n + 1
      BY <3>1
    <3>2. CASE i # n + 1
      <4>1. i \in 0..n /\ (i # 0 => i - 1 \in 0..(n + 1) /\ i - 1 # n + 1)
        BY <3>2
      <4>2. g[i] = IF i = 0 THEN start ELSE Round(m, budget, g[i - 1])
        BY <2>1, <4>1 DEF IsSearch
      <4> QED BY <3>2, <4>1, <4>2
    <3> QED BY <3>1, <3>2
  <2>3. IsSearch(m, budget, n + 1, h)
    <3> HIDE DEF h
    <3>1. h = [i \in 0..(n + 1) |-> h[i]]
      BY DEF h
    <3> QED BY <2>2, <3>1 DEF IsSearch
  <2> QED BY <2>3
<1> HIDE DEF K
<1>3. k \in K
  BY <1>1, <1>2, SetInduction
<1> QED BY <1>3 DEF K

LEMMA BisectedIsSearch ==
  ASSUME NEW m, NEW budget
  PROVE  \E g : IsSearch(m, budget, Iterations, g) /\ Bisected(m, budget) = g[Iterations]
<1>1. \E g : IsSearch(m, budget, Iterations, g)
  BY SearchExists, WeightsAssumption
<1> DEFINE c == CHOOSE g : IsSearch(m, budget, Iterations, g)
<1>2. IsSearch(m, budget, Iterations, c)
  BY <1>1
<1>3. Bisected(m, budget) = c[Iterations]
  BY DEF Bisected, IsSearch, Round
<1> QED BY <1>2, <1>3

\* After n rounds the bounds are a power of 2 apart, and the edge is between them.
Brackets(m, budget, n, s) ==
  /\ s.lo \in Nat /\ s.hi \in Nat /\ s.hi <= Steps
  /\ s = [lo |-> s.lo, hi |-> s.hi]
  /\ s.hi = s.lo + Doubled[Iterations - n]
  /\ s.lo > 0 => computeAnalyticalEV(interpolateWeights[m][s.lo], m) < budget
  /\ s.hi < Steps => computeAnalyticalEV(interpolateWeights[m][s.hi], m) >= budget

LEMMA RoundBrackets ==
  ASSUME NEW m \in Markets, NEW budget \in Nat, NEW n \in 0..(Iterations - 1), NEW s,
         Brackets(m, budget, n, s)
  PROVE  Brackets(m, budget, n + 1, Round(m, budget, s))
<1> DEFINE d == Doubled[Iterations - (n + 1)]
           mid == (s.lo + s.hi) \div 2
           ev == computeAnalyticalEV(interpolateWeights[m][mid], m)
<1>1. Doubled[Iterations - n] = 2 * d /\ d \in Nat \ {0}
  <2>1. Iterations \in Nat
    BY WeightsAssumption
  <2>2. /\ Iterations - (n + 1) \in 0..(Iterations - 1) /\ Iterations - (n + 1) \in 0..Iterations
        /\ (Iterations - (n + 1)) + 1 = Iterations - n
    BY <2>1
  <2> QED BY <2>2, DoubledStep, DoubledType
<1>2. /\ s.lo \in Nat /\ s.hi \in Nat /\ s.hi <= Steps /\ s.hi = s.lo + 2 * d
      /\ s = [lo |-> s.lo, hi |-> s.hi] /\ Steps \in Nat
  BY <1>1, StepsType DEF Brackets
<1>3. mid = s.lo + d /\ mid \in 0..Steps
  <2> HIDE DEF d
  <2>1. s.lo + s.hi = 2 * (s.lo + d)
    BY <1>1, <1>2
  <2>2. \A x \in Nat : (2 * x) \div 2 = x
    OBVIOUS
  <2> QED BY <1>1, <1>2, <2>1, <2>2
<1>4. ev \in Int
  BY <1>3, ValueType
<1> HIDE DEF d, mid
<1>5. Round(m, budget, s) = IF ev < budget THEN [s EXCEPT !.lo = mid] ELSE [s EXCEPT !.hi = mid]
  BY DEF Round, mid
<1>6. CASE ev < budget
  <2> DEFINE t == [s EXCEPT !.lo = mid]
  <2>1. t.lo = mid /\ t.hi = s.hi /\ t = [lo |-> t.lo, hi |-> t.hi]
    BY <1>2
  <2> HIDE DEF t
  <2>2. Brackets(m, budget, n + 1, t)
    BY <1>1, <1>2, <1>3, <1>6, <2>1 DEF Brackets, d
  <2> QED BY <1>5, <1>6, <2>2 DEF t
<1>7. CASE ~(ev < budget)
  <2> DEFINE t == [s EXCEPT !.hi = mid]
  <2>1. t.lo = s.lo /\ t.hi = mid /\ t = [lo |-> t.lo, hi |-> t.hi]
    BY <1>2
  <2>2. ev >= budget
    BY <1>4, <1>7
  <2> HIDE DEF t
  <2>3. Brackets(m, budget, n + 1, t)
    BY <1>1, <1>2, <1>3, <2>1, <2>2 DEF Brackets, d
  <2> QED BY <1>5, <1>7, <2>3 DEF t
<1> QED BY <1>6, <1>7

LEMMA BisectedBrackets ==
  ASSUME NEW m \in Markets, NEW budget \in Nat
  PROVE  Brackets(m, budget, Iterations, Bisected(m, budget))
<1>1. PICK g : IsSearch(m, budget, Iterations, g) /\ Bisected(m, budget) = g[Iterations]
  BY BisectedIsSearch
<1>2. Iterations \in Nat
  BY WeightsAssumption
<1> DEFINE K == {n \in Nat : n <= Iterations => Brackets(m, budget, n, g[n])}
<1>3. 0 \in K
  <2> DEFINE s == [lo |-> 0, hi |-> Steps]
  <2>1. g[0] = s
    BY <1>1, <1>2 DEF IsSearch
  <2>2. s.lo = 0 /\ s.hi = Steps /\ s = [lo |-> s.lo, hi |-> s.hi]
    OBVIOUS
  <2>3. Steps = Doubled[Iterations - 0] /\ Steps \in Nat
    BY <1>2, StepsType DEF Steps
  <2> HIDE DEF s
  <2>4. Brackets(m, budget, 0, s)
    BY <2>2, <2>3 DEF Brackets
  <2> QED BY <2>1, <2>4
<1>4. ASSUME NEW n \in Nat, n \in K PROVE n + 1 \in K
  <2>1. SUFFICES ASSUME n + 1 <= Iterations PROVE Brackets(m, budget, n + 1, g[n + 1])
    OBVIOUS
  <2>2. /\ n \in 0..(Iterations - 1) /\ n + 1 \in 0..Iterations
        /\ n + 1 # 0 /\ (n + 1) - 1 = n
    BY <1>2, <2>1
  <2>3. Brackets(m, budget, n, g[n])
    BY <1>2, <1>4, <2>1
  <2>4. g[n + 1] = Round(m, budget, g[n])
    BY <1>1, <2>2 DEF IsSearch
  <2> QED BY <2>2, <2>3, <2>4, RoundBrackets
<1> HIDE DEF K
<1>5. Iterations \in K
  BY <1>2, <1>3, <1>4, SetInduction
<1> QED BY <1>1, <1>2, <1>5 DEF K

\* The search ends one step below the edge.
LEMMA SearchEnds ==
  ASSUME NEW m \in Markets, NEW budget \in Nat
  PROVE  LET alpha == findOptimalAlpha(m, budget)
             ev(n) == computeAnalyticalEV(interpolateWeights[m][n], m)
         IN  /\ alpha \in Nat /\ alpha < Steps
             /\ alpha > 0 => ev(alpha) < budget
             /\ alpha + 1 < Steps => ev(alpha + 1) >= budget
<1> DEFINE s == Bisected(m, budget)
<1>1. Brackets(m, budget, Iterations, s)
  BY BisectedBrackets
<1>2. Iterations - Iterations = 0 /\ Doubled[0] = 1 /\ Steps \in Nat
  BY DoubledStep, StepsType, WeightsAssumption
<1> HIDE DEF s
<1>3. s.lo \in Nat /\ s.hi = s.lo + 1 /\ s.hi <= Steps
  BY <1>1, <1>2 DEF Brackets
<1>4. /\ s.lo > 0 => computeAnalyticalEV(interpolateWeights[m][s.lo], m) < budget
      /\ s.lo + 1 < Steps => computeAnalyticalEV(interpolateWeights[m][s.lo + 1], m) >= budget
  BY <1>1, <1>3 DEF Brackets
<1>5. findOptimalAlpha(m, budget) = s.lo
  BY DEF findOptimalAlpha, s
<1> QED BY <1>2, <1>3, <1>4, <1>5

-----------------------------------------------------------------------------
(* The values of the mixes *)

\* The weights a pool may have at all.
Feasible(w, S) ==
  /\ \A r \in S : w[r] \in Lower[r]..Upper[r]
  /\ SumFunctionOnSet(w, S) = One

Multiple(n) == \E k \in Int : n = Steps * k

LEMMA WholeSteps ==
  ASSUME NEW n \in Nat, n % Steps = 0
  PROVE  Multiple(n)
<1>1. \A d \in Nat \ {0} : n % d = 0 => n = d * (n \div d) /\ n \div d \in Int
  OBVIOUS
<1> QED BY <1>1, StepsType DEF Multiple

LEMMA MultipleSums ==
  ASSUME NEW a, NEW b, Multiple(a), Multiple(b)
  PROVE  /\ Multiple(a + b) /\ Multiple(a - b)
         /\ Multiple(Least(a, b)) /\ Multiple(Greatest(0, a))
<1>1. PICK k \in Int : a = Steps * k
  BY DEF Multiple
<1>2. PICK l \in Int : b = Steps * l
  BY DEF Multiple
<1>3. /\ a + b = Steps * (k + l) /\ k + l \in Int
      /\ a - b = Steps * (k - l) /\ k - l \in Int
      /\ 0 = Steps * 0
  BY <1>1, <1>2, StepsType
<1> QED BY <1>3 DEF Multiple, Least, Greatest

LEMMA MultipleSum ==
  ASSUME NEW f, NEW S, IsFiniteSet(S), \A x \in S : Multiple(f[x])
  PROVE  Multiple(SumFunctionOnSet(f, S))
<1> DEFINE g == [x \in S |-> CHOOSE k \in Int : f[x] = Steps * k]
<1>1. \A x \in S : g[x] \in Int /\ f[x] = Steps * g[x]
  BY DEF Multiple
<1>2. \A x \in S : f[x] \in Int
  BY <1>1, StepsType
<1> HIDE DEF g
<1>3. SumFunctionOnSet(f, S) = Steps * SumFunctionOnSet(g, S)
  BY <1>1, <1>2, StepsType, SumTimes
<1>4. SumFunctionOnSet(g, S) \in Int
  BY <1>1, SumRemove
<1> QED BY <1>3, <1>4 DEF Multiple

LEMMA BoundsMultiple ==
  /\ Multiple(One)
  /\ \A r \in Rarities : Multiple(Lower[r]) /\ Multiple(Upper[r])
<1>1. /\ One \in Nat /\ One % Steps = 0
      /\ Lower \in [Rarities -> {n \in 0..One : n % Steps = 0}]
      /\ Upper \in [Rarities -> {n \in 0..One : n % Steps = 0}]
  BY WeightsAssumption
<1>2. \A r \in Rarities : /\ Lower[r] \in 0..One /\ Lower[r] % Steps = 0
                          /\ Upper[r] \in 0..One /\ Upper[r] % Steps = 0
  BY <1>1
<1> QED BY <1>1, <1>2, WholeSteps

\* The greedy allocation is made of whole steps, and it sums up to One if the upper
\* bounds do.
LEMMA AllocatedSum ==
  ASSUME NEW m \in Markets, NEW v, NEW first, InOrder(DOMAIN m, v, first),
         NEW w, w = allocateGreedy(DOMAIN m, first)
  PROVE  /\ \A r \in DOMAIN m : Multiple(w[r])
         /\ SumFunctionOnSet(w, DOMAIN m) = Least(One, SumFunctionOnSet(Upper, DOMAIN m))
<1> DEFINE S == DOMAIN m
           room == [s \in S |-> Upper[s] - Lower[s]]
           least == SumFunctionOnSet(Lower, S)
           amount == One - least
           dealt == Dealt(amount, room, first)
<1>1. /\ IsFiniteSet(S) /\ S \subseteq Rarities
      /\ \A s \in S : Lower[s] \in Nat /\ Upper[s] \in Nat /\ Lower[s] <= Upper[s]
  BY MarketType
<1>2. \A s \in S : room[s] \in Nat /\ room[s] = Upper[s] - Lower[s]
  BY <1>1
<1>3. least \in Int /\ least <= One
  <2>1. least \in Int
    BY <1>1, SumRemove
  <2>2. IsFiniteSet(Rarities) /\ \A r \in Rarities : Lower[r] \in Nat
    BY WeightsAssumption
  <2>3. least <= SumFunctionOnSet(Lower, Rarities)
    BY <1>1, <2>2, SumPart
  <2>4. SumFunctionOnSet(Lower, Rarities) \in Int
    BY <2>2, SumRemove
  <2> HIDE DEF least
  <2> QED BY <2>1, <2>3, <2>4, WeightsAssumption
<1>4. amount \in Nat /\ One \in Nat
  BY <1>3, WeightsAssumption
<1>5. DOMAIN room = S
  OBVIOUS
<1>6. w = [s \in S |-> Lower[s] + dealt[s]]
  BY DEF allocateGreedy
<1>7. Multiple(amount) /\ \A s \in S : Multiple(room[s])
  <2>1. Multiple(least)
    BY <1>1, BoundsMultiple, MultipleSum
  <2> QED BY <1>1, <2>1, BoundsMultiple, MultipleSums
<1> HIDE DEF room
<1>8. \A s \in S : Multiple(w[s])
  <2> SUFFICES ASSUME NEW s \in S PROVE Multiple(w[s])
    OBVIOUS
  <2> DEFINE before == SumFunctionOnSet(room, first[s])
  <2>1. IsFiniteSet(first[s]) /\ first[s] \in SUBSET S
    BY <1>2, PrefixType
  <2>2. Multiple(before)
    BY <1>7, <2>1, MultipleSum
  <2>3. dealt[s] = Least(room[s], Greatest(0, amount - before))
    BY <1>5 DEF Dealt
  <2> HIDE DEF before, amount, dealt
  <2>4. Multiple(dealt[s])
    BY <1>7, <2>2, <2>3, MultipleSums
  <2> QED BY <1>1, <1>6, <2>4, BoundsMultiple, MultipleSums
<1>9. SumFunctionOnSet(dealt, S) = Least(amount, SumFunctionOnSet(room, S))
  <2> HIDE DEF amount
  <2> QED BY <1>2, <1>4, <1>5, DealtSum
<1>10. \A s \in S : dealt[s] \in Nat
  <2> HIDE DEF amount
  <2> QED BY <1>2, <1>4, <1>5, DealtType
<1> HIDE DEF dealt
<1>11. SumFunctionOnSet(w, S) = least + SumFunctionOnSet(dealt, S)
  <2>1. \A s \in S : Lower[s] \in Int /\ dealt[s] \in Int /\ w[s] = Lower[s] + dealt[s]
    BY <1>1, <1>6, <1>10
  <2> QED BY <1>1, <2>1, SumPlus
<1>12. SumFunctionOnSet(Upper, S) = least + SumFunctionOnSet(room, S)
  <2>1. \A s \in S : Lower[s] \in Int /\ room[s] \in Int /\ Upper[s] = Lower[s] + room[s]
    BY <1>1, <1>2
  <2> QED BY <1>1, <2>1, SumPlus
<1>13. SumFunctionOnSet(room, S) \in Int
  BY <1>1, <1>2, SumRemove
<1> HIDE DEF least
<1>14. SumFunctionOnSet(w, S) = Least(One, SumFunctionOnSet(Upper, S))
  BY <1>3, <1>4, <1>9, <1>11, <1>12, <1>13 DEF Least, amount
<1> QED BY <1>8, <1>14

\* No weights within the bounds have a lower value, by the order of their allocation.
LEMMA AllocatedIsLeast ==
  ASSUME NEW m \in Markets, NEW v, NEW first, InOrder(DOMAIN m, v, first),
         NEW p, p = allocateGreedy(DOMAIN m, first), Feasible(p, DOMAIN m),
         NEW w, Feasible(w, DOMAIN m),
         NEW f, \A r \in DOMAIN m : f[r] = p[r] * v[r],
         NEW g, \A r \in DOMAIN m : g[r] = w[r] * v[r]
  PROVE  SumFunctionOnSet(f, DOMAIN m) <= SumFunctionOnSet(g, DOMAIN m)
<1> DEFINE S == DOMAIN m
           T == {r \in S : p[r] > Lower[r]}
<1>1. /\ IsFiniteSet(S) /\ S # {}
      /\ \A r \in S : /\ Lower[r] \in Nat /\ Upper[r] \in Nat
                      /\ p[r] \in Int /\ Lower[r] <= p[r] /\ p[r] <= Upper[r]
                      /\ w[r] \in Int /\ Lower[r] <= w[r] /\ w[r] <= Upper[r]
                      /\ v[r] \in Int
  BY MarketType DEF Feasible, InOrder
\* c is the value of the last one that got more than it must.
<1>2. \E c \in Int : \A r \in S : /\ v[r] < c => w[r] <= p[r]
                                  /\ v[r] > c => p[r] <= w[r]
  <2>1. CASE T = {}
    <3> DEFINE n == [r \in S |-> -v[r]]
    <3>1. \A r \in S : n[r] \in Int /\ n[r] = -v[r]
      BY <1>1
    <3> HIDE DEF n
    <3>2. PICK s \in S : \A r \in S : n[r] <= n[s]
      BY <1>1, <3>1, HighestExists
    <3>3. \A r \in S : v[s] <= v[r]
      BY <1>1, <3>1, <3>2
    <3>4. \A r \in S : p[r] <= w[r]
      BY <1>1, <2>1
    <3> QED BY <1>1, <3>3, <3>4
  <2>2. CASE T # {}
    <3>1. IsFiniteSet(T) /\ \A r \in T : v[r] \in Int
      BY <1>1, FS_Subset
    <3>2. PICK s \in T : \A r \in T : v[r] <= v[s]
      BY <2>2, <3>1, HighestExists
    <3>3. ASSUME NEW r \in S, v[r] > v[s] PROVE p[r] <= w[r]
      BY <1>1, <3>2, <3>3
    <3>4. ASSUME NEW r \in S, v[r] < v[s] PROVE w[r] <= p[r]
      <4>1. r # s /\ s \in S /\ p[s] > Lower[s]
        BY <1>1, <3>4
      <4>2. p[r] < Upper[r] => v[s] < v[r]
        BY <4>1, NothingToMove
      <4> QED BY <1>1, <3>4, <4>1, <4>2
    <3> QED BY <1>1, <3>3, <3>4
  <2> QED BY <2>1, <2>2
<1>3. PICK c \in Int : \A r \in S : /\ v[r] < c => w[r] <= p[r]
                                    /\ v[r] > c => p[r] <= w[r]
  BY <1>2
<1> DEFINE d == [r \in S |-> w[r] - p[r]]
           one == 1
<1>4. \A r \in S : d[r] \in Int /\ d[r] = w[r] - p[r] /\ w[r] = p[r] + d[r]
  BY <1>1
<1> HIDE DEF d
<1>5. \A r \in S : f[r] \in Int /\ g[r] \in Int
  BY <1>1
<1>6. \A r \in S : f[r] + c * d[r] <= g[r]
  <2> SUFFICES ASSUME NEW r \in S PROVE f[r] + c * d[r] <= g[r]
    OBVIOUS
  <2> DEFINE x == d[r]
             y == v[r]
             P == p[r]
  <2>1. x \in Int /\ y \in Int /\ P \in Int /\ w[r] = P + x
    BY <1>1, <1>4
  <2>2. (y < c => x <= 0) /\ (y > c => x >= 0)
    BY <1>1, <1>3, <1>4
  <2>3. 0 <= x * (y - c)
    <3> HIDE DEF x, y, P
    <3>1. CASE y < c
      <4>1. x * (y - c) = (-x) * (c - y) /\ -x \in Nat /\ c - y \in Nat
        BY <2>1, <2>2, <3>1
      <4>2. \A a \in Nat, b \in Nat : 0 <= a * b
        OBVIOUS
      <4> QED BY <4>1, <4>2
    <3>2. CASE y > c
      <4>1. x \in Nat /\ y - c \in Nat
        BY <2>1, <2>2, <3>2
      <4>2. \A a \in Nat, b \in Nat : 0 <= a * b
        OBVIOUS
      <4> QED BY <4>1, <4>2
    <3>3. CASE y = c
      BY <2>1, <3>3
    <3> QED BY <2>1, <3>1, <3>2, <3>3
  <2>4. g[r] = (P + x) * y /\ f[r] = P * y
    BY <2>1
  <2> HIDE DEF x, y, P
  <2>5. (P + x) * y = P * y + x * y /\ x * (y - c) = x * y - c * x
    BY <2>1
  <2>6. P * y \in Int /\ x * y \in Int /\ c * x \in Int
    BY <2>1
  <2>7. f[r] + c * x <= g[r]
    BY <2>3, <2>4, <2>5, <2>6
  <2> QED BY <2>7 DEF x
<1>7. SumFunctionOnSet(d, S) = 0
  <2>1. SumFunctionOnSet(w, S) = SumFunctionOnSet(p, S) + SumFunctionOnSet(d, S)
    BY <1>1, <1>4, SumPlus
  <2>2. SumFunctionOnSet(d, S) \in Int
    BY <1>1, <1>4, SumRemove
  <2> QED BY <2>1, <2>2, WeightsAssumption DEF Feasible
<1> DEFINE h == [r \in S |-> f[r] + c * d[r]]
<1>8. \A r \in S : h[r] \in Int /\ h[r] = f[r] + c * d[r] /\ h[r] <= g[r]
  BY <1>4, <1>5, <1>6
<1> HIDE DEF h
<1>9. SumFunctionOnSet(h, S) <= SumFunctionOnSet(g, S)
  BY <1>1, <1>5, <1>8, SumLess
<1>10. SumFunctionOnSet(h, S) = SumFunctionOnSet(f, S)
  <2>1. one \in Int /\ one = 1
    OBVIOUS
  <2> HIDE DEF one
  <2>2. \A r \in S : one * h[r] = one * f[r] + c * d[r]
    BY <1>4, <1>5, <1>8, <2>1
  <2>3. one * SumFunctionOnSet(h, S)
          = one * SumFunctionOnSet(f, S) + c * SumFunctionOnSet(d, S)
    BY <1>1, <1>4, <1>5, <1>8, <2>1, <2>2, SumMix
  <2>4. SumFunctionOnSet(h, S) \in Int /\ SumFunctionOnSet(f, S) \in Int
    BY <1>1, <1>5, <1>8, SumRemove
  <2> QED BY <1>7, <2>1, <2>3, <2>4
<1> QED BY <1>9, <1>10

\* What weights are worth on a market, per card.
LEMMA ValueIsSum ==
  ASSUME NEW m \in Markets, NEW w, DOMAIN w = DOMAIN m, \A r \in DOMAIN m : w[r] \in Int
  PROVE  \E f : /\ \A r \in DOMAIN m : f[r] \in Int /\ f[r] = w[r] * m[r]
                /\ computeAnalyticalEV(w, m) = SumFunctionOnSet(f, DOMAIN m)
                /\ computeAnalyticalEV(w, m) \in Int
<1> DEFINE f == [r \in DOMAIN m |-> w[r] * m[r]]
<1>1. \A r \in DOMAIN m : f[r] \in Int /\ f[r] = w[r] * m[r]
  BY MarketType
<1>2. DOMAIN w \cap DOMAIN m = DOMAIN m
  OBVIOUS
<1>3. computeAnalyticalEV(w, m) = SumOf(f)
  BY <1>2 DEF computeAnalyticalEV
<1>4. SumOf(f) = SumFunctionOnSet(f, DOMAIN m)
  BY DEF SumOf
<1> HIDE DEF f
<1>5. SumFunctionOnSet(f, DOMAIN m) \in Int
  BY <1>1, MarketType, SumRemove
<1> QED BY <1>1, <1>3, <1>4, <1>5

\* No weights within the bounds are worth less than the one end of the search, or more
\* than the other.
LEMMA EndsAreExtreme ==
  ASSUME NEW m \in Markets, NEW w, DOMAIN w = DOMAIN m, Feasible(w, DOMAIN m),
         NEW p, p = computeProfitMaxWeights[m], Feasible(p, DOMAIN m),
         NEW e, e = computeExcitementMaxWeights[m], Feasible(e, DOMAIN m)
  PROVE  /\ computeAnalyticalEV(p, m) <= computeAnalyticalEV(w, m)
         /\ computeAnalyticalEV(w, m) <= computeAnalyticalEV(e, m)
<1> DEFINE S == DOMAIN m
<1>1. /\ p = allocateGreedy(S, Cheaper(m)) /\ e = allocateGreedy(S, Dearer(m))
      /\ DOMAIN p = S /\ DOMAIN e = S /\ IsFiniteSet(S)
      /\ \A r \in S : m[r] \in Nat /\ Negated(m)[r] = -m[r]
  BY ProfitEnd, ExcitementEnd, MarketType DEF computeProfitMaxWeights, computeExcitementMaxWeights, Negated
<1>2. \A r \in S : p[r] \in Int /\ e[r] \in Int /\ w[r] \in Int
  BY MarketType DEF Feasible
<1>3. PICK P : /\ \A r \in S : P[r] \in Int /\ P[r] = p[r] * m[r]
               /\ computeAnalyticalEV(p, m) = SumFunctionOnSet(P, S)
  BY <1>1, <1>2, ValueIsSum
<1>4. PICK E : /\ \A r \in S : E[r] \in Int /\ E[r] = e[r] * m[r]
               /\ computeAnalyticalEV(e, m) = SumFunctionOnSet(E, S)
  BY <1>1, <1>2, ValueIsSum
<1>5. PICK W : /\ \A r \in S : W[r] \in Int /\ W[r] = w[r] * m[r]
               /\ computeAnalyticalEV(w, m) = SumFunctionOnSet(W, S)
  BY <1>2, ValueIsSum
<1>6. SumFunctionOnSet(P, S) <= SumFunctionOnSet(W, S)
  BY <1>1, <1>3, <1>5, CheaperInOrder, AllocatedIsLeast
<1> DEFINE En == [r \in S |-> -E[r]]
           Wn == [r \in S |-> -W[r]]
           minus == -1
<1>7. \A r \in S : /\ En[r] \in Int /\ En[r] = e[r] * Negated(m)[r] /\ En[r] = minus * E[r]
                   /\ Wn[r] \in Int /\ Wn[r] = w[r] * Negated(m)[r] /\ Wn[r] = minus * W[r]
  BY <1>1, <1>2, <1>4, <1>5
<1>8. minus \in Int
  OBVIOUS
<1> HIDE DEF En, Wn
<1>9. SumFunctionOnSet(En, S) <= SumFunctionOnSet(Wn, S)
  BY <1>1, <1>7, DearerInOrder, AllocatedIsLeast
<1>10. /\ SumFunctionOnSet(En, S) = minus * SumFunctionOnSet(E, S)
       /\ SumFunctionOnSet(Wn, S) = minus * SumFunctionOnSet(W, S)
  <2> HIDE DEF minus
  <2> QED BY <1>1, <1>4, <1>5, <1>7, <1>8, SumTimes
<1>11. SumFunctionOnSet(E, S) \in Int /\ SumFunctionOnSet(W, S) \in Int
  BY <1>1, <1>4, <1>5, SumRemove
<1> QED BY <1>3, <1>4, <1>5, <1>6, <1>9, <1>10, <1>11

\* Mixes of weights that sum up to One are exact: there is nothing to project.
LEMMA MixIsExact ==
  ASSUME NEW m \in Markets, NEW alpha \in 0..Steps,
         NEW p, p = computeProfitMaxWeights[m], SumOf(p) = One
  PROVE  LET e == computeExcitementMaxWeights[m]
             w == interpolateWeights[m][alpha]
         IN  /\ Feasible(p, DOMAIN m) /\ Feasible(e, DOMAIN m)
             /\ \A r \in DOMAIN m : /\ w[r] \in Int
                                    /\ Steps * w[r] = (Steps - alpha) * p[r] + alpha * e[r]
<1> DEFINE S == DOMAIN m
           e == computeExcitementMaxWeights[m]
           w == interpolateWeights[m][alpha]
           mixed == [r \in S |-> ((Steps - alpha) * p[r] + alpha * e[r]) \div Steps]
           bound == Bounds(S)
           clamped == [r \in S |-> Least(bound[r].max, Greatest(bound[r].min, mixed[r]))]
           short == One - SumOf(clamped)
           given == Dealt(short, [r \in S |-> bound[r].max - clamped[r]], Cheaper(m))
           less == [r \in S |-> clamped[r] - bound[r].min]
           taken == Dealt(-short, less, Dearer(m))
<1>1. /\ IsFiniteSet(S) /\ One \in Nat /\ Steps \in Nat \ {0} /\ alpha \in Int /\ Steps - alpha \in Int
      /\ 0 <= alpha /\ alpha <= Steps
      /\ \A r \in S : Lower[r] \in Nat /\ Upper[r] \in Nat
  BY MarketType, StepsType, WeightsAssumption
<1>2. p = allocateGreedy(S, Cheaper(m)) /\ e = allocateGreedy(S, Dearer(m))
  BY DEF computeProfitMaxWeights, computeExcitementMaxWeights
<1>3. /\ DOMAIN p = S /\ \A r \in S : p[r] \in Lower[r]..Upper[r]
      /\ \A r \in S : e[r] \in Lower[r]..Upper[r]
  BY ProfitEnd, ExcitementEnd
<1>4. Feasible(p, S) /\ Feasible(e, S)
  <2>1. SumFunctionOnSet(p, S) = One
    BY <1>3 DEF SumOf
  <2>2. SumFunctionOnSet(p, S) = SumFunctionOnSet(e, S)
    <3> HIDE DEF e
    <3>1. SumFunctionOnSet(p, S) = Least(One, SumFunctionOnSet(Upper, S))
      BY <1>2, CheaperInOrder, AllocatedSum
    <3>2. SumFunctionOnSet(e, S) = Least(One, SumFunctionOnSet(Upper, S))
      BY <1>2, DearerInOrder, AllocatedSum
    <3> QED BY <3>1, <3>2
  <2> QED BY <1>3, <2>1, <2>2 DEF Feasible
<1>5. \A r \in S : Multiple(p[r]) /\ Multiple(e[r])
  <2> HIDE DEF e
  <2> QED BY <1>2, CheaperInOrder, DearerInOrder, AllocatedSum
<1> HIDE DEF e
<1>6. ASSUME NEW r \in S
      PROVE  /\ mixed[r] \in Int /\ Steps * mixed[r] = (Steps - alpha) * p[r] + alpha * e[r]
             /\ Lower[r] <= mixed[r] /\ mixed[r] <= Upper[r]
  <2>1. PICK k \in Int : p[r] = Steps * k
    BY <1>5 DEF Multiple
  <2>2. PICK l \in Int : e[r] = Steps * l
    BY <1>5 DEF Multiple
  <2> DEFINE x == (Steps - alpha) * k + alpha * l
             y == (Steps - alpha) * p[r] + alpha * e[r]
  <2>3. x \in Int
    <3>1. (Steps - alpha) * k \in Int /\ alpha * l \in Int
      BY <1>1
    <3> QED BY <3>1
  <2>4. y = Steps * x
    <3>1. (Steps - alpha) * (Steps * k) = Steps * ((Steps - alpha) * k)
      BY <1>1
    <3>2. alpha * (Steps * l) = Steps * (alpha * l)
      BY <1>1
    <3>3. (Steps - alpha) * k \in Int /\ alpha * l \in Int
      BY <1>1
    <3>4. Steps * ((Steps - alpha) * k) + Steps * (alpha * l) = Steps * x
      BY <1>1, <3>3
    <3> QED BY <2>1, <2>2, <3>1, <3>2, <3>4
  <2> HIDE DEF x
  <2>5. mixed[r] = y \div Steps
    OBVIOUS
  <2> HIDE DEF y, mixed
  <2>6. \A a \in Int, d \in Nat \ {0} : (d * a) \div d = a
    OBVIOUS
  <2>7. mixed[r] = x
    BY <1>1, <2>3, <2>4, <2>5, <2>6
  <2>8. /\ p[r] \in Int /\ Lower[r] <= p[r] /\ p[r] <= Upper[r]
        /\ e[r] \in Int /\ Lower[r] <= e[r] /\ e[r] <= Upper[r]
        /\ Lower[r] \in Int /\ Upper[r] \in Int
    BY <1>1, <1>3
  <2>9. Lower[r] <= x /\ x <= Upper[r]
    <3> DEFINE lo == Lower[r]
               hi == Upper[r]
               P == p[r]
               E == e[r]
    <3>1. lo \in Int /\ hi \in Int /\ P \in Int /\ E \in Int
          /\ lo <= P /\ P <= hi /\ lo <= E /\ E <= hi
      BY <2>8
    <3>2. y = (Steps - alpha) * P + alpha * E
      BY DEF y
    <3> HIDE DEF lo, hi, P, E
    <3>3. \A a \in Nat, u \in Int, z \in Int : u <= z => a * u <= a * z
      OBVIOUS
    <3>4. /\ (Steps - alpha) * lo <= (Steps - alpha) * P /\ alpha * lo <= alpha * E
          /\ (Steps - alpha) * P <= (Steps - alpha) * hi /\ alpha * E <= alpha * hi
      <4>1. Steps - alpha \in Nat /\ alpha \in Nat
        BY <1>1
      <4> QED BY <3>1, <3>3, <4>1
    <3>5. /\ (Steps - alpha) * lo + alpha * lo = Steps * lo
          /\ (Steps - alpha) * hi + alpha * hi = Steps * hi
      BY <1>1, <3>1
    <3>6. /\ (Steps - alpha) * lo \in Int /\ alpha * lo \in Int
          /\ (Steps - alpha) * hi \in Int /\ alpha * hi \in Int
          /\ (Steps - alpha) * P \in Int /\ alpha * E \in Int
          /\ Steps * lo \in Int /\ Steps * hi \in Int
      BY <1>1, <3>1
    <3>7. Steps * lo <= Steps * x /\ Steps * x <= Steps * hi
      BY <2>4, <3>2, <3>4, <3>5, <3>6
    <3>8. \A a \in Nat \ {0}, u \in Int, z \in Int : a * u <= a * z => u <= z
      OBVIOUS
    <3>9. lo <= x /\ x <= hi
      BY <1>1, <2>3, <3>1, <3>7, <3>8
    <3> QED BY <3>9 DEF lo, hi
  <2> QED BY <2>3, <2>4, <2>7, <2>9 DEF y
<1>7. DOMAIN mixed = S
  OBVIOUS
<1>8. w = projectWeightsToConstraints(mixed, bound, m)
  BY DEF interpolateWeights, e
<1>9. \A r \in S : bound[r].min = Lower[r] /\ bound[r].max = Upper[r]
  BY DEF Bounds
<1>10. w = [r \in S |-> IF short > 0 THEN clamped[r] + given[r] ELSE clamped[r] - taken[r]]
  <2> HIDE DEF mixed, bound
  <2> QED BY <1>7, <1>8 DEF projectWeightsToConstraints
<1> HIDE DEF mixed, bound, w
<1>11. \A r \in S : clamped[r] \in Int /\ clamped[r] = mixed[r]
  BY <1>1, <1>6, <1>9 DEF Least, Greatest
<1>12. SumOf(clamped) = SumFunctionOnSet(clamped, S)
  BY DEF SumOf
<1>13. \A r \in S : less[r] \in Nat
  <2> HIDE DEF clamped
  <2> QED BY <1>1, <1>6, <1>9, <1>11
<1> HIDE DEF clamped
<1>14. SumFunctionOnSet(clamped, S) = One
  <2>1. \A r \in S : /\ p[r] \in Int /\ e[r] \in Int
                     /\ Steps * clamped[r] = (Steps - alpha) * p[r] + alpha * e[r]
    BY <1>1, <1>3, <1>6, <1>11
  <2>2. Steps * SumFunctionOnSet(clamped, S) = (Steps - alpha) * One + alpha * One
    <3>1. Steps \in Int
      BY <1>1
    <3>2. Steps * SumFunctionOnSet(clamped, S)
            = (Steps - alpha) * SumFunctionOnSet(p, S) + alpha * SumFunctionOnSet(e, S)
      BY <1>1, <1>11, <2>1, <3>1, SumMix
    <3> QED BY <1>4, <3>2 DEF Feasible
  <2>3. (Steps - alpha) * One + alpha * One = Steps * One
    BY <1>1
  <2>4. SumFunctionOnSet(clamped, S) \in Int
    BY <1>1, <1>11, SumRemove
  <2>5. \A a \in Nat \ {0}, u \in Int, z \in Int : a * u <= a * z => u <= z
    OBVIOUS
  <2> DEFINE sum == SumFunctionOnSet(clamped, S)
  <2>6. sum \in Int /\ One \in Int /\ Steps * sum = Steps * One /\ Steps * One \in Int
    BY <1>1, <2>2, <2>3, <2>4
  <2> HIDE DEF sum
  <2>7. sum <= One /\ One <= sum
    BY <1>1, <2>5, <2>6
  <2>8. sum = One
    BY <2>6, <2>7
  <2> QED BY <2>8 DEF sum
<1>15. short = 0
  BY <1>1, <1>12, <1>14
<1>16. DOMAIN less = S
  OBVIOUS
<1> HIDE DEF less
<1>17. \A r \in S : taken[r] = 0
  <2> SUFFICES ASSUME NEW r \in S PROVE taken[r] = 0
    OBVIOUS
  <2> DEFINE sum == SumFunctionOnSet(less, Dearer(m)[r])
  <2>1. sum \in Nat
    BY <1>13, DearerInOrder, PrefixType
  <2>2. taken[r] = Least(less[r], Greatest(0, (-short) - sum))
    BY <1>16 DEF Dealt
  <2> HIDE DEF sum, short
  <2> QED BY <1>13, <1>15, <2>1, <2>2 DEF Least, Greatest
<1> HIDE DEF taken, given
<1>18. \A r \in S : w[r] = mixed[r]
  <2>1. ~(short > 0)
    BY <1>15
  <2> HIDE DEF short
  <2>2. \A r \in S : w[r] = clamped[r] - taken[r]
    BY <1>10, <2>1
  <2> QED BY <1>11, <1>17, <2>2
<1>19. \A r \in S : w[r] \in Int /\ Steps * w[r] = (Steps - alpha) * p[r] + alpha * e[r]
  BY <1>6, <1>18
<1> QED BY <1>4, <1>19 DEF e, w

\* A more exciting mix is worth at least as much.
LEMMA ValueGrows ==
  ASSUME NEW m \in Markets, SumOf(computeProfitMaxWeights[m]) = One,
         NEW a \in 0..Steps, NEW b \in 0..Steps, a <= b
  PROVE  computeAnalyticalEV(interpolateWeights[m][a], m)
           <= computeAnalyticalEV(interpolateWeights[m][b], m)
<1> DEFINE S == DOMAIN m
           p == computeProfitMaxWeights[m]
           e == computeExcitementMaxWeights[m]
           low == computeAnalyticalEV(p, m)
           high == computeAnalyticalEV(e, m)
           ev(n) == computeAnalyticalEV(interpolateWeights[m][n], m)
<1>1. /\ IsFiniteSet(S) /\ Steps \in Nat \ {0}
      /\ \A r \in S : m[r] \in Nat /\ Lower[r] \in Nat /\ Upper[r] \in Nat
  BY MarketType, StepsType
<1>2. Feasible(p, S) /\ Feasible(e, S) /\ DOMAIN p = S /\ DOMAIN e = S
  <2>1. 0 \in 0..Steps
    BY <1>1
  <2> QED BY <2>1, MixIsExact, ProfitEnd, ExcitementEnd
<1>3. \A r \in S : p[r] \in Int /\ e[r] \in Int
  BY <1>1, <1>2 DEF Feasible
<1>4. low <= high /\ low \in Int /\ high \in Int
  <2>1. low <= high
    BY <1>2, EndsAreExtreme
  <2>2. low \in Int /\ high \in Int
    <3> HIDE DEF p, e
    <3> QED BY <1>2, <1>3, ValueIsSum
  <2> QED BY <2>1, <2>2
<1>5. ASSUME NEW n \in 0..Steps
      PROVE  ev(n) \in Int /\ Steps * ev(n) = (Steps - n) * low + n * high
  <2> DEFINE w == interpolateWeights[m][n]
  <2>1. \A r \in S : w[r] \in Int /\ Steps * w[r] = (Steps - n) * p[r] + n * e[r]
    BY MixIsExact
  <2>2. DOMAIN w = S
    BY InterpolatedType
  <2> HIDE DEF w, p, e
  <2>3. PICK P : /\ \A r \in S : P[r] \in Int /\ P[r] = p[r] * m[r]
                 /\ low = SumFunctionOnSet(P, S)
    BY <1>2, <1>3, ValueIsSum
  <2>4. PICK E : /\ \A r \in S : E[r] \in Int /\ E[r] = e[r] * m[r]
                 /\ high = SumFunctionOnSet(E, S)
    BY <1>2, <1>3, ValueIsSum
  <2>5. PICK W : /\ \A r \in S : W[r] \in Int /\ W[r] = w[r] * m[r]
                 /\ ev(n) = SumFunctionOnSet(W, S) /\ ev(n) \in Int
    BY <2>1, <2>2, ValueIsSum DEF w
  <2>6. ASSUME NEW r \in S PROVE Steps * W[r] = (Steps - n) * P[r] + n * E[r]
    <3> DEFINE i == p[r]
               j == e[r]
               k == w[r]
               v == m[r]
    <3>1. i \in Int /\ j \in Int /\ k \in Int /\ v \in Int /\ Steps \in Int /\ n \in Int
          /\ Steps * k = (Steps - n) * i + n * j
          /\ W[r] = k * v /\ P[r] = i * v /\ E[r] = j * v
      BY <1>1, <1>3, <2>1, <2>3, <2>4, <2>5
    <3> HIDE DEF i, j, k, v
    <3>2. Steps * (k * v) = (Steps * k) * v
      BY <3>1
    <3>3. ((Steps - n) * i + n * j) * v = (Steps - n) * (i * v) + n * (j * v)
      BY <3>1
    <3> QED BY <3>1, <3>2, <3>3
  <2>7. Steps \in Int /\ Steps - n \in Int /\ n \in Int
    BY <1>1
  <2>8. Steps * SumFunctionOnSet(W, S)
          = (Steps - n) * SumFunctionOnSet(P, S) + n * SumFunctionOnSet(E, S)
    BY <1>1, <2>3, <2>4, <2>5, <2>6, <2>7, SumMix
  <2> QED BY <2>3, <2>4, <2>5, <2>8
<1>6. ev(a) \in Int /\ Steps * ev(a) = (Steps - a) * low + a * high
  BY <1>5
<1>7. ev(b) \in Int /\ Steps * ev(b) = (Steps - b) * low + b * high
  BY <1>5
<1> HIDE DEF ev, low, high
<1> DEFINE x == ev(a)
           y == ev(b)
           d == high - low
<1>8. d \in Nat /\ high = low + d
  BY <1>4
<1>9. Steps * x = Steps * low + a * d /\ Steps * y = Steps * low + b * d
  <2>1. /\ (Steps - a) * low + a * (low + d) = Steps * low + a * d
        /\ (Steps - b) * low + b * (low + d) = Steps * low + b * d
    <3> HIDE DEF d
    <3> QED BY <1>1, <1>4, <1>8
  <2> QED BY <1>6, <1>7, <1>8, <2>1
<1> HIDE DEF d
<1>10. a * d <= b * d
  <2>1. \A i \in Nat, j \in Nat, k \in Nat : i <= j => i * k <= j * k
    OBVIOUS
  <2> QED BY <1>8, <2>1
<1>11. Steps * x <= Steps * y
  <2>1. Steps * low \in Int /\ a * d \in Int /\ b * d \in Int
    BY <1>1, <1>4, <1>8
  <2> QED BY <1>9, <1>10, <2>1
<1>12. \A i \in Nat \ {0}, j \in Int, k \in Int : i * j <= i * k => j <= k
  OBVIOUS
<1>13. x <= y
  BY <1>1, <1>6, <1>7, <1>11, <1>12
<1> QED BY <1>13 DEF ev

-----------------------------------------------------------------------------
(* The cap on changes *)

\* What the weights of a version are like.
ValidWeights(w) ==
  /\ DOMAIN w \subseteq Rarities /\ SumOf(w) = One
  /\ \A r \in DOMAIN w : w[r] \in Lower[r]..Upper[r]

LEMMA AdjustedDomain ==
  ASSUME NEW m \in Markets, NEW now, NEW alpha \in 0..Steps
  PROVE  DOMAIN Adjusted(m, now, alpha) = DOMAIN m
BY InterpolatedType DEF Adjusted, applyDeltaCap, projectWeightsToConstraints

LEMMA CandidatesDomain ==
  ASSUME NEW m \in Markets, NEW budget \in Nat, NEW now, NEW w \in Candidates(m, budget, now)
  PROVE  DOMAIN w = DOMAIN m
<1> DEFINE base == findOptimalAlpha(m, budget)
<1>1. base \in Nat /\ base < Steps /\ Steps \in Nat /\ Bump \in Nat
  BY SearchEnds, StepsType, WeightsAssumption
<1> HIDE DEF base
<1>2. \/ w = Adjusted(m, now, base)
      \/ \E n \in 1..MaxBumps : base + n * Bump <= Steps /\ w = Adjusted(m, now, base + n * Bump)
  BY DEF Candidates, base
<1>3. CASE w = Adjusted(m, now, base)
  BY <1>1, <1>3, AdjustedDomain
<1>4. ASSUME NEW n \in 1..MaxBumps, base + n * Bump <= Steps, w = Adjusted(m, now, base + n * Bump)
      PROVE  DOMAIN w = DOMAIN m
  <2>1. n * Bump \in Nat
    BY <1>1
  <2>2. base + n * Bump \in 0..Steps
    BY <1>1, <1>4, <2>1
  <2> QED BY <1>4, <2>2, AdjustedDomain
<1> QED BY <1>2, <1>3, <1>4

\* The current weights themselves are within the cap and the bounds, so that the sum One
\* is within reach from every mix.
LEMMA CapIsMet ==
  ASSUME NEW m \in Markets, NEW now, ValidWeights(now), DOMAIN now = DOMAIN m,
         NEW alpha \in 0..Steps
  PROVE  IsAcceptable(Adjusted(m, now, alpha), now)
<1> DEFINE S == DOMAIN m
           target == interpolateWeights[m][alpha]
           bound == buildDeltaConstraints(S, now)
           low == [r \in S |-> bound[r].min]
           high == [r \in S |-> bound[r].max]
           w == Adjusted(m, now, alpha)
<1>1. DOMAIN target = S /\ \A r \in S : target[r] \in Int
  BY InterpolatedType, MarketType
<1>2. w = projectWeightsToConstraints(target, bound, m)
  BY <1>1 DEF Adjusted, applyDeltaCap
<1>3. IsFiniteSet(S) /\ \A r \in S : now[r] \in Int /\ Lower[r] <= now[r] /\ now[r] <= Upper[r]
                                     /\ Lower[r] \in Nat /\ Upper[r] \in Nat
  BY MarketType DEF ValidWeights
<1>4. MaxDelta \in Nat
  BY WeightsAssumption
<1>5. ASSUME NEW r \in S
      PROVE  /\ bound[r].min = Greatest(Lower[r], now[r] - MaxDelta)
             /\ bound[r].max = Least(Upper[r], now[r] + MaxDelta)
  <2> DEFINE min == Greatest(Lower[r], now[r] - MaxDelta)
             max == Least(Upper[r], now[r] + MaxDelta)
  <2>1. min <= max
    BY <1>3, <1>4 DEF Least, Greatest
  <2>2. bound[r] = IF min > max THEN Bounds(S)[r] ELSE [min |-> min, max |-> max]
    BY DEF buildDeltaConstraints
  <2>3. min \in Int /\ max \in Int
    BY <1>3, <1>4 DEF Least, Greatest
  <2> HIDE DEF min, max
  <2>4. bound[r] = [min |-> min, max |-> max]
    BY <2>1, <2>2, <2>3
  <2> HIDE DEF bound
  <2>5. bound[r].min = min /\ bound[r].max = max
    BY <2>4
  <2> QED BY <2>5 DEF min, max
<1> HIDE DEF target, bound, w
<1>6. \A r \in S : /\ bound[r].min \in Int /\ bound[r].max \in Int
                   /\ bound[r].min <= now[r] /\ now[r] <= bound[r].max
                   /\ Lower[r] <= bound[r].min /\ bound[r].max <= Upper[r]
                   /\ now[r] - MaxDelta <= bound[r].min /\ bound[r].max <= now[r] + MaxDelta
  BY <1>3, <1>4, <1>5 DEF Least, Greatest
<1>7. SumFunctionOnSet(now, S) = One
  BY DEF ValidWeights, SumOf
<1>8. SumFunctionOnSet(low, S) <= One /\ One <= SumFunctionOnSet(high, S)
  <2>1. \A r \in S : low[r] \in Int /\ now[r] \in Int /\ high[r] \in Int
                     /\ low[r] <= now[r] /\ now[r] <= high[r]
    BY <1>3, <1>6
  <2> HIDE DEF low, high
  <2> QED BY <1>3, <1>7, <2>1, SumLess
<1>9. \A r \in S : low[r] = bound[r].min /\ high[r] = bound[r].max
  OBVIOUS
<1> HIDE DEF low, high
<1>10. \A r \in S : bound[r].min <= bound[r].max
  BY <1>3, <1>6
<1>11. /\ DOMAIN w = S
       /\ \A r \in S : w[r] \in bound[r].min..bound[r].max
       /\ SumOf(w) = One
  <2>1. \A r \in S : /\ target[r] \in Int /\ bound[r].min \in Int /\ bound[r].max \in Int
                     /\ bound[r].min <= bound[r].max
    BY <1>1, <1>6, <1>10
  <2>2. /\ DOMAIN w = S
        /\ \A r \in S : w[r] \in bound[r].min..bound[r].max
        /\ \A lo, hi :
             /\ \A r \in DOMAIN m : lo[r] = bound[r].min /\ hi[r] = bound[r].max
             /\ SumFunctionOnSet(lo, DOMAIN m) <= One
             /\ One <= SumFunctionOnSet(hi, DOMAIN m)
             => SumOf(w) = One
    BY <1>1, <1>2, <2>1, Projected
  <2> QED BY <1>8, <1>9, <2>2
<1>12. \A r \in S : w[r] \in Lower[r]..Upper[r] /\ Distance(w[r], now[r]) <= MaxDelta
  BY <1>3, <1>4, <1>6, <1>11 DEF Distance
<1> QED BY <1>11, <1>12 DEF IsAcceptable, w

-----------------------------------------------------------------------------
(* What the processes carry along *)

\* The market a process has read is one that was; the weights it has chosen are valid.
Carries(c) ==
  /\ c.step = "priced" => c.market \in Markets /\ ValidWeights(c.weights)
  /\ c.step \in {"chosen", "tx", "inserted"} => ValidWeights(c.weights)

\* All weights that are or may become a version are within the bounds and sum up to One.
WeightsValid ==
  /\ market \in Markets
  /\ \A p \in Procs : Carries(proc[p])
  /\ \A t \in AllTiers : \A n \in DOMAIN configs[t] : ValidWeights(configs[t][n].weights)

LEMMA InitWeights == Init => WeightsValid
<1> SUFFICES ASSUME Init PROVE WeightsValid
  OBVIOUS
<1>1. \A p \in Procs : proc[p].step = "idle"
  BY DEF Init, Idle
<1>2. ASSUME NEW t \in AllTiers, NEW n \in DOMAIN configs[t]
      PROVE  ValidWeights(configs[t][n].weights)
  <2> DEFINE first == [version |-> 1, weights |-> Seed[t]]
  <2>1. configs[t] = <<first>>
    BY DEF Init, AllTiers
  <2>2. configs[t][n].weights = Seed[t]
    BY <2>1
  <2>3. DOMAIN Seed[t] \subseteq Rarities /\ IsAcceptable(Seed[t], Seed[t])
    BY EconomicsAssumption DEF AllTiers
  <2> QED BY <2>2, <2>3 DEF ValidWeights, IsAcceptable
<1> QED BY <1>1, <1>2 DEF WeightsValid, Carries, Init

\* A step of one process that leaves the versions and the market alone.
LEMMA CarriesOn ==
  ASSUME Inv, WeightsValid, NEW p \in Procs, NEW c, Goes(p, c), UNCHANGED <<configs, market>>,
         Carries(c)
  PROVE  WeightsValid'
<1>1. proc' = [q \in Procs |-> IF q = p THEN c ELSE proc[q]]
  BY DEF Goes, Inv, Shapes
<1>2. \A q \in Procs : Carries(proc'[q])
  BY <1>1 DEF WeightsValid
<1>3. \A q \in Procs : Carries(proc[q])'
  BY <1>2 DEF Carries
<1> QED BY <1>3 DEF WeightsValid, ValidWeights

LEMMA AfterCarries ==
  ASSUME NEW p \in Procs, NEW t \in AllTiers
  PROVE  Carries(After(p, t)) /\ Carries(Idle)
BY AfterATier DEF Carries, Idle

LEMMA ActiveIsValid ==
  ASSUME Inv, WeightsValid, NEW t \in AllTiers
  PROVE  ValidWeights(Active(t))
BY LastOfVersions DEF Active, Last, WeightsValid

LEMMA OptimiseWeights ==
  ASSUME Inv, WeightsValid, NEW p \in Procs, Optimise(p)
  PROVE  WeightsValid'
<1> DEFINE t == proc[p].tier
           seen == proc[p].market
           now == proc[p].weights
<1>1. t \in AllTiers /\ seen \in Markets /\ UNCHANGED <<configs, market>>
  BY DEF Optimise, At, Inv, WorkingOnATier, WeightsValid, Carries
<1>2. CASE Goes(p, Idle)
  BY <1>1, <1>2, AfterCarries, CarriesOn
<1>3. CASE Goes(p, After(p, t))
  BY <1>1, <1>3, AfterCarries, CarriesOn
<1>4. ASSUME NEW w \in Candidates(seen, Budget[t], now), IsAcceptable(w, now),
             Goes(p, [step |-> "chosen", tier |-> t, weights |-> w])
      PROVE  WeightsValid'
  <2> DEFINE c == [step |-> "chosen", tier |-> t, weights |-> w]
  <2>1. Budget[t] \in Nat
    BY <1>1, EconomicsAssumption DEF AllTiers
  <2>2. DOMAIN w \subseteq Rarities
    BY <1>1, <2>1, CandidatesDomain, MarketType
  <2>3. ValidWeights(w)
    BY <1>4, <2>2 DEF ValidWeights, IsAcceptable
  <2>4. Carries(c)
    BY <2>3 DEF Carries
  <2> HIDE DEF c
  <2> QED BY <1>1, <1>4, <2>4, CarriesOn DEF c
<1> QED BY <1>2, <1>3, <1>4 DEF Optimise

LEMMA ActivateWeights ==
  ASSUME Inv, WeightsValid, NEW p \in Procs, Activate(p)
  PROVE  WeightsValid'
<1> DEFINE t == proc[p].tier
           row == [version |-> proc[p].version, weights |-> proc[p].weights]
<1>1. proc[p].step = "inserted" /\ UNCHANGED market
  BY DEF Activate, At
<1>2. t \in AllTiers /\ ValidWeights(row.weights)
  BY <1>1 DEF Inv, WorkingOnATier, WeightsValid, Carries
<1>3. configs' = [configs EXCEPT ![t] = Append(@, row)] /\ Goes(p, After(p, t))
  BY DEF Activate
<1> HIDE DEF row
<1>4. \A q \in Procs : Carries(proc'[q])
  <2>1. proc' = [q \in Procs |-> IF q = p THEN After(p, t) ELSE proc[q]]
    BY <1>3 DEF Goes, Inv, Shapes
  <2> QED BY <1>2, <2>1, AfterCarries DEF WeightsValid
<1>5. ASSUME NEW s \in AllTiers, NEW n \in DOMAIN configs'[s]
      PROVE  ValidWeights(configs'[s][n].weights)
  <2>1. CASE s # t
    <3>1. configs'[s] = configs[s]
      BY <1>2, <1>3, <2>1 DEF Inv, Shapes
    <3> QED BY <3>1 DEF WeightsValid
  <2>2. CASE s = t
    <3>1. configs'[t] = Append(configs[t], row)
      BY <1>2, <1>3 DEF Inv, Shapes
    <3>2. PICK S : configs[t] \in Seq(S)
      BY <1>2 DEF Inv, Shapes
    <3>3. configs[t] \in Seq(S \cup {row}) /\ Len(configs[t]) \in Nat
      BY <3>2
    <3>4. /\ Len(configs'[t]) = Len(configs[t]) + 1
          /\ configs'[t] \in Seq(S \cup {row})
          /\ configs'[t][Len(configs[t]) + 1] = row
          /\ \A k \in 1..Len(configs[t]) : configs'[t][k] = configs[t][k]
      BY <3>1, <3>3, AppendProperties
    <3>5. n \in 1..(Len(configs[t]) + 1) /\ DOMAIN configs[t] = 1..Len(configs[t])
      BY <2>2, <3>3, <3>4
    <3>6. CASE n = Len(configs[t]) + 1
      BY <1>2, <2>2, <3>4, <3>6
    <3>7. CASE n \in 1..Len(configs[t])
      BY <1>2, <2>2, <3>4, <3>5, <3>7 DEF WeightsValid
    <3> QED BY <3>3, <3>5, <3>6, <3>7
  <2> QED BY <2>1, <2>2
<1>6. \A q \in Procs : Carries(proc[q])'
  BY <1>4 DEF Carries
<1> QED BY <1>1, <1>5, <1>6 DEF WeightsValid, ValidWeights

LEMMA RebalancingWeights ==
  ASSUME Inv, WeightsValid, NEW p \in Procs, Rebalancing(p)
  PROVE  WeightsValid'
<1> DEFINE t == proc[p].tier
<1>1. CASE CheckDrift(p) \/ OpenCheck(p)
  <2>1. t \in AllTiers /\ UNCHANGED <<configs, market>>
    BY <1>1 DEF CheckDrift, OpenCheck, At, Inv, WorkingOnATier
  <2> DEFINE c == [step |-> "start", tier |-> t]
             d == [step |-> "drift", tier |-> t, weights |-> Active(t)]
  <2>2. Carries(c) /\ Carries(d)
    BY DEF Carries
  <2>3. Goes(p, c) \/ Goes(p, d) \/ Goes(p, After(p, t)) \/ Goes(p, Idle)
    BY <1>1 DEF CheckDrift, OpenCheck
  <2> HIDE DEF c, d
  <2> QED BY <2>1, <2>2, <2>3, AfterCarries, CarriesOn
<1>2. CASE Start(p)
  <2> DEFINE c == [step |-> "read", tier |-> t]
  <2>1. t \in AllTiers /\ (Goes(p, c) \/ Goes(p, Idle)) /\ Carries(c) /\ UNCHANGED <<configs, market>>
    BY <1>2 DEF Start, Carries, At, Inv, WorkingOnATier
  <2> HIDE DEF c
  <2> QED BY <2>1, AfterCarries, CarriesOn
<1>3. CASE ReadMarket(p)
  <2> DEFINE c == [step |-> "priced", tier |-> t, market |-> market, weights |-> Active(t)]
  <2>1. t \in AllTiers /\ UNCHANGED <<configs, market>>
    BY <1>3 DEF ReadMarket, At, Inv, WorkingOnATier
  <2>2. ValidWeights(Active(t))
    BY <2>1, ActiveIsValid
  <2>3. Carries(c)
    BY <2>2 DEF Carries, WeightsValid
  <2>4. Goes(p, c) \/ Goes(p, Idle)
    BY <1>3 DEF ReadMarket, Throws
  <2> HIDE DEF c
  <2> QED BY <2>1, <2>3, <2>4, AfterCarries, CarriesOn
<1>4. CASE ReadVersion(p)
  <2> DEFINE c == [step |-> "tx", tier |-> t, weights |-> proc[p].weights,
                   version |-> Last(configs[t]).version + 1]
  <2>1. Goes(p, c) /\ UNCHANGED <<configs, market>> /\ proc[p].step = "chosen"
    BY <1>4 DEF ReadVersion, At
  <2>2. ValidWeights(proc[p].weights)
    BY <2>1 DEF WeightsValid, Carries
  <2>3. c.step = "tx" /\ c.weights = proc[p].weights
    OBVIOUS
  <2> HIDE DEF c
  <2>4. Carries(c)
    BY <2>2, <2>3 DEF Carries
  <2> QED BY <2>1, <2>4, CarriesOn
<1>5. CASE InsertVersion(p)
  <2> DEFINE c == [step |-> "inserted", tier |-> t, version |-> proc[p].version,
                   weights |-> proc[p].weights]
  <2>1. UNCHANGED <<configs, market>> /\ proc[p].step = "tx"
    BY <1>5 DEF InsertVersion, At
  <2>2. ValidWeights(proc[p].weights) /\ t \in AllTiers
    BY <2>1 DEF WeightsValid, Carries, Inv, WorkingOnATier
  <2>3. Goes(p, c) \/ Goes(p, Idle)
    BY <1>5 DEF InsertVersion, Throws
  <2>4. c.step = "inserted" /\ c.weights = proc[p].weights
    OBVIOUS
  <2> HIDE DEF c
  <2>5. Carries(c)
    BY <2>2, <2>4 DEF Carries
  <2> QED BY <2>1, <2>2, <2>3, <2>5, AfterCarries, CarriesOn
<1>6. CASE LookAtMarket(p)
  <2>1. Goes(p, Idle) /\ Carries(Idle) /\ UNCHANGED <<configs, market>>
    BY <1>6 DEF LookAtMarket, Throws, Carries, Idle
  <2> QED BY <2>1, CarriesOn
<1> QED
  BY <1>1, <1>2, <1>3, <1>4, <1>5, <1>6, OptimiseWeights, ActivateWeights DEF Rebalancing

LEMMA NextWeights == Inv /\ WeightsValid /\ [Next]_vars => WeightsValid'
<1> SUFFICES ASSUME Inv, WeightsValid, [Next]_vars PROVE WeightsValid'
  OBVIOUS
<1>1. CASE \E p \in Procs : Rebalancing(p)
  BY <1>1, RebalancingWeights
<1>2. ASSUME NEW p \in Procs, Scheduled(p) PROVE WeightsValid'
  <2> DEFINE c == [step |-> "check", tier |-> Head(Tiers)]
  <2>1. Goes(p, c) /\ Carries(c) /\ UNCHANGED <<configs, market>>
    BY <1>2 DEF Scheduled, Carries
  <2> HIDE DEF c
  <2> QED BY <2>1, CarriesOn
<1>3. ASSUME NEW p \in Procs, NEW t \in AllTiers, Manual(p, t) PROVE WeightsValid'
  <2> DEFINE c == [step |-> "start", tier |-> t]
  <2>1. Goes(p, c) /\ Carries(c) /\ UNCHANGED <<configs, market>>
    BY <1>3 DEF Manual, Carries
  <2> HIDE DEF c
  <2> QED BY <2>1, CarriesOn
<1>4. CASE MarketMoves \/ UNCHANGED vars
  <2>1. UNCHANGED <<proc, configs>> /\ market' \in Markets
    BY <1>4 DEF MarketMoves, vars, WeightsValid
  <2> QED BY <2>1 DEF WeightsValid, Carries, ValidWeights
<1>5. CASE Restart
  <2>1. UNCHANGED <<configs, market>> /\ \A p \in Procs : proc'[p].step = "idle"
    BY <1>5 DEF Restart, Idle
  <2> QED BY <2>1 DEF WeightsValid, Carries, ValidWeights
<1>6. ASSUME NEW p \in Procs, Inquire(p) PROVE WeightsValid'
  <2> DEFINE c == [step |-> "look"]
  <2>1. Goes(p, c) /\ Carries(c) /\ UNCHANGED <<configs, market>>
    BY <1>6 DEF Inquire, Carries
  <2> HIDE DEF c
  <2> QED BY <2>1, CarriesOn
<1> QED
  BY <1>1, <1>2, <1>3, <1>4, <1>5, <1>6 DEF Next, AllTiers

\* Every version of the weights, and so what packs are drawn by, is within the bounds
\* and sums up to One (validateAcceptanceRules), whoever rebalances meanwhile.
THEOREM VersionsAreValid == Spec => []WeightsValid
<1> QED
  BY InitInv, NextInv, InitWeights, NextWeights, PTL DEF Spec

\* For any market, any bounds and any budget the optimiser finds the cheapest and the
\* most exciting weights and the last of the mixes between them that keeps the margin
\* (allocateGreedy, findOptimalAlpha).
THEOREM SearchIsExact == Spec => []SearchFindsTheEdge
<1>1. ASSUME NEW seen \in Markets, NEW budget \in Nat, SumOf(computeProfitMaxWeights[seen]) = One,
             NEW n \in 1..(Steps - 1)
      PROVE  computeAnalyticalEV(interpolateWeights[seen][n], seen) < budget
               <=> n <= findOptimalAlpha(seen, budget)
  <2> DEFINE alpha == findOptimalAlpha(seen, budget)
             ev(k) == computeAnalyticalEV(interpolateWeights[seen][k], seen)
  <2>1. /\ alpha \in Nat /\ alpha < Steps
        /\ alpha > 0 => ev(alpha) < budget
        /\ alpha + 1 < Steps => ev(alpha + 1) >= budget
    BY SearchEnds
  <2>2. \A a, b \in 0..Steps : a <= b => ev(a) <= ev(b)
    BY <1>1, ValueGrows
  <2>3. \A a \in 0..Steps : ev(a) \in Int
    BY ValueType
  <2> HIDE DEF alpha, ev
  <2>4. n \in 0..Steps /\ 1 <= n /\ n < Steps /\ Steps \in Nat
    BY StepsType
  <2>5. CASE n <= alpha
    <3>1. alpha \in 0..Steps /\ alpha > 0
      BY <2>1, <2>4, <2>5
    <3>2. ev(n) <= ev(alpha) /\ ev(alpha) < budget /\ ev(n) \in Int /\ ev(alpha) \in Int
      BY <2>1, <2>2, <2>3, <2>4, <2>5, <3>1
    <3>3. ev(n) < budget
      BY <3>2
    <3> QED BY <2>5, <3>3 DEF alpha, ev
  <2>6. CASE alpha + 1 <= n
    <3>1. alpha + 1 \in 0..Steps /\ alpha + 1 < Steps
      BY <2>1, <2>4, <2>6
    <3>2. ev(alpha + 1) <= ev(n) /\ ev(alpha + 1) >= budget /\ ev(n) \in Int /\ ev(alpha + 1) \in Int
      BY <2>1, <2>2, <2>3, <2>4, <2>6, <3>1
    <3>3. ~(ev(n) < budget) /\ ~(n <= alpha)
      BY <2>1, <2>4, <2>6, <3>2
    <3> QED BY <3>3 DEF alpha, ev
  <2> QED BY <2>1, <2>4, <2>5, <2>6
<1>2. Inv /\ WeightsValid => SearchFindsTheEdge
  <2> SUFFICES ASSUME Inv, WeightsValid, NEW p \in Procs, At(p, "priced")
               PROVE  LET seen   == proc[p].market
                          budget == Budget[proc[p].tier]
                          alpha  == findOptimalAlpha(seen, budget)
                          ev(n)  == computeAnalyticalEV(interpolateWeights[seen][n], seen)
                      IN  /\ \A m \in Movable(computeProfitMaxWeights[seen]) : seen[m[1]] < seen[m[2]]
                          /\ \A m \in Movable(computeExcitementMaxWeights[seen]) : seen[m[1]] > seen[m[2]]
                          /\ SumOf(computeProfitMaxWeights[seen]) = One =>
                               \A n \in 1..(Steps - 1) : ev(n) < budget <=> n <= alpha
    BY DEF SearchFindsTheEdge
  <2>1. proc[p].market \in Markets /\ Budget[proc[p].tier] \in Nat
    BY EconomicsAssumption DEF At, Inv, WorkingOnATier, WeightsValid, Carries, AllTiers
  <2> QED BY <1>1, <2>1, ProfitEnd, ExcitementEnd
<1> QED
  BY <1>2, InitInv, NextInv, InitWeights, NextWeights, PTL DEF Spec

\* The ends of the search are the best there are: for any market and any bounds, no
\* weights within the bounds cost less than computeProfitMaxWeights or are worth more
\* than computeExcitementMaxWeights.
THEOREM EndsAreOptimal ==
  ASSUME NEW m \in Markets, SumOf(computeProfitMaxWeights[m]) = One,
         NEW w, DOMAIN w = DOMAIN m, \A r \in DOMAIN m : w[r] \in Lower[r]..Upper[r],
         SumOf(w) = One
  PROVE  /\ computeAnalyticalEV(computeProfitMaxWeights[m], m) <= computeAnalyticalEV(w, m)
         /\ computeAnalyticalEV(w, m) <= computeAnalyticalEV(computeExcitementMaxWeights[m], m)
<1>1. 0 \in 0..Steps
  BY StepsType
<1>2. /\ Feasible(computeProfitMaxWeights[m], DOMAIN m)
      /\ Feasible(computeExcitementMaxWeights[m], DOMAIN m)
  BY <1>1, MixIsExact
<1>3. Feasible(w, DOMAIN m)
  BY DEF Feasible, SumOf
<1> QED BY <1>2, <1>3, EndsAreExtreme

\* If any weights within the bounds sum up to One, the greedy allocation does: the
\* exception for bounds that cannot be met is thrown in that case only (allocateGreedy).
THEOREM GreedyIsComplete ==
  ASSUME NEW m \in Markets,
         NEW w, DOMAIN w = DOMAIN m, \A r \in DOMAIN m : w[r] \in Lower[r]..Upper[r],
         SumOf(w) = One
  PROVE  SumOf(computeProfitMaxWeights[m]) = One /\ SumOf(computeExcitementMaxWeights[m]) = One
<1> DEFINE S == DOMAIN m
           p == computeProfitMaxWeights[m]
           e == computeExcitementMaxWeights[m]
<1>1. /\ IsFiniteSet(S) /\ One \in Nat
      /\ \A r \in S : Lower[r] \in Nat /\ Upper[r] \in Nat
  BY MarketType, WeightsAssumption
<1>2. \A r \in S : w[r] \in Int /\ Upper[r] \in Int /\ w[r] <= Upper[r]
  BY <1>1
<1>3. SumFunctionOnSet(w, S) <= SumFunctionOnSet(Upper, S)
  BY <1>1, <1>2, SumLess
<1>4. SumFunctionOnSet(Upper, S) \in Int /\ SumFunctionOnSet(w, S) = One
  BY <1>1, SumRemove DEF SumOf
<1>5. /\ p = allocateGreedy(S, Cheaper(m)) /\ e = allocateGreedy(S, Dearer(m))
      /\ DOMAIN p = S /\ DOMAIN e = S
  BY ProfitEnd, ExcitementEnd DEF computeProfitMaxWeights, computeExcitementMaxWeights
<1> HIDE DEF p, e
<1>6. /\ SumFunctionOnSet(p, S) = Least(One, SumFunctionOnSet(Upper, S))
      /\ SumFunctionOnSet(e, S) = Least(One, SumFunctionOnSet(Upper, S))
  BY <1>5, CheaperInOrder, DearerInOrder, AllocatedSum
<1>7. SumOf(p) = One /\ SumOf(e) = One
  BY <1>1, <1>3, <1>4, <1>5, <1>6 DEF SumOf, Least
<1> QED BY <1>7 DEF p, e

\* While the rarities stay, whatever prices do and whatever mix is wanted, the cap on
\* changes and the bounds leave weights that sum up to One (applyDeltaCap).
THEOREM CapIsAlwaysMet == Spec => []CapCanBeMet
<1>1. Inv /\ WeightsValid => CapCanBeMet
  <2> SUFFICES ASSUME Inv, WeightsValid, NEW p \in Procs, At(p, "priced"),
                      DOMAIN proc[p].weights = DOMAIN proc[p].market,
                      NEW alpha \in 0..Steps
               PROVE  IsAcceptable(Adjusted(proc[p].market, proc[p].weights, alpha),
                                   proc[p].weights)
    BY DEF CapCanBeMet
  <2>1. proc[p].market \in Markets /\ ValidWeights(proc[p].weights)
    BY DEF At, WeightsValid, Carries
  <2> QED BY <2>1, CapIsMet
<1> QED
  BY <1>1, InitInv, NextInv, InitWeights, NextWeights, PTL DEF Spec

\* While the rarities stay, the optimiser always finds weights.
OptimiserGoesThrough ==
  \A p \in Procs : At(p, "priced") =>
    LET seen == proc[p].market
        now  == proc[p].weights
    IN  DOMAIN now = DOMAIN seen => ~OptimizerThrows(seen, now)

\* While the rarities stay, neither exception of the optimiser can happen, whatever prices
\* do: the active weights show that the bounds and the cap leave some (allocateGreedy,
\* projectWeightsToConstraints).
THEOREM NothingIsThrown == Spec => []OptimiserGoesThrough
<1>1. Inv /\ WeightsValid => OptimiserGoesThrough
  <2> SUFFICES ASSUME Inv, WeightsValid, NEW p \in Procs, At(p, "priced"),
                      DOMAIN proc[p].weights = DOMAIN proc[p].market
               PROVE  ~OptimizerThrows(proc[p].market, proc[p].weights)
    BY DEF OptimiserGoesThrough
  <2> DEFINE seen == proc[p].market
             now  == proc[p].weights
  <2>1. seen \in Markets
    BY DEF At, WeightsValid, Carries
  <2>2. ValidWeights(now) /\ DOMAIN now = DOMAIN seen
    BY DEF At, WeightsValid, Carries
  <2> HIDE DEF seen, now
  <2>3. SumOf(computeProfitMaxWeights[seen]) = One
    BY <2>1, <2>2, GreedyIsComplete DEF ValidWeights
  <2>4. 0 \in 0..Steps
    BY StepsType
  <2>5. IsAcceptable(Adjusted(seen, now, 0), now)
    BY <2>1, <2>2, <2>4, CapIsMet
  <2>6. SumOf(Adjusted(seen, now, 0)) = One
    BY <2>5 DEF IsAcceptable
  <2>7. ~OptimizerThrows(seen, now)
    BY <2>3, <2>6 DEF OptimizerThrows
  <2> QED BY <2>7 DEF seen, now
<1> QED
  BY <1>1, InitInv, NextInv, InitWeights, NextWeights, PTL DEF Spec

-----------------------------------------------------------------------------
(* Rolls and rarities *)

LEMMA DivBounds ==
  ASSUME NEW x \in Nat, NEW d \in Nat \ {0}
  PROVE  x \div d \in Nat /\ d * (x \div d) <= x /\ x < d * (x \div d) + d
OBVIOUS

\* Rounding is off by half a unit at most.
LEMMA RoundedError ==
  ASSUME NEW n \in Nat
  PROVE  /\ Rounded(n) \in Nat
         /\ (2 * One) * Rounded(n) <= (2 * Micros) * n + One
         /\ (2 * Micros) * n <= (2 * One) * Rounded(n) + One
<1> DEFINE x == 2 * n * Micros + One
           d == 2 * One
<1>1. One \in Nat \ {0} /\ Micros \in Nat \ {0}
  BY WeightsAssumption, OpeningAssumption
<1>2. 2 * n * Micros \in Nat /\ 2 * n * Micros = (2 * Micros) * n
  BY <1>1
<1>3. x \in Nat /\ d \in Nat \ {0}
  BY <1>1, <1>2
<1>4. Rounded(n) = x \div d
  BY DEF Rounded
<1> HIDE DEF x, d
<1>5. Rounded(n) \in Nat /\ d * Rounded(n) <= x /\ x < d * Rounded(n) + d
  BY <1>3, <1>4, DivBounds
<1>6. d * Rounded(n) \in Nat
  BY <1>3, <1>5
<1> QED BY <1>1, <1>2, <1>5, <1>6 DEF x, d

LEMMA RankInOrder ==
  ASSUME NEW S, S \subseteq Rarities
  PROVE  IsFiniteSet(S) /\ InOrder(S, Rank, Before(S))
<1>1. IsFiniteSet(S)
  BY WeightsAssumption, FS_Subset
<1>2. \A r \in S : Rank[r] \in Nat
  BY OpeningAssumption
<1>3. \A r, s \in S : Rank[r] = Rank[s] => r = s
  BY OpeningAssumption
<1> QED BY <1>1, <1>2, <1>3 DEF InOrder, Before

LEMMA FirstOfSome ==
  ASSUME NEW S, S \subseteq Rarities, S # {}
  PROVE  FirstOf(S) \in S /\ \A s \in S : Rank[FirstOf(S)] <= Rank[s]
<1> DEFINE v == [r \in S |-> -Rank[r]]
<1>1. IsFiniteSet(S)
  BY RankInOrder
<1>2. \A r \in S : Rank[r] \in Nat /\ v[r] = -Rank[r] /\ v[r] \in Int
  BY OpeningAssumption
<1> HIDE DEF v
<1>3. PICK r \in S : \A s \in S : v[s] <= v[r]
  BY <1>1, <1>2, HighestExists
<1>4. \A s \in S : Rank[r] <= Rank[s]
  BY <1>2, <1>3
<1> QED BY <1>4 DEF FirstOf

\* What is closed under the order is its last element and those before that.
LEMMA Peeled ==
  ASSUME NEW S, NEW v, NEW first, InOrder(S, v, first), NEW T \in SUBSET S, T # {},
         \A r \in T : first[r] \subseteq T
  PROVE  \E x \in T : T = first[x] \cup {x}
<1>1. IsFiniteSet(T) /\ \A x \in T : v[x] \in Int
  BY FS_Subset DEF InOrder
<1>2. PICK x \in T : \A y \in T : v[y] <= v[x]
  BY <1>1, HighestExists
<1>3. first[x] \subseteq T /\ first[x] = {y \in S : v[y] < v[x]}
  BY DEF InOrder
<1>4. \A y \in T \ {x} : v[y] < v[x]
  BY <1>1, <1>2 DEF InOrder
<1>5. T = first[x] \cup {x}
  BY <1>3, <1>4
<1> QED BY <1>5

\* A rarity is picked by the rolls between the sum before it and the sum with it.
LEMMA PickedByRoll ==
  ASSUME NEW S, S \subseteq Rarities, S # {}, NEW m, DOMAIN m = S, \A x \in S : m[x] \in Nat,
         SumFunctionOnSet(m, S) = Micros, NEW roll \in Rolls
  PROVE  /\ pickRarity(roll, m) \in S
         /\ \A r \in S : pickRarity(roll, m) = r <=>
              /\ SumFunctionOnSet(m, Before(S)[r]) <= roll
              /\ roll < SumFunctionOnSet(m, Before(S)[r]) + m[r]
<1> DEFINE below == Before(S)
           P(r) == SumFunctionOnSet(m, below[r])
           hit == {r \in S : roll < P(r) + m[r]}
           f == FirstOf(hit)
<1>1. InOrder(S, Rank, below) /\ IsFiniteSet(S)
  BY RankInOrder
<1> HIDE DEF below
<1>2. roll \in Nat /\ roll < Micros /\ Micros \in Nat
  BY OpeningAssumption DEF Rolls
<1>3. ASSUME NEW r \in S
      PROVE  /\ P(r) \in Nat /\ m[r] \in Nat
             /\ SumFunctionOnSet(m, below[r] \cup {r}) = P(r) + m[r]
  <2>1. /\ IsFiniteSet(below[r]) /\ below[r] \in SUBSET S /\ r \notin below[r]
        /\ P(r) \in Nat
    BY <1>1, PrefixType
  <2>2. \A x \in below[r] \cup {r} : m[x] \in Int
    BY <2>1
  <2>3. SumFunctionOnSet(m, below[r] \cup {r}) = SumFunctionOnSet(m, below[r]) + m[r]
    BY <2>1, <2>2, SumAdd
  <2> QED BY <2>1, <2>3
<1>4. hit # {}
  <2>1. \A r \in S : below[r] \subseteq S
    BY <1>1 DEF InOrder
  <2>2. PICK x \in S : S = below[x] \cup {x}
    <3>1. S \in SUBSET S
      OBVIOUS
    <3> QED BY <1>1, <2>1, <3>1, Peeled
  <2>3. P(x) + m[x] = Micros
    <3> HIDE DEF P
    <3>1. SumFunctionOnSet(m, below[x] \cup {x}) = P(x) + m[x]
      BY <1>3
    <3> QED BY <2>2, <3>1
  <2>4. x \in hit
    BY <1>2, <2>3
  <2> QED BY <2>4
<1>5. f \in hit /\ \A s \in hit : Rank[f] <= Rank[s]
  <2> HIDE DEF hit
  <2>1. hit \subseteq Rarities
    BY DEF hit
  <2> QED BY <1>4, <2>1, FirstOfSome
<1>6. pickRarity(roll, m) = f
  BY <1>4 DEF pickRarity, below
<1> HIDE DEF f
<1>7. f \in S /\ roll < P(f) + m[f]
  BY <1>5
<1>8. P(f) <= roll
  <2> SUFFICES ASSUME ~(P(f) <= roll) PROVE FALSE
    OBVIOUS
  <2> DEFINE T == below[f]
  <2>1. T \in SUBSET S /\ IsFiniteSet(T)
    BY <1>1, <1>7, PrefixType
  <2>2. T # {}
    <3>1. SumFunctionOnSet(m, {}) = 0
      BY SumStep, FS_EmptySet
    <3> QED BY <1>2, <3>1
  <2>3. \A r \in T : below[r] \subseteq T
    BY <1>1, <1>7 DEF InOrder
  <2>4. PICK x \in T : T = below[x] \cup {x}
    <3> HIDE DEF T
    <3> QED BY <1>1, <2>1, <2>2, <2>3, Peeled
  <2>5. x \in S /\ Rank[x] < Rank[f]
    BY <1>1, <1>7, <2>1 DEF InOrder
  <2>6. P(f) = P(x) + m[x]
    <3>1. SumFunctionOnSet(m, below[x] \cup {x}) = P(x) + m[x]
      BY <1>3, <2>5
    <3>2. P(f) = SumFunctionOnSet(m, T)
      OBVIOUS
    <3> HIDE DEF T, P
    <3> QED BY <2>4, <3>1, <3>2
  <2>7. x \in hit
    <3>1. P(x) \in Nat /\ m[x] \in Nat /\ P(f) \in Nat
      BY <1>3, <1>7, <2>5
    <3> HIDE DEF P
    <3>2. roll < P(x) + m[x]
      BY <1>2, <2>6, <3>1
    <3> QED BY <2>5, <3>2
  <2>8. Rank[f] <= Rank[x] /\ Rank[f] \in Nat /\ Rank[x] \in Nat
    BY <1>5, <1>7, <2>5, <2>7, OpeningAssumption
  <2> QED BY <2>5, <2>8
<1>9. ASSUME NEW r \in S, P(r) <= roll, roll < P(r) + m[r] PROVE f = r
  <2>1. r \in hit
    BY <1>9
  <2>2. Rank[f] <= Rank[r] /\ Rank[f] \in Nat /\ Rank[r] \in Nat
    BY <1>5, <1>7, <2>1, OpeningAssumption
  <2>3. CASE Rank[f] < Rank[r]
    <3>1. P(f) + m[f] <= P(r)
      BY <1>1, <1>7, <2>3, PrefixGrows
    <3>2. P(f) \in Nat /\ m[f] \in Nat /\ P(r) \in Nat
      BY <1>3, <1>7
    <3> HIDE DEF P
    <3> QED BY <1>2, <1>7, <1>9, <3>1, <3>2
  <2>4. CASE Rank[f] = Rank[r]
    BY <1>7, <2>4, OpeningAssumption
  <2> QED BY <2>2, <2>3, <2>4
<1>10. \A r \in S : f = r <=> P(r) <= roll /\ roll < P(r) + m[r]
  BY <1>7, <1>8, <1>9
<1> QED BY <1>6, <1>7, <1>10 DEF below

\* So each has as many rolls as it has micros.
LEMMA RollsOf ==
  ASSUME NEW S, S \subseteq Rarities, S # {}, NEW m, DOMAIN m = S, \A x \in S : m[x] \in Nat,
         SumFunctionOnSet(m, S) = Micros, NEW r \in S
  PROVE  Cardinality({roll \in Rolls : pickRarity(roll, m) = r}) = m[r]
<1> DEFINE T == Before(S)[r]
           P == SumFunctionOnSet(m, T)
<1>1. InOrder(S, Rank, Before(S)) /\ IsFiniteSet(S)
  BY RankInOrder
<1>2. IsFiniteSet(T) /\ T \in SUBSET S /\ r \notin T /\ P \in Nat
  BY <1>1, PrefixType
<1> HIDE DEF T
<1>3. SumFunctionOnSet(m, T \cup {r}) = P + m[r]
  <2>1. \A x \in T \cup {r} : m[x] \in Int
    BY <1>2
  <2> QED BY <1>2, <2>1, SumAdd
<1>4. P + m[r] <= Micros
  <2>1. T \cup {r} \in SUBSET S
    BY <1>2
  <2>2. SumFunctionOnSet(m, T \cup {r}) <= SumFunctionOnSet(m, S)
    BY <1>1, <2>1, SumPart
  <2> HIDE DEF P
  <2> QED BY <1>3, <2>2
<1>5. \A roll \in Rolls : pickRarity(roll, m) = r <=> P <= roll /\ roll < P + m[r]
  BY PickedByRoll DEF T
<1> HIDE DEF P
<1>6. m[r] \in Nat /\ Micros \in Nat
  BY OpeningAssumption
<1>7. {roll \in Rolls : pickRarity(roll, m) = r} = P..(P + m[r] - 1)
  <2>1. \A roll \in Rolls : roll \in Int
    BY DEF Rolls
  <2>2. \A roll \in P..(P + m[r] - 1) : roll \in Rolls
    BY <1>2, <1>4, <1>6 DEF Rolls
  <2>3. \A roll \in P..(P + m[r] - 1) : P <= roll /\ roll < P + m[r]
    BY <1>2, <1>6
  <2>4. \A roll \in Rolls : P <= roll /\ roll < P + m[r] => roll \in P..(P + m[r] - 1)
    BY <1>2, <1>6, <2>1
  <2> QED BY <1>5, <2>2, <2>3, <2>4
<1>8. Cardinality(P..(P + m[r] - 1)) = m[r]
  <2>1. P \in Int /\ P + m[r] - 1 \in Int
    BY <1>2, <1>6
  <2>2. Cardinality(P..(P + m[r] - 1))
          = IF P > P + m[r] - 1 THEN 0 ELSE (P + m[r] - 1) - P + 1
    BY <2>1, FS_Interval
  <2> QED BY <1>2, <1>6, <2>2
<1> QED BY <1>7, <1>8

\* In micros weights sum up to Micros: the heaviest can afford what the others round up.
LEMMA MicrosSum ==
  ASSUME NEW w, ValidWeights(w), NEW D, D = DOMAIN w, NEW m, m = normalizeRarityWeightsToMicros(w),
         NEW h, h = Heaviest(InMicros(w))
  PROVE  /\ IsFiniteSet(D) /\ D # {} /\ h \in D /\ DOMAIN m = D
         /\ \A r \in D : w[r] \in Nat /\ m[r] \in Nat
         /\ \A r \in D \ {h} : m[r] = Rounded(w[r])
         /\ SumFunctionOnSet(m, D) = Micros
<1> DEFINE f == InMicros(w)
           n == Cardinality(D)
           c == Cardinality(Rarities)
           sum == SumFunctionOnSet(f, D)
<1>1. /\ IsFiniteSet(D) /\ D \subseteq Rarities /\ n \in Nat /\ c \in Nat /\ n <= c
      /\ One \in Nat \ {0} /\ Micros \in Nat \ {0} /\ c * c <= 2 * Micros
  <2>1. IsFiniteSet(Rarities) /\ D \subseteq Rarities
    BY WeightsAssumption DEF ValidWeights
  <2>2. IsFiniteSet(D) /\ n \in Nat /\ c \in Nat /\ n <= c
    BY <2>1, FS_Subset, FS_CardinalityType
  <2> QED BY <2>1, <2>2, WeightsAssumption, OpeningAssumption
<1>2. SumFunctionOnSet(w, D) = One
  BY DEF ValidWeights, SumOf
<1>3. D # {}
  <2>1. SumFunctionOnSet(w, {}) = 0
    BY SumStep, FS_EmptySet
  <2> QED BY <1>1, <1>2, <2>1
<1>4. \A r \in D : w[r] \in Nat
  <2>1. \A r \in Rarities : Lower[r] \in Nat /\ Upper[r] \in Nat
    BY WeightsAssumption
  <2> QED BY <1>1, <2>1 DEF ValidWeights
<1>5. DOMAIN f = D /\ \A r \in D : /\ f[r] = Rounded(w[r]) /\ f[r] \in Nat
                                   /\ (2 * One) * f[r] <= (2 * Micros) * w[r] + One
  BY <1>4, RoundedError DEF InMicros
<1> HIDE DEF f
<1>6. h \in D /\ \A r \in D : f[r] <= f[h]
  <2> DEFINE top == {r \in D : \A s \in D : f[s] <= f[r]}
  <2>1. \E r \in D : \A s \in D : f[s] <= f[r]
    BY <1>1, <1>3, <1>5, HighestExists
  <2>2. top # {} /\ top \subseteq Rarities
    BY <1>1, <2>1
  <2>3. h = FirstOf(top)
    BY <1>5 DEF Heaviest, f
  <2> HIDE DEF top
  <2>4. h \in top
    BY <2>2, <2>3, FirstOfSome
  <2> QED BY <2>4 DEF top
<1>7. sum \in Nat /\ sum <= f[h] * n /\ f[h] \in Nat
  <2>1. sum \in Int
    BY <1>1, <1>5, SumRemove
  <2> DEFINE one == 1
             none == 0
  <2>2. /\ one \in Int /\ none \in Int /\ f[h] \in Nat /\ f[h] \in Int
        /\ \A r \in D : f[r] \in Int /\ one * f[r] <= none * f[r] + f[h]
    BY <1>5, <1>6
  <2> HIDE DEF one, none
  <2>3. one * sum <= none * sum + f[h] * n
    BY <1>1, <2>2, SumLinear
  <2> USE DEF one, none
  <2>4. SumFunctionOnSet(f, {}) = 0 /\ SumFunctionOnSet(f, {}) <= sum
    BY <1>1, <1>5, SumPart, SumStep, FS_EmptySet
  <2>5. f[h] * n \in Nat
    BY <1>1, <2>2
  <2> HIDE DEF sum, n
  <2> QED BY <2>1, <2>2, <2>3, <2>4, <2>5
<1>8. 2 * sum <= 2 * Micros + n
  <2>1. (2 * One) * sum <= (2 * Micros) * SumFunctionOnSet(w, D) + One * n
    <3>1. 2 * One \in Int /\ 2 * Micros \in Int /\ One \in Int
      BY <1>1
    <3>2. \A r \in D : /\ f[r] \in Int /\ w[r] \in Int
                       /\ (2 * One) * f[r] <= (2 * Micros) * w[r] + One
      BY <1>4, <1>5
    <3> QED BY <1>1, <3>1, <3>2, SumLinear
  <2> HIDE DEF sum, n
  <2>2. One * (2 * sum) <= One * (2 * Micros + n)
    BY <1>1, <1>2, <1>7, <2>1
  <2>3. \A a \in Nat \ {0}, x \in Nat, y \in Nat : a * x <= a * y => x <= y
    OBVIOUS
  <2>4. 2 * sum \in Nat /\ 2 * Micros + n \in Nat
    BY <1>1, <1>7
  <2> QED BY <1>1, <2>2, <2>3, <2>4
<1>9. sum <= f[h] + Micros
  <2> HIDE DEF sum, n, c
  <2> DEFINE H == f[h]
  <2> SUFFICES ASSUME H + Micros < sum PROVE FALSE
    BY <1>1, <1>7
  <2>1. 2 * H + 1 <= n
    BY <1>1, <1>7, <1>8
  <2>2. n * n <= c * c
    BY <1>1
  <2>3. (2 * H + 1) * n <= n * n
    BY <1>1, <1>7, <2>1
  <2>4. (2 * H + 1) * n = 2 * (H * n) + n
    BY <1>1, <1>7
  <2>5. n * n \in Nat /\ c * c \in Nat /\ H * n \in Nat
    BY <1>1, <1>7
  <2> HIDE DEF H
  <2>6. sum <= H * n /\ H \in Nat
    BY <1>7 DEF H
  <2> QED BY <1>1, <1>7, <2>1, <2>2, <2>3, <2>4, <2>5, <2>6
<1>10. /\ DOMAIN m = D
       /\ m[h] = f[h] + Micros - sum
       /\ \A r \in D \ {h} : m[r] = f[r]
  <2>1. SumOf(f) = sum
    BY <1>5 DEF SumOf
  <2>2. m = [f EXCEPT ![h] = Greatest(0, @ + Micros - sum)]
    BY <2>1 DEF normalizeRarityWeightsToMicros, f
  <2>3. f = [r \in D |-> f[r]]
    BY DEF f, InMicros
  <2>4. Greatest(0, f[h] + Micros - sum) = f[h] + Micros - sum
    <3> HIDE DEF sum
    <3> QED BY <1>1, <1>7, <1>9 DEF Greatest
  <2> HIDE DEF sum
  <2> QED BY <1>5, <1>6, <2>2, <2>3, <2>4
<1>11. \A r \in D : m[r] \in Nat
  <2> HIDE DEF sum
  <2> QED BY <1>1, <1>5, <1>6, <1>7, <1>9, <1>10
<1>12. SumFunctionOnSet(m, D) = Micros
  <2> DEFINE R == SumFunctionOnSet(f, D \ {h})
  <2>1. IsFiniteSet(D \ {h})
    BY <1>1, FS_Subset
  <2>2. SumFunctionOnSet(m, D \ {h}) = R
    BY <1>10, <2>1, SumSame
  <2>3. \A r \in D : m[r] \in Int /\ f[r] \in Int
    BY <1>5, <1>11
  <2>4. SumFunctionOnSet(m, D) = m[h] + R /\ sum = f[h] + R
    BY <1>1, <1>6, <2>2, <2>3, SumRemove
  <2>5. R \in Int
    BY <1>5, <2>1, SumRemove
  <2> HIDE DEF R, sum
  <2> QED BY <1>1, <1>7, <1>10, <2>4, <2>5
<1> QED BY <1>1, <1>3, <1>4, <1>5, <1>6, <1>10, <1>11, <1>12

\* What the heaviest is off by is what the others are off by, together.
LEMMA RestOfRounding ==
  ASSUME NEW w, ValidWeights(w), NEW D, D = DOMAIN w, NEW m, m = normalizeRarityWeightsToMicros(w),
         NEW h, h = Heaviest(InMicros(w))
  PROVE  2 * Distance(m[h] * One, w[h] * Micros) <= (Cardinality(D) - 1) * One
<1> DEFINE E == D \ {h}
           A == SumFunctionOnSet(m, E)
           B == SumFunctionOnSet(w, E)
           n == Cardinality(D)
<1>1. /\ IsFiniteSet(D) /\ h \in D
      /\ \A r \in D : w[r] \in Nat /\ m[r] \in Nat
      /\ \A r \in E : m[r] = Rounded(w[r])
      /\ SumFunctionOnSet(m, D) = Micros
  BY MicrosSum
<1>2. One \in Nat \ {0} /\ Micros \in Nat \ {0} /\ SumFunctionOnSet(w, D) = One
  BY WeightsAssumption, OpeningAssumption DEF ValidWeights, SumOf
<1>3. IsFiniteSet(E) /\ Cardinality(E) = n - 1 /\ n \in Nat
  BY <1>1, FS_RemoveElement, FS_CardinalityType
<1>4. A \in Int /\ B \in Int /\ Micros = m[h] + A /\ One = w[h] + B
  <2>1. \A r \in D : w[r] \in Int /\ m[r] \in Int
    BY <1>1
  <2>2. A \in Int /\ B \in Int
    BY <1>3, <2>1, SumRemove
  <2>3. SumFunctionOnSet(m, D) = m[h] + A /\ SumFunctionOnSet(w, D) = w[h] + B
    BY <1>1, <2>1, SumRemove
  <2> QED BY <1>1, <1>2, <2>2, <2>3
<1>5. /\ (2 * One) * A <= (2 * Micros) * B + One * (n - 1)
      /\ (2 * Micros) * B <= (2 * One) * A + One * (n - 1)
  <2>1. 2 * One \in Int /\ 2 * Micros \in Int /\ One \in Int
    BY <1>2
  <2>2. \A r \in E : /\ m[r] \in Int /\ w[r] \in Int
                     /\ (2 * One) * m[r] <= (2 * Micros) * w[r] + One
                     /\ (2 * Micros) * w[r] <= (2 * One) * m[r] + One
    BY <1>1, RoundedError
  <2>3. /\ (2 * One) * A <= (2 * Micros) * B + One * Cardinality(E)
        /\ (2 * Micros) * B <= (2 * One) * A + One * Cardinality(E)
    BY <1>3, <2>1, <2>2, SumLinear
  <2> QED BY <1>3, <2>3
<1>6. m[h] \in Nat /\ w[h] \in Nat
  BY <1>1
<1> HIDE DEF A, B, n, E
<1> DEFINE x == m[h] * One
           y == w[h] * Micros
<1>7. x \in Int /\ y \in Int /\ A * One \in Int /\ B * Micros \in Int /\ (n - 1) * One \in Int
  BY <1>2, <1>3, <1>4, <1>6
<1>8. x - y = B * Micros - A * One
  <2>1. m[h] = Micros - A /\ w[h] = One - B
    BY <1>2, <1>4, <1>6
  <2>2. (Micros - A) * One - (One - B) * Micros = B * Micros - A * One
    BY <1>2, <1>4
  <2> QED BY <2>1, <2>2
<1>9. /\ 2 * (A * One) <= 2 * (B * Micros) + (n - 1) * One
      /\ 2 * (B * Micros) <= 2 * (A * One) + (n - 1) * One
  BY <1>2, <1>3, <1>4, <1>5
<1> HIDE DEF x, y
<1>10. 2 * Distance(x, y) <= (n - 1) * One
  BY <1>7, <1>8, <1>9 DEF Distance
<1> QED BY <1>10 DEF x, y, n

\* In any pool with Common, every rarity of the pool is drawn by as many rolls as it has
\* micros.
LEMMA DrawnByWeight ==
  ASSUME NEW w, ValidWeights(w), NEW pool, Common \in pool,
         NEW m, m = normalizeRarityWeightsToMicros(w),
         NEW r \in DOMAIN w \cap pool, r # Common \/ DOMAIN w \subseteq pool
  PROVE  Cardinality({roll \in Rolls : r \in SlotRarities(roll, m, pool)}) = m[r]
<1> DEFINE D == DOMAIN w
<1>1. /\ D \subseteq Rarities /\ D # {} /\ DOMAIN m = D /\ \A x \in D : m[x] \in Nat
      /\ SumFunctionOnSet(m, D) = Micros
  BY MicrosSum DEF ValidWeights
<1>2. \A roll \in Rolls : pickRarity(roll, m) \in D
  BY <1>1, PickedByRoll
<1>3. \A roll \in Rolls : r \in SlotRarities(roll, m, pool) <=> pickRarity(roll, m) = r
  BY <1>2 DEF SlotRarities
<1>4. {roll \in Rolls : r \in SlotRarities(roll, m, pool)}
        = {roll \in Rolls : pickRarity(roll, m) = r}
  BY <1>3
<1>5. Cardinality({roll \in Rolls : pickRarity(roll, m) = r}) = m[r]
  BY <1>1, RollsOf
<1> QED BY <1>4, <1>5

\* Whichever weights are active and whatever has left the pool, every rarity that is left
\* is drawn as often as its weight says, up to rounding (normalizeRarityWeightsToMicros,
\* pickRarity).
THEOREM DrawsAreFair == Spec => []DrawsFollowWeights
<1>1. Inv /\ WeightsValid => DrawsFollowWeights
  <2> SUFFICES ASSUME Inv, WeightsValid, NEW t \in AllTiers, Common \in DOMAIN market,
                      NEW r \in DOMAIN Active(t) \cap DOMAIN market,
                      r # Common \/ DOMAIN Active(t) \subseteq DOMAIN market
               PROVE  LET w == Active(t)
                          m == normalizeRarityWeightsToMicros(w)
                          slot == [roll \in Rolls |-> SlotRarities(roll, m, DOMAIN market)]
                          drawn == Cardinality({roll \in Rolls : r \in slot[roll]})
                          off == IF r = Heaviest(InMicros(w)) THEN Cardinality(DOMAIN w) - 1 ELSE 1
                      IN  2 * Distance(drawn * One, w[r] * Micros) <= off * One
    BY DEF DrawsFollowWeights, AllTiers
  <2> DEFINE w == Active(t)
             m == normalizeRarityWeightsToMicros(w)
             h == Heaviest(InMicros(w))
             slot == [roll \in Rolls |-> SlotRarities(roll, m, DOMAIN market)]
             drawn == {roll \in Rolls : r \in slot[roll]}
  <2>1. ValidWeights(w)
    BY LastOfVersions DEF Active, Last, WeightsValid
  <2> HIDE DEF w
  <2>2. r \in DOMAIN w \cap DOMAIN market /\ (r # Common \/ DOMAIN w \subseteq DOMAIN market)
    BY DEF w
  <2>3. drawn = {roll \in Rolls : r \in SlotRarities(roll, m, DOMAIN market)}
    OBVIOUS
  <2> HIDE DEF m, drawn
  <2>4. Cardinality(drawn) = m[r]
    <3>1. Cardinality({roll \in Rolls : r \in SlotRarities(roll, m, DOMAIN market)}) = m[r]
      BY <2>1, <2>2, DrawnByWeight DEF m
    <3> QED BY <2>3, <3>1
  <2>5. CASE r = h
    <3>1. 2 * Distance(m[h] * One, w[h] * Micros) <= (Cardinality(DOMAIN w) - 1) * One
      BY <2>1, RestOfRounding DEF m
    <3> QED BY <2>4, <2>5, <3>1 DEF w, m, drawn
  <2>6. CASE r # h
    <3>1. w[r] \in Nat /\ m[r] = Rounded(w[r])
      BY <2>1, <2>2, <2>6, MicrosSum DEF m
    <3>2. /\ m[r] \in Nat
          /\ (2 * One) * m[r] <= (2 * Micros) * w[r] + One
          /\ (2 * Micros) * w[r] <= (2 * One) * m[r] + One
      BY <3>1, RoundedError
    <3>3. One \in Nat /\ Micros \in Nat
      BY WeightsAssumption, OpeningAssumption
    <3>4. /\ (2 * One) * m[r] = 2 * (m[r] * One) /\ (2 * Micros) * w[r] = 2 * (w[r] * Micros)
          /\ m[r] * One \in Int /\ w[r] * Micros \in Int
      BY <3>1, <3>2, <3>3
    <3>5. 2 * Distance(m[r] * One, w[r] * Micros) <= 1 * One
      BY <3>2, <3>3, <3>4 DEF Distance
    <3> QED BY <2>4, <2>6, <3>5 DEF w, m, drawn
  <2> QED BY <2>5, <2>6
<1> QED
  BY <1>1, InitInv, NextInv, InitWeights, NextWeights, PTL DEF Spec
=============================================================================
