---------------------------- MODULE FairOpening ----------------------------
(***************************************************************************)
(* How a roll becomes a rarity: pack weights, which sum up to One, are     *)
(* rounded to Micros and the rolls below Micros are dealt out to the       *)
(* rarities in alphabetical order.  A roll is a hash of the server's seed  *)
(* and stands here for any number below Micros.                            *)
(***************************************************************************)
EXTENDS RarityWeights

CONSTANTS
  Rank,               \* Rank[r]: the place of r in alphabetical order
  Micros              \* 1_000_000

\* There are few rarities, so that rounding never takes more from the heaviest than it has.
ASSUME OpeningAssumption ==
  /\ Rank \in [Rarities -> Nat]
  /\ \A r, s \in Rarities : Rank[r] = Rank[s] => r = s
  /\ Micros \in Nat \ {0} /\ Cardinality(Rarities) * Cardinality(Rarities) <= 2 * Micros

Before(S) == [r \in S |-> {s \in S : Rank[s] < Rank[r]}]
FirstOf(S) == CHOOSE r \in S : \A s \in S : Rank[r] <= Rank[s]
LastOf(S) == CHOOSE r \in S : \A s \in S : Rank[s] <= Rank[r]

Rounded(n) == (2 * n * Micros + One) \div (2 * One)

InMicros(w) == [r \in DOMAIN w |-> Rounded(w[r])]

\* The first of the rarities with most micros.
Heaviest(m) == FirstOf({r \in DOMAIN m : \A s \in DOMAIN m : m[s] <= m[r]})

NoCorrectionBug(w) == InMicros(w)
\* What rounding has left over or overdrawn is the heaviest rarity's.
normalizeRarityWeightsToMicros(w) ==
  LET m == InMicros(w) IN [m EXCEPT ![Heaviest(m)] = Greatest(0, @ + Micros - SumOf(m))]

\* What drawInt returns for a bound of Micros.
Rolls == 0..(Micros - 1)

\* The first rarity with which the sum of the weights exceeds the roll.
pickRarity(roll, m) ==
  LET below == Before(DOMAIN m)
      hit   == {r \in DOMAIN m : roll < SumFunctionOnSet(m, below[r]) + m[r]}
  IN  IF hit = {} THEN LastOf(DOMAIN m) ELSE FirstOf(hit)

\* The rarities of the cards a slot of a pack may get: the one picked, or Common, or
\* any of the pool.
SlotRarities(roll, m, pool) ==
  LET picked == pickRarity(roll, m) IN
  IF picked \in pool THEN {picked} ELSE IF Common \in pool THEN {Common} ELSE pool

=============================================================================
