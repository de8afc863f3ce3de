--------------------------- MODULE RarityWeights ---------------------------
(***************************************************************************)
(* The optimiser of pack economics.  Weights are integers that sum up to   *)
(* One; a market maps the rarities of the card pool to their average       *)
(* values.  The values of weights per card, Ev, are in units of            *)
(* value / One.  The mix between the cheapest and the most exciting        *)
(* weights is searched in Steps steps; the bounds are multiples of Steps,  *)
(* so that every mix is exact.                                             *)
(***************************************************************************)
EXTENDS Integers, FiniteSets, SequencesExt

CONSTANTS
  Rarities, Common,
  Markets,            \* what the averages of the pool may be
  One,                \* the sum of weights
  Lower, Upper,       \* WEIGHT_BOUNDS
  MaxDelta,           \* MAX_WEIGHT_DELTA
  Iterations,         \* BINARY_SEARCH_ITERATIONS
  Bump, MaxBumps,     \* WIN_RATE_ALPHA_BUMP, MAX_BUMP_ITERATIONS
  Concession          \* MAX_MARGIN_CONCESSION, as a value

\* 2 to the power of n
Doubled[n \in 0..Iterations] == IF n = 0 THEN 1 ELSE 2 * Doubled[n - 1]
Steps == Doubled[Iterations]

ASSUME WeightsAssumption ==
  /\ IsFiniteSet(Rarities) /\ Common \in Rarities
  /\ {One, MaxDelta, Iterations, Bump, MaxBumps, Concession} \subseteq Nat \ {0}
  /\ {Lower, Upper} \subseteq [Rarities -> {n \in 0..One : n % Steps = 0}]
  /\ One % Steps = 0
  /\ \A r \in Rarities : Lower[r] <= Upper[r]
  /\ SumFunctionOnSet(Lower, Rarities) <= One
  /\ \A m \in Markets :
       /\ DOMAIN m \subseteq Rarities /\ Cardinality(DOMAIN m) > 1
       /\ \A r \in DOMAIN m : m[r] \in Nat
       /\ \A r, s \in DOMAIN m : m[r] = m[s] => r = s

Least(a, b)    == IF a < b THEN a ELSE b
Greatest(a, b) == IF a > b THEN a ELSE b
Distance(a, b) == IF a < b THEN b - a ELSE a - b

SumOf(w) == SumFunctionOnSet(w, DOMAIN w)

\* For each rarity of a market, those that come before it in the code's sorted lists.
Cheaper(m) == [r \in DOMAIN m |-> {s \in DOMAIN m : m[s] < m[r]}]
Dearer(m) == [r \in DOMAIN m |-> {s \in DOMAIN m : m[s] > m[r]}]

Bounds(S) == [r \in S |-> [min |-> Lower[r], max |-> Upper[r]]]

-----------------------------------------------------------------------------
(* Projection and allocation.  They throw unless the sum comes to One. *)

\* An amount is dealt out to those who come first, to each as much as it has room for.
Dealt(amount, room, first) ==
  [r \in DOMAIN room |->
     Least(room[r], Greatest(0, amount - SumFunctionOnSet(room, first[r])))]

\* What is missing goes to the cheapest rarities first, what is too much is taken
\* from the dearest.
TakesBelowMinBug(target, bound, m) ==
  LET clamped == [r \in DOMAIN target |-> Least(bound[r].max, Greatest(bound[r].min, target[r]))]
      short   == One - SumOf(clamped)
      given   == Dealt(short, [r \in DOMAIN target |-> bound[r].max - clamped[r]], Cheaper(m))
      taken   == Dealt(-short, clamped, Dearer(m))
  IN  [r \in DOMAIN target |-> IF short > 0 THEN clamped[r] + given[r] ELSE clamped[r] - taken[r]]
projectWeightsToConstraints(target, bound, m) ==
  LET clamped == [r \in DOMAIN target |-> Least(bound[r].max, Greatest(bound[r].min, target[r]))]
      short   == One - SumOf(clamped)
      given   == Dealt(short, [r \in DOMAIN target |-> bound[r].max - clamped[r]], Cheaper(m))
      taken   == Dealt(-short, [r \in DOMAIN target |-> clamped[r] - bound[r].min], Dearer(m))
  IN  [r \in DOMAIN target |-> IF short > 0 THEN clamped[r] + given[r] ELSE clamped[r] - taken[r]]

allocateGreedy(S, first) ==
  LET room == [r \in S |-> Upper[r] - Lower[r]]
      dealt == Dealt(One - SumFunctionOnSet(Lower, S), room, first)
  IN  [r \in S |-> Lower[r] + dealt[r]]

computeProfitMaxWeights == [m \in Markets |-> allocateGreedy(DOMAIN m, Cheaper(m))]
computeExcitementMaxWeights == [m \in Markets |-> allocateGreedy(DOMAIN m, Dearer(m))]

-----------------------------------------------------------------------------
(* The search *)

\* A rarity that has left the pool counts for nothing.
computeAnalyticalEV(w, market) ==
  SumOf([r \in DOMAIN w \cap DOMAIN market |-> w[r] * market[r]])

interpolateWeights ==
  [m \in Markets |-> [alpha \in 0..Steps |->
     LET profit == computeProfitMaxWeights[m]
         excite == computeExcitementMaxWeights[m]
         mixed  == [r \in DOMAIN m |-> ((Steps - alpha) * profit[r] + alpha * excite[r]) \div Steps]
     IN  projectWeightsToConstraints(mixed, Bounds(DOMAIN m), m)]]

\* The bounds of the bisection after n rounds, in steps of the mix.
Bisected(market, budget) ==
  LET search[n \in 0..Iterations] ==
        IF n = 0 THEN [lo |-> 0, hi |-> Steps]
        ELSE LET s   == search[n - 1]
                 mid == (s.lo + s.hi) \div 2
             IN  IF computeAnalyticalEV(interpolateWeights[market][mid], market) < budget
                 THEN [s EXCEPT !.lo = mid] ELSE [s EXCEPT !.hi = mid]
  IN  search[Iterations]

OtherEndBug(market, budget) == Bisected(market, budget).hi
findOptimalAlpha(market, budget) == Bisected(market, budget).lo

-----------------------------------------------------------------------------
(* The cap on changes *)

\* A rarity the current weights lack starts from 0, with its own bounds if those
\* are out of reach.
buildDeltaConstraints(S, current) ==
  [r \in S |->
     LET now == IF r \in DOMAIN current THEN current[r] ELSE 0
         min == Greatest(Lower[r], now - MaxDelta)
         max == Least(Upper[r], now + MaxDelta)
     IN  IF min > max THEN Bounds(S)[r] ELSE [min |-> min, max |-> max]]

applyDeltaCap(candidate, current, m) ==
  projectWeightsToConstraints(candidate, buildDeltaConstraints(DOMAIN candidate, current), m)

\* The weights at alpha that are as close to the current ones as they must be.
Adjusted(market, current, alpha) ==
  applyDeltaCap(interpolateWeights[market][alpha], current, market)

\* What the optimiser may settle for: the best weights that keep the margin, or, if
\* these win too seldom, more exciting ones, for as long as the margin is not
\* conceded.  Which of them win often enough the simulation says.
Candidates(market, budget, current) ==
  LET base == findOptimalAlpha(market, budget)
      Bumped(n) == Adjusted(market, current, base + n * Bump)
      Conceded(n) == computeAnalyticalEV(Bumped(n), market) > budget + Concession
  IN  {Adjusted(market, current, base)}
      \cup {Bumped(n) : n \in {k \in 1..MaxBumps : /\ base + k * Bump <= Steps
                                                    /\ \A j \in 1..k : ~Conceded(j)}}

\* An exception: no weights within the bounds, or none within the cap.
OptimizerThrows(market, current) ==
  \/ SumOf(computeProfitMaxWeights[market]) # One
  \/ SumOf(Adjusted(market, current, 0)) # One

\* validateAcceptanceRules, but for the two that look at the simulation.
IsAcceptable(w, current) ==
  /\ \A r \in DOMAIN w : w[r] \in Lower[r]..Upper[r]
  /\ \A r \in DOMAIN w \cap DOMAIN current : Distance(w[r], current[r]) <= MaxDelta
  /\ SumOf(w) = One

=============================================================================
