-------------------------- MODULE ArithmeticProofs --------------------------
(***************************************************************************)
(* Facts about sums, rounded percentages of cents and first candidates     *)
(* that the proofs of the components share.  Sums come in two forms:       *)
(* Total, over 1..n, and SumFunction of the community modules, over a      *)
(* finite set of rows.                                                     *)
(***************************************************************************)
EXTENDS Money, Totals, FiniteSetTheorems, TLAPS

-----------------------------------------------------------------------------
(* Money *)

\* The least bid above a bid is higher by at least one unit.
LEMMA MinimumBidGrows ==
  ASSUME NEW x \in Nat
  PROVE  MinimumBidFor(x) \in Nat /\ MinimumBidFor(x) >= x + Unit
BY DEF MinimumBidFor, MinIncrement, AtLeast, Percent, Unit

LEMMA IncrementType ==
  ASSUME NEW x \in Nat
  PROVE  MinIncrement(x) \in Nat /\ MinIncrement(x) >= Unit
BY DEF MinIncrement, AtLeast, Percent, Unit

\* The auction fee never exceeds the price it is taken from, so the seller's
\* net is never negative: creditAvailable is not handed a debit.
THEOREM AuctionFeeBound ==
  ASSUME NEW x \in Nat
  PROVE  AuctionFee(x) \in Nat /\ AuctionFee(x) <= x
BY DEF AuctionFee, Percent

\* The same for the trade fee of the marketplace.
THEOREM TradeFeeBound ==
  ASSUME NEW x \in Nat
  PROVE  TradeFee(x) \in Nat /\ TradeFee(x) <= x
BY DEF TradeFee, Percent
-----------------------------------------------------------------------------
(* Induction over the naturals with the predicate given as a set *)

LEMMA SetInduction ==
  ASSUME NEW S, 0 \in S, \A n \in Nat : n \in S => n + 1 \in S
  PROVE  \A n \in Nat : n \in S
<1> DEFINE R == {ss \in Nat \X Nat : ss[1] < ss[2]}
           T == Nat \ S
<1>1. SUFFICES ASSUME T # {} PROVE FALSE
  OBVIOUS
<1>2. IsWellFoundedOn(R, Nat)
  BY NatLessThanWellFounded DEF OpToRel
<1>3. T \subseteq Nat
  OBVIOUS
<1> HIDE DEF T
<1>4. PICK m \in T : \A k \in T : ~(<<k, m>> \in R)
  <2> HIDE DEF R
  <2> QED BY <1>1, <1>2, <1>3, WFMin
<1>5. m \in Nat /\ m \notin S
  BY <1>4 DEF T
<1>6. m # 0
  BY <1>5
<1>7. m - 1 \in T
  BY <1>5, <1>6 DEF T
<1>8. <<m - 1, m>> \in R
  BY <1>5, <1>6
<1> QED BY <1>4, <1>7, <1>8

-----------------------------------------------------------------------------
(* The recursive function inside Total exists and is unique *)

IsPartial(f, n, g) ==
  g = [i \in 0..n |-> IF i = 0 THEN 0 ELSE g[i - 1] + f[i]]

LEMMA PartialExists ==
  ASSUME NEW f, NEW n \in Nat
  PROVE  \E g : IsPartial(f, n, g)
<1> DEFINE S == {k \in Nat : \E g : IsPartial(f, k, g)}
<1>1. 0 \in S
  <2>1. IsPartial(f, 0, [i \in 0..0 |-> 0])
    BY DEF IsPartial
  <2> QED BY <2>1
<1>2. ASSUME NEW k \in Nat, k \in S PROVE k + 1 \in S
  <2>1. PICK g : IsPartial(f, k, g)
    BY <1>2
  <2> DEFINE h == [i \in 0..(k + 1) |-> IF i = k + 1 THEN g[k] + f[k + 1] ELSE g[i]]
  <2>2. ASSUME NEW i \in 0..(k + 1)
        PROVE  h[i] = IF i = 0 THEN 0 ELSE h[i - 1] + f[i]
    <3>1. CASE i = k + 1
      BY <3>1
    <3>2. CASE i # k + 1
      <4>1. i \in 0..k /\ (i # 0 => i - 1 \in 0..(k + 1) /\ i - 1 # k + 1)
        BY <3>2
      <4>2. g[i] = IF i = 0 THEN 0 ELSE g[i - 1] + f[i]
        BY <2>1, <4>1 DEF IsPartial
      <4> QED BY <3>2, <4>1, <4>2
    <3> QED BY <3>1, <3>2
  <2>3. IsPartial(f, k + 1, h)
    <3> HIDE DEF h
    <3>1. h = [i \in 0..(k + 1) |-> h[i]]
      BY DEF h
    <3> QED BY <2>2, <3>1 DEF IsPartial
  <2> QED BY <2>3
<1> HIDE DEF S
<1>3. n \in S
  BY <1>1, <1>2, SetInduction
<1> QED BY <1>3 DEF S

LEMMA PartialUnique ==
  ASSUME NEW f, NEW n \in Nat, NEW m \in Nat, NEW g, NEW h,
         IsPartial(f, n, g), IsPartial(f, m, h),
         NEW i \in Nat, i <= n, i <= m
  PROVE  g[i] = h[i]
<1> DEFINE S == {k \in Nat : k <= n /\ k <= m => g[k] = h[k]}
<1>1. 0 \in S
  BY DEF IsPartial
<1>2. ASSUME NEW k \in Nat, k \in S PROVE k + 1 \in S
  <2>1. SUFFICES ASSUME k + 1 <= n, k + 1 <= m PROVE g[k + 1] = h[k + 1]
    OBVIOUS
  <2>2. g[k] = h[k]
    BY <1>2, <2>1
  <2>3. k + 1 \in 0..n /\ k + 1 \in 0..m /\ k + 1 # 0 /\ (k + 1) - 1 = k
    BY <2>1
  <2>4. g[k + 1] = g[k] + f[k + 1]
    BY <2>3 DEF IsPartial
  <2>5. h[k + 1] = h[k] + f[k + 1]
    BY <2>3 DEF IsPartial
  <2> QED BY <2>2, <2>4, <2>5
<1> HIDE DEF S
<1>3. i \in S
  BY <1>1, <1>2, SetInduction
<1> QED BY <1>3 DEF S

LEMMA TotalIsPartial ==
  ASSUME NEW f, NEW n \in Nat
  PROVE  \E g : IsPartial(f, n, g) /\ Total(f, n) = g[n]
<1>1. \E g : IsPartial(f, n, g)
  BY PartialExists
<1> DEFINE c == CHOOSE g : IsPartial(f, n, g)
<1>2. IsPartial(f, n, c)
  BY <1>1
<1>3. Total(f, n) = c[n]
  BY DEF Total, IsPartial
<1> QED BY <1>2, <1>3

\* The sum of no terms is 0 and one more term is one more summand.
LEMMA TotalStep ==
  ASSUME NEW f
  PROVE  /\ Total(f, 0) = 0
         /\ \A n \in Nat : Total(f, n + 1) = Total(f, n) + f[n + 1]
<1>1. Total(f, 0) = 0
  <2>1. PICK g : IsPartial(f, 0, g) /\ Total(f, 0) = g[0]
    BY TotalIsPartial
  <2> QED BY <2>1 DEF IsPartial
<1>2. ASSUME NEW n \in Nat
      PROVE  Total(f, n + 1) = Total(f, n) + f[n + 1]
  <2>1. PICK g : IsPartial(f, n, g) /\ Total(f, n) = g[n]
    BY TotalIsPartial
  <2>2. PICK h : IsPartial(f, n + 1, h) /\ Total(f, n + 1) = h[n + 1]
    BY TotalIsPartial
  <2>3. g[n] = h[n]
    BY <2>1, <2>2, PartialUnique
  <2>4. n + 1 \in 0..(n + 1) /\ n + 1 # 0 /\ (n + 1) - 1 = n
    OBVIOUS
  <2>5. h[n + 1] = h[n] + f[n + 1]
    BY <2>2, <2>4 DEF IsPartial
  <2> QED BY <2>1, <2>2, <2>3, <2>5
<1> QED BY <1>1, <1>2

-----------------------------------------------------------------------------
(* What the proofs about balances need to know of sums *)

\* A sum of naturals is a natural, a sum of integers an integer.
LEMMA TotalType ==
  ASSUME NEW f, NEW n \in Nat, \A i \in 1..n : f[i] \in Int
  PROVE  /\ Total(f, n) \in Int
         /\ (\A i \in 1..n : f[i] >= 0) => Total(f, n) >= 0
<1> DEFINE S == {k \in Nat : k <= n => /\ Total(f, k) \in Int /\ ((\A i \in 1..n : f[i] >= 0) => Total(f, k) >= 0)}
<1>1. 0 \in S
  BY TotalStep
<1>2. ASSUME NEW k \in Nat, k \in S PROVE k + 1 \in S
  <2>1. SUFFICES ASSUME k + 1 <= n PROVE /\ Total(f, k + 1) \in Int /\ ((\A i \in 1..n : f[i] >= 0) => Total(f, k + 1) >= 0)
    OBVIOUS
  <2>2. k + 1 \in 1..n
    BY <2>1
  <2>3. Total(f, k + 1) = Total(f, k) + f[k + 1]
    BY TotalStep
  <2>4. f[k + 1] \in Int
    BY <2>2
  <2> QED BY <1>2, <2>1, <2>2, <2>3, <2>4
<1> HIDE DEF S
<1>3. n \in S
  BY <1>1, <1>2, SetInduction
<1> QED BY <1>3 DEF S

\* Functions that agree on 1..n have the same sum.
LEMMA TotalSame ==
  ASSUME NEW f, NEW g, NEW n \in Nat, \A i \in 1..n : f[i] = g[i]
  PROVE  Total(f, n) = Total(g, n)
<1> DEFINE S == {k \in Nat : k <= n => Total(f, k) = Total(g, k)}
<1>1. 0 \in S
  BY TotalStep
<1>2. ASSUME NEW k \in Nat, k \in S PROVE k + 1 \in S
  <2>1. SUFFICES ASSUME k + 1 <= n PROVE Total(f, k + 1) = Total(g, k + 1)
    OBVIOUS
  <2>2. k + 1 \in 1..n
    BY <2>1
  <2>3. Total(f, k + 1) = Total(f, k) + f[k + 1] /\ Total(g, k + 1) = Total(g, k) + g[k + 1]
    BY TotalStep
  <2>4. Total(f, k) = Total(g, k) /\ f[k + 1] = g[k + 1]
    BY <1>2, <2>1, <2>2
  <2> QED BY <2>3, <2>4
<1> HIDE DEF S
<1>3. n \in S
  BY <1>1, <1>2, SetInduction
<1> QED BY <1>3 DEF S

\* Sums add up term by term.
LEMMA TotalAdd ==
  ASSUME NEW f, NEW g, NEW h, NEW n \in Nat,
         \A i \in 1..n : f[i] \in Int /\ g[i] \in Int /\ h[i] = f[i] + g[i]
  PROVE  Total(h, n) = Total(f, n) + Total(g, n)
<1> DEFINE S == {k \in Nat : k <= n => Total(h, k) = Total(f, k) + Total(g, k)}
<1>1. 0 \in S
  BY TotalStep
<1>2. ASSUME NEW k \in Nat, k \in S PROVE k + 1 \in S
  <2>1. SUFFICES ASSUME k + 1 <= n PROVE Total(h, k + 1) = Total(f, k + 1) + Total(g, k + 1)
    OBVIOUS
  <2>2. k + 1 \in 1..n
    BY <2>1
  <2>3. /\ Total(f, k + 1) = Total(f, k) + f[k + 1]
        /\ Total(g, k + 1) = Total(g, k) + g[k + 1]
        /\ Total(h, k + 1) = Total(h, k) + h[k + 1]
    BY TotalStep
  <2>4. Total(f, k) \in Int /\ Total(g, k) \in Int
    <3>1. \A i \in 1..k : i \in 1..n
      BY <2>1
    <3> QED BY <3>1, TotalType
  <2>5. f[k + 1] \in Int /\ g[k + 1] \in Int /\ h[k + 1] = f[k + 1] + g[k + 1]
    BY <2>2
  <2>6. Total(h, k) = Total(f, k) + Total(g, k)
    BY <1>2, <2>1
  <2> QED BY <2>3, <2>4, <2>5, <2>6
<1> HIDE DEF S
<1>3. n \in S
  BY <1>1, <1>2, SetInduction
<1> QED BY <1>3 DEF S

\* A sum of zeros is zero.
LEMMA TotalZero ==
  ASSUME NEW f, NEW n \in Nat, \A i \in 1..n : f[i] = 0
  PROVE  Total(f, n) = 0
<1> DEFINE S == {k \in Nat : k <= n => Total(f, k) = 0}
<1>1. 0 \in S
  BY TotalStep
<1>2. ASSUME NEW k \in Nat, k \in S PROVE k + 1 \in S
  <2>1. SUFFICES ASSUME k + 1 <= n PROVE Total(f, k + 1) = 0
    OBVIOUS
  <2>2. f[k + 1] = 0 /\ Total(f, k) = 0
    BY <1>2, <2>1
  <2> QED BY <2>2, TotalStep
<1> HIDE DEF S
<1>3. n \in S
  BY <1>1, <1>2, SetInduction
<1> QED BY <1>3 DEF S

\* Changing one term by d changes the sum by d.
LEMMA TotalUpdate ==
  ASSUME NEW f, NEW g, NEW n \in Nat, NEW a \in 1..n, NEW d \in Int,
         \A i \in 1..n : f[i] \in Int,
         \A i \in 1..n : g[i] = IF i = a THEN f[i] + d ELSE f[i]
  PROVE  Total(g, n) = Total(f, n) + d
<1> DEFINE S == {k \in Nat : k <= n => Total(g, k) = Total(f, k) + (IF a <= k THEN d ELSE 0)}
<1>1. 0 \in S
  BY TotalStep
<1>2. ASSUME NEW k \in Nat, k \in S PROVE k + 1 \in S
  <2>1. SUFFICES ASSUME k + 1 <= n PROVE Total(g, k + 1) = Total(f, k + 1) + (IF a <= k + 1 THEN d ELSE 0)
    OBVIOUS
  <2>2. k + 1 \in 1..n
    BY <2>1
  <2>3. /\ Total(f, k + 1) = Total(f, k) + f[k + 1]
        /\ Total(g, k + 1) = Total(g, k) + g[k + 1]
    BY TotalStep
  <2>4. Total(f, k) \in Int
    <3>1. \A i \in 1..k : i \in 1..n
      BY <2>1
    <3> QED BY <3>1, TotalType
  <2>5. f[k + 1] \in Int /\ g[k + 1] = IF k + 1 = a THEN f[k + 1] + d ELSE f[k + 1]
    BY <2>2
  <2>6. Total(g, k) = Total(f, k) + (IF a <= k THEN d ELSE 0)
    BY <1>2, <2>1
  <2>7. CASE k + 1 = a
    BY <2>3, <2>4, <2>5, <2>6, <2>7
  <2>8. CASE k + 1 # a
    BY <2>3, <2>4, <2>5, <2>6, <2>8
  <2> QED BY <2>7, <2>8
<1> HIDE DEF S
<1>3. n \in S
  BY <1>1, <1>2, SetInduction
<1> QED BY <1>3 DEF S

\* Larger terms, larger sum.
LEMMA TotalMonotone ==
  ASSUME NEW f, NEW g, NEW n \in Nat,
         \A i \in 1..n : f[i] \in Int /\ g[i] \in Int /\ f[i] <= g[i]
  PROVE  Total(f, n) <= Total(g, n)
<1> DEFINE S == {k \in Nat : k <= n => Total(f, k) <= Total(g, k)}
<1>1. 0 \in S
  BY TotalStep
<1>2. ASSUME NEW k \in Nat, k \in S PROVE k + 1 \in S
  <2>1. SUFFICES ASSUME k + 1 <= n PROVE Total(f, k + 1) <= Total(g, k + 1)
    OBVIOUS
  <2>2. k + 1 \in 1..n
    BY <2>1
  <2>3. /\ Total(f, k + 1) = Total(f, k) + f[k + 1]
        /\ Total(g, k + 1) = Total(g, k) + g[k + 1]
    BY TotalStep
  <2>4. Total(f, k) \in Int /\ Total(g, k) \in Int
    <3>1. \A i \in 1..k : i \in 1..n
      BY <2>1
    <3> QED BY <3>1, TotalType
  <2>5. Total(f, k) <= Total(g, k) /\ f[k + 1] \in Int /\ g[k + 1] \in Int /\ f[k + 1] <= g[k + 1]
    BY <1>2, <2>1, <2>2
  <2> QED BY <2>3, <2>4, <2>5
<1> HIDE DEF S
<1>3. n \in S
  BY <1>1, <1>2, SetInduction
<1> QED BY <1>3 DEF S

\* One term of a sum of naturals is at most the sum.
LEMMA TotalTerm ==
  ASSUME NEW f, NEW n \in Nat, NEW a \in 1..n, \A i \in 1..n : f[i] \in Nat
  PROVE  f[a] <= Total(f, n)
<1> DEFINE g == [i \in 1..n |-> IF i = a THEN f[i] - f[a] ELSE f[i]]
<1>1. Total(g, n) = Total(f, n) - f[a]
  <2> DEFINE d == -f[a]
  <2>1. d \in Int /\ \A i \in 1..n : g[i] = IF i = a THEN f[i] + d ELSE f[i]
    OBVIOUS
  <2>2. \A i \in 1..n : f[i] \in Int
    OBVIOUS
  <2> HIDE DEF g, d
  <2>3. Total(g, n) = Total(f, n) + d
    BY <2>1, <2>2, TotalUpdate
  <2> QED BY <2>2, <2>3, TotalType DEF d
<1>2. Total(g, n) >= 0
  <2>1. \A i \in 1..n : g[i] \in Int /\ g[i] >= 0
    OBVIOUS
  <2> HIDE DEF g
  <2> QED BY <2>1, TotalType
<1>3. Total(f, n) \in Int /\ f[a] \in Int
  BY TotalType
<1> QED BY <1>1, <1>2, <1>3

LEMMA TotalConstant ==
  ASSUME NEW c \in Int, NEW n \in Nat, NEW f, \A i \in 1..n : f[i] = c
  PROVE  Total(f, n) = n * c
<1> DEFINE S == {k \in Nat : k <= n => Total(f, k) = k * c}
<1>1. 0 \in S
  BY TotalStep
<1>2. ASSUME NEW k \in Nat, k \in S PROVE k + 1 \in S
  <2>1. SUFFICES ASSUME k + 1 <= n PROVE Total(f, k + 1) = (k + 1) * c
    OBVIOUS
  <2>2. f[k + 1] = c /\ Total(f, k) = k * c
    BY <1>2, <2>1
  <2>3. Total(f, k + 1) = k * c + c
    BY <2>2, TotalStep
  <2>4. (k + 1) * c = k * c + c
    OBVIOUS
  <2> QED BY <2>3, <2>4
<1>3. n \in S
  <2> HIDE DEF S
  <2> QED BY <1>1, <1>2, SetInduction
<1> QED BY <1>3

\* Terms that are each at most the one before it in another sum of naturals.
LEMMA TotalShifted ==
  ASSUME NEW f, NEW g, NEW n \in Nat, n > 0, f[1] = 0,
         \A i \in 1..n : f[i] \in Nat /\ g[i] \in Nat,
         \A i \in 1..(n - 1) : f[i + 1] <= g[i]
  PROVE  Total(f, n) <= Total(g, n)
<1> DEFINE S == {k \in Nat : k + 1 <= n => Total(f, k + 1) <= Total(g, k)}
<1>1. 0 \in S
  <2>1. Total(f, 0) = 0 /\ Total(g, 0) = 0 /\ Total(f, 0 + 1) = Total(f, 0) + f[0 + 1]
    BY TotalStep
  <2> QED BY <2>1
<1>2. ASSUME NEW k \in Nat, k \in S PROVE k + 1 \in S
  <2>1. SUFFICES ASSUME k + 2 <= n PROVE Total(f, k + 1 + 1) <= Total(g, k + 1)
    OBVIOUS
  <2>2. /\ Total(f, k + 1 + 1) = Total(f, k + 1) + f[k + 1 + 1]
        /\ Total(g, k + 1) = Total(g, k) + g[k + 1]
    BY TotalStep
  <2>3. k + 1 \in 1..(n - 1) /\ k + 1 \in 1..n /\ k + 1 + 1 \in 1..n
    BY <2>1
  <2>4. Total(f, k + 1) \in Int /\ Total(g, k) \in Int
    <3>1. \A i \in 1..(k + 1) : f[i] \in Int /\ g[i] \in Int
      BY <2>1
    <3> QED BY <3>1, TotalType
  <2>5. f[k + 1 + 1] <= g[k + 1] /\ f[k + 1 + 1] \in Int /\ g[k + 1] \in Int
    BY <2>3
  <2>6. Total(f, k + 1) <= Total(g, k)
    BY <1>2, <2>1
  <2> QED BY <2>2, <2>4, <2>5, <2>6
<1> HIDE DEF S
<1>3. n - 1 \in S
  BY <1>1, <1>2, SetInduction
<1>4. Total(f, n) <= Total(g, n - 1)
  BY <1>3 DEF S
<1>5. Total(g, n) = Total(g, n - 1) + g[n] /\ g[n] \in Nat
  BY TotalStep
<1>6. Total(f, n) \in Int /\ Total(g, n - 1) \in Int
  <2>1. \A i \in 1..n : f[i] \in Int /\ g[i] \in Int
    OBVIOUS
  <2> QED BY <2>1, TotalType
<1> QED BY <1>4, <1>5, <1>6

-----------------------------------------------------------------------------
(* Sums over finite sets *)

Pick(s) == CHOOSE x \in s : TRUE

\* The recursive function inside SumFunctionOnSet, on the sets of a collection D: its
\* value at s is the sum of f over s, taken in the order in which elements are chosen.
IsSum(f, D, g) ==
  g = [s \in D |-> IF s = {} THEN 0 ELSE f[Pick(s)] + g[s \ {Pick(s)}]]

LEMMA PickRemoved ==
  ASSUME NEW S, IsFiniteSet(S), S # {}
  PROVE  /\ Pick(S) \in S /\ IsFiniteSet(S \ {Pick(S)})
         /\ Cardinality(S) \in Nat /\ Cardinality(S \ {Pick(S)}) = Cardinality(S) - 1
<1>1. Pick(S) \in S
  BY DEF Pick
<1> QED BY <1>1, FS_RemoveElement, FS_CardinalityType

LEMMA SumExists ==
  ASSUME NEW f, NEW S, IsFiniteSet(S)
  PROVE  \E g : IsSum(f, SUBSET S, g)
<1> DEFINE Small(k) == {s \in SUBSET S : Cardinality(s) <= k}
           K == {k \in Nat : \E g : IsSum(f, Small(k), g)}
<1>0. \A s \in SUBSET S : IsFiniteSet(s) /\ Cardinality(s) \in Nat
  BY FS_Subset, FS_CardinalityType
<1>1. 0 \in K
  <2> DEFINE g == [s \in Small(0) |-> 0]
  <2>1. \A s \in Small(0) : s = {}
    BY <1>0, FS_EmptySet
  <2>2. IsSum(f, Small(0), g)
    BY <2>1 DEF IsSum
  <2> QED BY <2>2
<1>2. ASSUME NEW k \in Nat, k \in K PROVE k + 1 \in K
  <2>1. PICK g : IsSum(f, Small(k), g)
    BY <1>2
  <2> DEFINE h == [s \in Small(k + 1) |-> IF s = {} THEN 0 ELSE f[Pick(s)] + g[s \ {Pick(s)}]]
  <2>2. ASSUME NEW s \in Small(k + 1), s # {} PROVE h[s \ {Pick(s)}] = g[s \ {Pick(s)}]
    <3>1. s \ {Pick(s)} \in Small(k) /\ s \ {Pick(s)} \in Small(k + 1)
      BY <1>0, <2>2, PickRemoved
    <3> QED BY <2>1, <3>1 DEF IsSum
  <2>3. IsSum(f, Small(k + 1), h)
    <3>1. \A s \in Small(k + 1) :
            h[s] = IF s = {} THEN 0 ELSE f[Pick(s)] + h[s \ {Pick(s)}]
      BY <2>2
    <3>2. h = [s \in Small(k + 1) |-> h[s]]
      OBVIOUS
    <3> HIDE DEF h, Small
    <3> QED BY <3>1, <3>2 DEF IsSum
  <2>4. \E q : IsSum(f, Small(k + 1), q)
    <3> HIDE DEF h, Small
    <3> QED BY <2>3
  <2> QED BY <2>4
<1> DEFINE n == Cardinality(S)
<1>3. n \in Nat /\ Small(n) = SUBSET S
  BY <1>0, FS_Subset, FS_CardinalityType
<1> HIDE DEF K, Small
<1>4. n \in K
  BY <1>1, <1>2, <1>3, SetInduction
<1> QED BY <1>3, <1>4 DEF K

LEMMA SumsAgree ==
  ASSUME NEW f, NEW g, NEW S, NEW T, NEW p, NEW q, IsFiniteSet(S),
         IsSum(f, SUBSET S, p), IsSum(g, SUBSET T, q),
         NEW s, s \subseteq S, s \subseteq T, \A x \in s : f[x] = g[x]
  PROVE  p[s] = q[s]
<1> DEFINE K == {k \in Nat : \A t \in SUBSET s : Cardinality(t) <= k => p[t] = q[t]}
<1>0. \A t \in SUBSET s : /\ IsFiniteSet(t) /\ Cardinality(t) \in Nat
                          /\ t \in SUBSET S /\ t \in SUBSET T
  BY FS_Subset, FS_CardinalityType
<1>1. p[{}] = 0 /\ q[{}] = 0
  <2>1. {} \in SUBSET S /\ {} \in SUBSET T
    OBVIOUS
  <2> QED BY <2>1 DEF IsSum
<1>2. 0 \in K
  <2>1. ASSUME NEW t \in SUBSET s, Cardinality(t) <= 0 PROVE p[t] = q[t]
    <3>1. t = {}
      BY <1>0, <2>1, FS_EmptySet
    <3> QED BY <1>1, <3>1
  <2> QED BY <2>1
<1>3. ASSUME NEW k \in Nat, k \in K PROVE k + 1 \in K
  <2>1. SUFFICES ASSUME NEW t \in SUBSET s, Cardinality(t) <= k + 1, t # {} PROVE p[t] = q[t]
    <3>1. ASSUME NEW t \in SUBSET s, t = {} PROVE p[t] = q[t]
      BY <1>1, <3>1
    <3> QED BY <3>1
  <2>2. /\ Pick(t) \in s /\ t \ {Pick(t)} \in SUBSET s
        /\ Cardinality(t \ {Pick(t)}) <= k
    BY <1>0, <2>1, PickRemoved
  <2>3. p[t \ {Pick(t)}] = q[t \ {Pick(t)}]
    BY <1>3, <2>2
  <2>4. p[t] = f[Pick(t)] + p[t \ {Pick(t)}] /\ q[t] = g[Pick(t)] + q[t \ {Pick(t)}]
    BY <1>0, <2>1 DEF IsSum
  <2> QED BY <2>2, <2>3, <2>4
<1> HIDE DEF K
<1>4. Cardinality(s) \in Nat /\ s \in SUBSET s
  BY <1>0
<1>5. Cardinality(s) \in K
  BY <1>2, <1>3, <1>4, SetInduction
<1> QED BY <1>4, <1>5 DEF K

LEMMA SumIsSum ==
  ASSUME NEW f, NEW S, IsFiniteSet(S)
  PROVE  \E g : IsSum(f, SUBSET S, g) /\ SumFunctionOnSet(f, S) = g[S]
<1> DEFINE c == CHOOSE g : IsSum(f, SUBSET S, g)
<1>1. IsSum(f, SUBSET S, c)
  BY SumExists
<1>2. SumFunctionOnSet(f, S) = c[S]
  BY DEF SumFunctionOnSet, FoldFunctionOnSet, MapThenFoldSet, IsSum, Pick
<1> QED BY <1>1, <1>2

\* The sum over no rows is 0, and else one row and the sum over the others.
LEMMA SumStep ==
  ASSUME NEW f, NEW S, IsFiniteSet(S)
  PROVE  SumFunctionOnSet(f, S) =
           IF S = {} THEN 0 ELSE f[Pick(S)] + SumFunctionOnSet(f, S \ {Pick(S)})
<1>1. PICK g : IsSum(f, SUBSET S, g) /\ SumFunctionOnSet(f, S) = g[S]
  BY SumIsSum
<1>2. CASE S = {}
  BY <1>1, <1>2 DEF IsSum
<1>3. CASE S # {}
  <2> DEFINE T == S \ {Pick(S)}
  <2>1. IsFiniteSet(T) /\ T \subseteq S
    BY <1>3, PickRemoved
  <2>2. PICK h : IsSum(f, SUBSET T, h) /\ SumFunctionOnSet(f, T) = h[T]
    BY <2>1, SumIsSum
  <2>3. g[T] = h[T]
    <3> HIDE DEF T
    <3> QED BY <1>1, <2>1, <2>2, SumsAgree
  <2>4. g[S] = f[Pick(S)] + g[T]
    BY <1>1, <1>3 DEF IsSum
  <2> QED BY <1>1, <1>3, <2>2, <2>3, <2>4
<1> QED BY <1>2, <1>3

\* The order does not matter: any row can be taken first.
LEMMA SumRemove ==
  ASSUME NEW f, NEW S, IsFiniteSet(S), \A x \in S : f[x] \in Int
  PROVE  /\ SumFunctionOnSet(f, S) \in Int
         /\ \A x \in S : SumFunctionOnSet(f, S) = f[x] + SumFunctionOnSet(f, S \ {x})
<1> DEFINE Good(T) == /\ SumFunctionOnSet(f, T) \in Int
                      /\ \A x \in T :
                           SumFunctionOnSet(f, T) = f[x] + SumFunctionOnSet(f, T \ {x})
           K == {k \in Nat : \A T \in SUBSET S : Cardinality(T) <= k => Good(T)}
<1>0. \A T \in SUBSET S : IsFiniteSet(T) /\ Cardinality(T) \in Nat
  BY FS_Subset, FS_CardinalityType
<1>1. 0 \in K
  <2>1. SUFFICES ASSUME NEW T \in SUBSET S, Cardinality(T) <= 0 PROVE Good(T)
    OBVIOUS
  <2>2. T = {}
    BY <1>0, <2>1, FS_EmptySet
  <2>3. SumFunctionOnSet(f, T) = 0
    BY <2>2, FS_EmptySet, SumStep
  <2> QED BY <2>2, <2>3
<1>2. ASSUME NEW k \in Nat, k \in K PROVE k + 1 \in K
  <2>1. SUFFICES ASSUME NEW T \in SUBSET S, Cardinality(T) <= k + 1, T # {} PROVE Good(T)
    <3>1. ASSUME NEW T \in SUBSET S, T = {} PROVE Good(T)
      <4>1. SumFunctionOnSet(f, T) = 0
        BY <3>1, FS_EmptySet, SumStep
      <4> QED BY <3>1, <4>1
    <3> QED BY <3>1
  <2> DEFINE p == Pick(T)
             P == T \ {p}
  <2>2. p \in T /\ P \in SUBSET S /\ Cardinality(P) <= k /\ f[p] \in Int
    BY <1>0, <2>1, PickRemoved
  <2>3. SumFunctionOnSet(f, T) = f[p] + SumFunctionOnSet(f, P)
    BY <1>0, <2>1, SumStep
  <2>4. Good(P)
    BY <1>2, <2>2
  <2>5. ASSUME NEW x \in T, x # p
        PROVE  SumFunctionOnSet(f, T) = f[x] + SumFunctionOnSet(f, T \ {x})
    <3> DEFINE X == T \ {x}
               B == P \ {x}
    <3>1. x \in P /\ f[x] \in Int /\ p \in X /\ X \in SUBSET S /\ B = X \ {p} /\ B \in SUBSET S
      BY <2>2, <2>5
    <3>2. SumFunctionOnSet(f, P) = f[x] + SumFunctionOnSet(f, B)
      BY <2>4, <3>1
    <3>3. Cardinality(X) = Cardinality(T) - 1 /\ Cardinality(B) = Cardinality(P) - 1
      BY <1>0, <2>2, <3>1, FS_RemoveElement
    <3>4. Cardinality(X) <= k /\ Cardinality(B) <= k
      BY <1>0, <2>1, <2>2, <3>1, <3>3
    <3>5. SumFunctionOnSet(f, X) = f[p] + SumFunctionOnSet(f, B) /\ SumFunctionOnSet(f, B) \in Int
      BY <1>2, <3>1, <3>4
    <3> HIDE DEF X, B, P, p
    <3>6. SumFunctionOnSet(f, T) = f[x] + SumFunctionOnSet(f, X)
      BY <2>2, <2>3, <3>1, <3>2, <3>5
    <3> QED BY <3>6 DEF X
  <2>6. SumFunctionOnSet(f, T) \in Int
    BY <2>2, <2>3, <2>4
  <2>7. ASSUME NEW x \in T
        PROVE  SumFunctionOnSet(f, T) = f[x] + SumFunctionOnSet(f, T \ {x})
    BY <2>3, <2>5
  <2> QED BY <2>6, <2>7
<1> DEFINE n == Cardinality(S)
<1>3. n \in Nat /\ S \in SUBSET S
  BY <1>0
<1> HIDE DEF K
<1>4. n \in K
  BY <1>1, <1>2, <1>3, SetInduction
<1> QED BY <1>3, <1>4 DEF K

LEMMA SumSame ==
  ASSUME NEW f, NEW g, NEW S, IsFiniteSet(S), \A x \in S : f[x] = g[x]
  PROVE  SumFunctionOnSet(f, S) = SumFunctionOnSet(g, S)
<1>1. PICK p : IsSum(f, SUBSET S, p) /\ SumFunctionOnSet(f, S) = p[S]
  BY SumIsSum
<1>2. PICK q : IsSum(g, SUBSET S, q) /\ SumFunctionOnSet(g, S) = q[S]
  BY SumIsSum
<1>3. p[S] = q[S]
  BY <1>1, <1>2, SumsAgree
<1> QED BY <1>1, <1>2, <1>3

LEMMA SumType ==
  ASSUME NEW f, IsFiniteSet(DOMAIN f), \A x \in DOMAIN f : f[x] \in Int
  PROVE  SumFunction(f) \in Int
<1>1. SumFunctionOnSet(f, DOMAIN f) \in Int
  BY SumRemove
<1> QED BY <1>1 DEF SumFunction

LEMMA SumEmpty ==
  ASSUME NEW f, DOMAIN f = {}
  PROVE  SumFunction(f) = 0
<1>1. SumFunctionOnSet(f, {}) = 0
  BY SumStep, FS_EmptySet
<1> QED BY <1>1 DEF SumFunction

\* A sum over the rows of a table grows by what a new row adds.
THEOREM SumGrows ==
  ASSUME NEW T, IsFiniteSet(T), NEW x, x \notin T, NEW f, NEW g,
         DOMAIN f = T, DOMAIN g = T \cup {x},
         \A y \in T : g[y] = f[y] /\ f[y] \in Int, g[x] \in Int
  PROVE  SumFunction(f) \in Int /\ SumFunction(g) = SumFunction(f) + g[x]
<1>1. SumFunctionOnSet(f, T) \in Int
  BY SumRemove
<1>2. IsFiniteSet(T \cup {x}) /\ (T \cup {x}) \ {x} = T
  BY FS_AddElement
<1>3. SumFunctionOnSet(g, T \cup {x}) = g[x] + SumFunctionOnSet(g, T)
  <2> DEFINE U == T \cup {x}
  <2>1. x \in U /\ IsFiniteSet(U) /\ \A y \in U : g[y] \in Int
    BY <1>2
  <2> HIDE DEF U
  <2>2. SumFunctionOnSet(g, U) = g[x] + SumFunctionOnSet(g, U \ {x})
    BY <2>1, SumRemove
  <2> QED BY <1>2, <2>2 DEF U
<1>4. SumFunctionOnSet(g, T) = SumFunctionOnSet(f, T)
  BY SumSame
<1>5. SumFunction(f) = SumFunctionOnSet(f, T) /\ SumFunction(g) = SumFunctionOnSet(g, T \cup {x})
  BY DEF SumFunction
<1> QED BY <1>1, <1>2, <1>3, <1>4, <1>5

\* One more element is one more summand.
LEMMA SumAdd ==
  ASSUME NEW f, NEW S, IsFiniteSet(S), NEW x, x \notin S,
         \A y \in S \cup {x} : f[y] \in Int
  PROVE  /\ SumFunctionOnSet(f, S) \in Int
         /\ SumFunctionOnSet(f, S \cup {x}) = SumFunctionOnSet(f, S) + f[x]
<1> DEFINE U == S \cup {x}
<1>1. IsFiniteSet(U) /\ x \in U /\ U \ {x} = S /\ f[x] \in Int
  BY FS_AddElement
<1>2. SumFunctionOnSet(f, S) \in Int
  BY SumRemove
<1>3. SumFunctionOnSet(f, U) = f[x] + SumFunctionOnSet(f, U \ {x})
  <2>1. \A y \in U : f[y] \in Int
    OBVIOUS
  <2> HIDE DEF U
  <2> QED BY <1>1, <2>1, SumRemove
<1>4. SumFunctionOnSet(f, U) = SumFunctionOnSet(f, S) + f[x]
  <2> HIDE DEF U
  <2>1. SumFunctionOnSet(f, U) = f[x] + SumFunctionOnSet(f, S)
    BY <1>1, <1>3, Zenon
  <2>2. f[x] \in Int
    BY <1>1
  <2> QED BY ONLY <1>2, <2>1, <2>2
<1> QED BY <1>2, <1>4

\* What relates the terms of two sums relates the sums.
LEMMA SumLinear ==
  ASSUME NEW f, NEW g, NEW a \in Int, NEW b \in Int, NEW c \in Int, NEW S, IsFiniteSet(S),
         \A x \in S : f[x] \in Int /\ g[x] \in Int /\ a * f[x] <= b * g[x] + c
  PROVE  a * SumFunctionOnSet(f, S) <= b * SumFunctionOnSet(g, S) + c * Cardinality(S)
<1> DEFINE Good(T) == a * SumFunctionOnSet(f, T) <= b * SumFunctionOnSet(g, T) + c * Cardinality(T)
           K == {k \in Nat : \A T \in SUBSET S : Cardinality(T) = k => Good(T)}
<1>0. \A T \in SUBSET S : IsFiniteSet(T) /\ Cardinality(T) \in Nat
  BY FS_Subset, FS_CardinalityType
<1>1. 0 \in K
  <2>1. SUFFICES ASSUME NEW T \in SUBSET S, Cardinality(T) = 0 PROVE Good(T)
    OBVIOUS
  <2>2. T = {}
    BY <1>0, <2>1, FS_EmptySet
  <2>3. SumFunctionOnSet(f, T) = 0 /\ SumFunctionOnSet(g, T) = 0
    BY <2>2, FS_EmptySet, SumStep
  <2> QED BY <2>1, <2>3
<1>2. ASSUME NEW k \in Nat, k \in K PROVE k + 1 \in K
  <2>1. SUFFICES ASSUME NEW T \in SUBSET S, Cardinality(T) = k + 1 PROVE Good(T)
    OBVIOUS
  <2>2. PICK x : x \in T
    BY <1>0, <2>1, FS_EmptySet
  <2> DEFINE P == T \ {x}
             F == SumFunctionOnSet(f, P)
             G == SumFunctionOnSet(g, P)
  <2>3. P \in SUBSET S /\ Cardinality(P) = k
    <3>1. Cardinality(P) = Cardinality(T) - 1
      BY <1>0, <2>2, FS_RemoveElement
    <3> QED BY <2>1, <3>1
  <2>4. a * F <= b * G + c * k
    BY <1>2, <2>3
  <2>5. F \in Int /\ G \in Int
    BY <1>0, <2>3, SumRemove
  <2>6. SumFunctionOnSet(f, T) = f[x] + F /\ SumFunctionOnSet(g, T) = g[x] + G
    BY <1>0, <2>2, SumRemove
  <2>7. f[x] \in Int /\ g[x] \in Int /\ a * f[x] <= b * g[x] + c
    BY <2>2
  <2> HIDE DEF F, G
  <2>8. /\ a * (f[x] + F) = a * f[x] + a * F
        /\ b * (g[x] + G) = b * g[x] + b * G
        /\ c * (k + 1) = c * k + c
    BY <2>5, <2>7
  <2>9. /\ a * F \in Int /\ b * G \in Int /\ c * k \in Int
        /\ a * f[x] \in Int /\ b * g[x] \in Int
    BY <2>5, <2>7
  <2> QED BY <2>1, <2>4, <2>6, <2>7, <2>8, <2>9
<1> DEFINE n == Cardinality(S)
<1>3. n \in Nat /\ S \in SUBSET S
  BY <1>0
<1> HIDE DEF K
<1>4. n \in K
  BY <1>1, <1>2, <1>3, SetInduction
<1> QED BY <1>3, <1>4 DEF K

\* Sums add up term by term.
LEMMA SumPlus ==
  ASSUME NEW f, NEW g, NEW h, NEW S, IsFiniteSet(S),
         \A x \in S : f[x] \in Int /\ g[x] \in Int /\ h[x] = f[x] + g[x]
  PROVE  SumFunctionOnSet(h, S) = SumFunctionOnSet(f, S) + SumFunctionOnSet(g, S)
<1> DEFINE Good(T) == SumFunctionOnSet(h, T) = SumFunctionOnSet(f, T) + SumFunctionOnSet(g, T)
           K == {k \in Nat : \A T \in SUBSET S : Cardinality(T) = k => Good(T)}
<1>0. \A T \in SUBSET S : IsFiniteSet(T) /\ Cardinality(T) \in Nat
  BY FS_Subset, FS_CardinalityType
<1>1. 0 \in K
  <2>1. SUFFICES ASSUME NEW T \in SUBSET S, Cardinality(T) = 0 PROVE Good(T)
    OBVIOUS
  <2>2. T = {}
    BY <1>0, <2>1, FS_EmptySet
  <2>3. /\ SumFunctionOnSet(f, T) = 0 /\ SumFunctionOnSet(g, T) = 0
        /\ SumFunctionOnSet(h, T) = 0
    BY <2>2, FS_EmptySet, SumStep
  <2> QED BY <2>3
<1>2. ASSUME NEW k \in Nat, k \in K PROVE k + 1 \in K
  <2>1. SUFFICES ASSUME NEW T \in SUBSET S, Cardinality(T) = k + 1 PROVE Good(T)
    OBVIOUS
  <2>2. PICK x : x \in T
    BY <1>0, <2>1, FS_EmptySet
  <2> DEFINE P == T \ {x}
  <2>3. P \in SUBSET S /\ Cardinality(P) = k
    <3>1. Cardinality(P) = Cardinality(T) - 1
      BY <1>0, <2>2, FS_RemoveElement
    <3> QED BY <2>1, <3>1
  <2>4. Good(P)
    BY <1>2, <2>3
  <2>5. SumFunctionOnSet(f, P) \in Int /\ SumFunctionOnSet(g, P) \in Int
    BY <1>0, <2>3, SumRemove
  <2>6. /\ SumFunctionOnSet(f, T) = f[x] + SumFunctionOnSet(f, P)
        /\ SumFunctionOnSet(g, T) = g[x] + SumFunctionOnSet(g, P)
        /\ SumFunctionOnSet(h, T) = h[x] + SumFunctionOnSet(h, P)
    BY <1>0, <2>2, SumRemove
  <2>7. f[x] \in Int /\ g[x] \in Int /\ h[x] = f[x] + g[x]
    BY <2>2
  <2> HIDE DEF P
  <2> QED BY <2>4, <2>5, <2>6, <2>7
<1> DEFINE n == Cardinality(S)
<1>3. n \in Nat /\ S \in SUBSET S
  BY <1>0
<1> HIDE DEF K
<1>4. n \in K
  BY <1>1, <1>2, <1>3, SetInduction
<1> QED BY <1>3, <1>4 DEF K

\* A factor of every term is a factor of the sum.
LEMMA SumTimes ==
  ASSUME NEW f, NEW g, NEW a \in Int, NEW S, IsFiniteSet(S),
         \A x \in S : f[x] \in Int /\ g[x] \in Int /\ g[x] = a * f[x]
  PROVE  SumFunctionOnSet(g, S) = a * SumFunctionOnSet(f, S)
<1> DEFINE one == 1
           none == 0
           F == SumFunctionOnSet(f, S)
           G == SumFunctionOnSet(g, S)
<1>1. one \in Int /\ none \in Int /\ F \in Int /\ G \in Int /\ Cardinality(S) \in Nat
  BY SumRemove, FS_CardinalityType
<1>2. ASSUME NEW x \in S
      PROVE  /\ f[x] \in Int /\ g[x] \in Int
             /\ one * g[x] <= a * f[x] + none /\ a * f[x] <= one * g[x] + none
  <2>1. f[x] \in Int /\ g[x] \in Int /\ g[x] = a * f[x]
    OBVIOUS
  <2> QED BY <2>1
<1> HIDE DEF one, none
<1>3. one * G <= a * F + none * Cardinality(S) /\ a * F <= one * G + none * Cardinality(S)
  BY <1>1, <1>2, SumLinear
<1> HIDE DEF F, G
<1>4. one * G = G /\ none * Cardinality(S) = 0 /\ a * F \in Int
  BY <1>1 DEF one, none
<1>5. G = a * F
  BY <1>1, <1>3, <1>4
<1> QED BY <1>5 DEF F, G

\* A mix of sums is the sum of the mixes.
LEMMA SumMix ==
  ASSUME NEW f, NEW g, NEW h, NEW a \in Int, NEW b \in Int, NEW c \in Int, NEW S, IsFiniteSet(S),
         \A x \in S : /\ f[x] \in Int /\ g[x] \in Int /\ h[x] \in Int
                      /\ a * h[x] = b * f[x] + c * g[x]
  PROVE  a * SumFunctionOnSet(h, S) = b * SumFunctionOnSet(f, S) + c * SumFunctionOnSet(g, S)
<1> DEFINE u == [x \in S |-> a * h[x]]
           v == [x \in S |-> b * f[x]]
           w == [x \in S |-> c * g[x]]
<1>1. \A x \in S : /\ u[x] \in Int /\ u[x] = a * h[x]
                   /\ v[x] \in Int /\ v[x] = b * f[x]
                   /\ w[x] \in Int /\ w[x] = c * g[x]
  OBVIOUS
<1>2. \A x \in S : u[x] = v[x] + w[x]
  BY <1>1
<1> HIDE DEF u, v, w
<1>3. SumFunctionOnSet(u, S) = a * SumFunctionOnSet(h, S)
  BY <1>1, SumTimes
<1>4. SumFunctionOnSet(v, S) = b * SumFunctionOnSet(f, S)
  BY <1>1, SumTimes
<1>5. SumFunctionOnSet(w, S) = c * SumFunctionOnSet(g, S)
  BY <1>1, SumTimes
<1>6. SumFunctionOnSet(u, S) = SumFunctionOnSet(v, S) + SumFunctionOnSet(w, S)
  BY <1>1, <1>2, SumPlus
<1> QED BY <1>3, <1>4, <1>5, <1>6

\* Of two sums, the one with the smaller terms is the smaller.
LEMMA SumLess ==
  ASSUME NEW f, NEW g, NEW S, IsFiniteSet(S),
         \A x \in S : f[x] \in Int /\ g[x] \in Int /\ f[x] <= g[x]
  PROVE  SumFunctionOnSet(f, S) <= SumFunctionOnSet(g, S)
<1> DEFINE one == 1
           none == 0
           F == SumFunctionOnSet(f, S)
           G == SumFunctionOnSet(g, S)
<1>1. one \in Int /\ none \in Int /\ F \in Int /\ G \in Int /\ Cardinality(S) \in Nat
  BY SumRemove, FS_CardinalityType
<1>2. \A x \in S : f[x] \in Int /\ g[x] \in Int /\ one * f[x] <= one * g[x] + none
  OBVIOUS
<1> HIDE DEF one, none
<1>3. one * F <= one * G + none * Cardinality(S)
  BY <1>1, <1>2, SumLinear
<1> HIDE DEF F, G
<1>4. one * F = F /\ one * G = G /\ none * Cardinality(S) = 0
  BY <1>1 DEF one, none
<1>5. F <= G
  BY <1>1, <1>3, <1>4
<1> QED BY <1>5 DEF F, G

\* A sum of naturals over a part is at most the sum over all.
LEMMA SumPart ==
  ASSUME NEW f, NEW S, IsFiniteSet(S), \A x \in S : f[x] \in Nat, NEW T \in SUBSET S
  PROVE  SumFunctionOnSet(f, T) <= SumFunctionOnSet(f, S)
<1> DEFINE K == {k \in Nat : \A R \in SUBSET S :
                   T \subseteq R /\ Cardinality(R) = k
                     => SumFunctionOnSet(f, T) <= SumFunctionOnSet(f, R)}
<1>0. \A R \in SUBSET S : IsFiniteSet(R) /\ Cardinality(R) \in Nat
  BY FS_Subset, FS_CardinalityType
<1>1. 0 \in K
  <2>1. SUFFICES ASSUME NEW R \in SUBSET S, T \subseteq R, Cardinality(R) = 0
                 PROVE  SumFunctionOnSet(f, T) <= SumFunctionOnSet(f, R)
    OBVIOUS
  <2>2. R = {} /\ T = R
    BY <1>0, <2>1, FS_EmptySet
  <2>3. SumFunctionOnSet(f, T) = 0
    BY <2>2, FS_EmptySet, SumStep
  <2> QED BY <2>2, <2>3
<1>2. ASSUME NEW k \in Nat, k \in K PROVE k + 1 \in K
  <2>1. SUFFICES ASSUME NEW R \in SUBSET S, T \subseteq R, Cardinality(R) = k + 1
                 PROVE  SumFunctionOnSet(f, T) <= SumFunctionOnSet(f, R)
    OBVIOUS
  <2>2. SumFunctionOnSet(f, T) \in Int
    BY <1>0, SumRemove
  <2>3. CASE R = T
    BY <2>2, <2>3
  <2>4. CASE R # T
    <3>1. PICK x \in R : x \notin T
      BY <2>1, <2>4
    <3> DEFINE P == R \ {x}
    <3>2. P \in SUBSET S /\ T \subseteq P /\ Cardinality(P) = k
      <4>1. Cardinality(P) = Cardinality(R) - 1
        BY <1>0, <3>1, FS_RemoveElement
      <4> QED BY <2>1, <3>1, <4>1
    <3>3. SumFunctionOnSet(f, T) <= SumFunctionOnSet(f, P)
      BY <1>2, <3>2
    <3>4. SumFunctionOnSet(f, P) \in Int
      BY <1>0, <3>2, SumRemove
    <3>5. SumFunctionOnSet(f, R) = f[x] + SumFunctionOnSet(f, P)
      BY <1>0, <3>1, SumRemove
    <3>6. f[x] \in Nat
      BY <3>1
    <3> HIDE DEF P
    <3> QED BY <2>2, <3>3, <3>4, <3>5, <3>6
  <2> QED BY <2>3, <2>4
<1> DEFINE n == Cardinality(S)
<1>3. n \in Nat /\ S \in SUBSET S
  BY <1>0
<1> HIDE DEF K
<1>4. n \in K
  BY <1>1, <1>2, <1>3, SetInduction
<1> QED BY <1>3, <1>4 DEF K

\* A non-empty finite set has an element with the highest value.
LEMMA HighestExists ==
  ASSUME NEW v, NEW S, IsFiniteSet(S), S # {}, \A x \in S : v[x] \in Int
  PROVE  \E x \in S : \A y \in S : v[y] <= v[x]
<1> DEFINE K == {k \in Nat : \A T \in SUBSET S :
                   T # {} /\ Cardinality(T) = k => \E x \in T : \A y \in T : v[y] <= v[x]}
<1>0. \A T \in SUBSET S : IsFiniteSet(T) /\ Cardinality(T) \in Nat
  BY FS_Subset, FS_CardinalityType
<1>1. 0 \in K
  BY <1>0, FS_EmptySet
<1>2. ASSUME NEW k \in Nat, k \in K PROVE k + 1 \in K
  <2>1. SUFFICES ASSUME NEW T \in SUBSET S, T # {}, Cardinality(T) = k + 1
                 PROVE  \E x \in T : \A y \in T : v[y] <= v[x]
    OBVIOUS
  <2>2. PICK z : z \in T
    BY <2>1
  <2> DEFINE P == T \ {z}
  <2>3. P \in SUBSET S /\ Cardinality(P) = k
    <3>1. IsFiniteSet(T)
      BY <1>0
    <3>2. Cardinality(P) = Cardinality(T) - 1
      BY <2>2, <3>1, FS_RemoveElement
    <3> QED BY <2>1, <3>2
  <2>4. CASE P = {}
    BY <2>2, <2>4
  <2>5. CASE P # {}
    <3>1. PICK x \in P : \A y \in P : v[y] <= v[x]
      BY <1>2, <2>3, <2>5
    <3>2. v[x] \in Int /\ v[z] \in Int /\ \A y \in P : v[y] \in Int
      BY <2>2, <3>1
    <3>3. CASE v[z] <= v[x]
      BY <2>2, <3>1, <3>3
    <3>4. CASE ~(v[z] <= v[x])
      <4>1. \A y \in T : v[y] <= v[z]
        BY <3>1, <3>2, <3>4
      <4> QED BY <2>2, <4>1
    <3> QED BY <3>3, <3>4
  <2> QED BY <2>4, <2>5
<1> DEFINE n == Cardinality(S)
<1>3. n \in Nat /\ S \in SUBSET S
  BY <1>0
<1> HIDE DEF K
<1>4. n \in K
  BY <1>1, <1>2, <1>3, SetInduction
<1> QED BY <1>3, <1>4 DEF K

-----------------------------------------------------------------------------
(* The first in an order *)

\* A non-empty set of users has one that comes first in the settlement order:
\* highest value first, lowest id on a tie.
LEMMA TopExists ==
  ASSUME NEW n \in Nat, NEW f, \A u \in 1..n : f[u] \in Nat,
         NEW C, C \subseteq 1..n, C # {}
  PROVE  \E w \in C : \A u \in C : f[w] > f[u] \/ (f[w] = f[u] /\ w <= u)
<1> DEFINE Top(w, D) == \A u \in D : f[w] > f[u] \/ (f[w] = f[u] /\ w <= u)
           Upto(k) == C \cap 1..k
           S == {k \in Nat : Upto(k) # {} => \E w \in Upto(k) : Top(w, Upto(k))}
<1>1. 0 \in S
  OBVIOUS
<1>2. ASSUME NEW k \in Nat, k \in S PROVE k + 1 \in S
  <2>1. CASE k + 1 \notin C
    <3>1. Upto(k + 1) = Upto(k)
      BY <2>1
    <3> QED BY <1>2, <3>1
  <2>2. CASE k + 1 \in C /\ Upto(k) = {}
    <3>1. Upto(k + 1) = {k + 1}
      BY <2>2
    <3>2. Top(k + 1, {k + 1})
      BY <2>2
    <3> QED BY <3>1, <3>2
  <2>3. CASE k + 1 \in C /\ Upto(k) # {}
    <3>1. PICK w \in Upto(k) : Top(w, Upto(k))
      BY <1>2, <2>3
    <3>2. Upto(k + 1) = Upto(k) \cup {k + 1}
      BY <2>3
    <3>3. w \in 1..n /\ k + 1 \in 1..n /\ w <= k
      BY <2>3
    <3>4. f[w] \in Nat /\ f[k + 1] \in Nat /\ \A u \in Upto(k) : f[u] \in Nat
      BY <3>3
    <3>5. CASE f[k + 1] > f[w]
      <4>1. Top(k + 1, Upto(k + 1))
        <5> SUFFICES ASSUME NEW u \in Upto(k + 1)
                     PROVE  f[k + 1] > f[u] \/ (f[k + 1] = f[u] /\ k + 1 <= u)
          OBVIOUS
        <5>1. CASE u = k + 1
          BY <3>4, <5>1
        <5>2. CASE u \in Upto(k)
          BY <3>1, <3>4, <3>5, <5>2
        <5> QED BY <3>2, <5>1, <5>2
      <4> QED BY <2>3, <3>2, <4>1
    <3>6. CASE ~(f[k + 1] > f[w])
      <4>1. Top(w, Upto(k + 1))
        <5> SUFFICES ASSUME NEW u \in Upto(k + 1)
                     PROVE  f[w] > f[u] \/ (f[w] = f[u] /\ w <= u)
          OBVIOUS
        <5>1. CASE u = k + 1
          BY <3>3, <3>4, <3>6, <5>1
        <5>2. CASE u \in Upto(k)
          BY <3>1, <5>2
        <5> QED BY <3>2, <5>1, <5>2
      <4> QED BY <3>2, <4>1
    <3> QED BY <3>5, <3>6
  <2> QED BY <2>1, <2>2, <2>3
<1>3. n \in S
  <2> HIDE DEF S
  <2> QED BY <1>1, <1>2, SetInduction
<1>4. Upto(n) = C
  OBVIOUS
<1> QED BY <1>3, <1>4
=============================================================================
