------------------------ MODULE RequestLimitsProofs ------------------------
(***************************************************************************)
(* What holds of the sliding windows for any number of users, addresses,   *)
(* route types and windows, and any limits.                                *)
(***************************************************************************)
EXTENDS RequestLimits, ArithmeticProofs

History == [Ages -> Nat]
Entries == [Types -> [Subjects -> History]]

Typed == log \in Entries /\ passed \in Entries

\* Every request that got through is on record, for its user and its address.
NothingUnrecorded ==
  \A t \in Types, k \in Subjects : \A a \in Ages : passed[t][k][a] <= log[t][k][a]

\* What is on record never exceeds a limit, answered or not.
RecordsFit ==
  \A t \in Types, k \in Subjects : \A w \in DOMAIN Limits(t, k) :
    Count(log[t][k], w) <= Limits(t, k)[w]

Inv == Typed /\ NothingUnrecorded /\ RecordsFit

-----------------------------------------------------------------------------
(* Windows and limits *)

LEMMA AgesFit == Expiry \in Nat /\ Expiry > 0 /\ 0 \in Ages
BY LimitsAssumption DEF Ages

LEMMA LimitsFit ==
  ASSUME NEW t \in Types, NEW k \in Subjects, NEW w \in DOMAIN Limits(t, k)
  PROVE  w \in 1..Expiry /\ Limits(t, k)[w] \in Nat /\ Limits(t, k)[w] > 0
<1>1. Limits(t, k) \in {UserLimit[t], IpLimit[t]}
  BY DEF Limits
<1> QED
  BY <1>1, LimitsAssumption

\* A limit is tightened, never loosened.
LEMMA TightenedFits ==
  ASSUME NEW n \in Nat, n > 0
  PROVE  Tightened(n) \in Nat /\ Tightened(n) <= n
BY DEF Tightened

LEMMA CountType ==
  ASSUME NEW e \in History, NEW w \in 1..Expiry
  PROVE  Count(e, w) \in Nat
<1> DEFINE f == [n \in 1..w |-> e[n - 1]]
<1>1. w \in Nat /\ \A n \in 1..w : f[n] \in Nat
  BY AgesFit DEF History, Ages
<1> HIDE DEF f
<1>2. \A n \in 1..w : f[n] \in Int /\ f[n] >= 0
  BY <1>1
<1>3. Total(f, w) \in Int /\ Total(f, w) >= 0
  BY <1>1, <1>2, TotalType
<1> QED
  BY <1>3 DEF Count, f

\* One request more is one more in every window.
LEMMA CountPlus ==
  ASSUME NEW e \in History, NEW d \in History, NEW w \in 1..Expiry,
         d[0] = e[0] + 1, \A a \in Ages : a # 0 => d[a] = e[a]
  PROVE  Count(d, w) = Count(e, w) + 1
<1> DEFINE f == [n \in 1..w |-> e[n - 1]]
           g == [n \in 1..w |-> d[n - 1]]
<1>1. /\ w \in Nat /\ 1 \in 1..w
      /\ \A n \in 1..w : f[n] \in Int
      /\ \A n \in 1..w : g[n] = IF n = 1 THEN f[n] + 1 ELSE f[n]
  BY AgesFit DEF History, Ages
<1> HIDE DEF f, g
<1>2. Total(g, w) = Total(f, w) + 1
  BY <1>1, TotalUpdate
<1> QED
  BY <1>2 DEF Count, f, g

\* Fewer requests of every age are fewer in every window.
LEMMA CountMonotone ==
  ASSUME NEW e \in History, NEW d \in History, NEW w \in 1..Expiry,
         \A a \in Ages : d[a] <= e[a]
  PROVE  Count(d, w) <= Count(e, w)
<1> DEFINE f == [n \in 1..w |-> e[n - 1]]
           g == [n \in 1..w |-> d[n - 1]]
<1>1. w \in Nat /\ \A n \in 1..w : g[n] \in Int /\ f[n] \in Int /\ g[n] <= f[n]
  BY AgesFit DEF History, Ages
<1> HIDE DEF f, g
<1>2. Total(g, w) <= Total(f, w)
  BY <1>1, TotalMonotone
<1> QED
  BY <1>2 DEF Count, f, g

\* A tick brings no request into a window.
LEMMA CountOlder ==
  ASSUME NEW e \in History, NEW d \in History, NEW w \in 1..Expiry,
         d[0] = 0, \A a \in Ages : a # 0 => d[a] <= e[a - 1]
  PROVE  Count(d, w) <= Count(e, w)
<1> DEFINE f == [n \in 1..w |-> e[n - 1]]
           g == [n \in 1..w |-> d[n - 1]]
<1>1. /\ w \in Nat /\ w > 0 /\ g[1] = 0
      /\ \A n \in 1..w : g[n] \in Nat /\ f[n] \in Nat
      /\ \A n \in 1..(w - 1) : g[n + 1] <= f[n]
  BY AgesFit DEF History, Ages
<1> HIDE DEF f, g
<1>2. Total(g, w) <= Total(f, w)
  BY <1>1, TotalShifted
<1> QED
  BY <1>2 DEF Count, f, g

-----------------------------------------------------------------------------
(* Recording a request *)

LEMMA PlusIs ==
  ASSUME NEW f \in Entries, NEW t \in Types, NEW S \in SUBSET Subjects
  PROVE  /\ Plus(f, t, S) \in Entries
         /\ \A s \in Types, k \in Subjects : \A a \in Ages :
              Plus(f, t, S)[s][k][a] =
                IF s = t /\ k \in S /\ a = 0 THEN f[s][k][a] + 1 ELSE f[s][k][a]
BY AgesFit DEF Plus, Entries, History

\* Under a tightened limit there is room only if there is room under the limit.
LEMMA RoomIsRoom ==
  ASSUME Typed, NEW t \in Types, NEW k \in Subjects, NEW tight, ~Full(t, k, tight),
         NEW w \in DOMAIN Limits(t, k)
  PROVE  Count(log[t][k], w) < Limits(t, k)[w]
<1> DEFINE limit == IF tight THEN Tightened(Limits(t, k)[w]) ELSE Limits(t, k)[w]
<1>1. limit \in Nat /\ limit <= Limits(t, k)[w]
  BY LimitsFit, TightenedFits
<1>2. Count(log[t][k], w) \in Nat
  BY LimitsFit, CountType DEF Typed, Entries
<1>3. ~Saturated(Count(log[t][k], w), limit)
  BY DEF Full
<1> HIDE DEF limit
<1> QED
  BY <1>1, <1>2, <1>3, LimitsFit DEF Saturated

LEMMA AdmitsLoosely ==
  ASSUME Typed, NEW t \in Types, NEW u \in Users, NEW i \in Ips, NEW tight,
         Admits(t, u, i, tight)
  PROVE  Admits(t, u, i, FALSE)
<1>1. ASSUME NEW k \in {u, i} PROVE ~Full(t, k, FALSE)
  <2> SUFFICES ASSUME NEW w \in DOMAIN Limits(t, k)
               PROVE  ~Saturated(Count(log[t][k], w), Limits(t, k)[w])
    BY DEF Full
  <2>1. Count(log[t][k], w) < Limits(t, k)[w]
    BY RoomIsRoom DEF Admits, Subjects
  <2>2. Count(log[t][k], w) \in Nat /\ Limits(t, k)[w] \in Nat
    BY LimitsFit, CountType DEF Typed, Entries, Subjects
  <2> QED
    BY <2>1, <2>2 DEF Saturated
<1> QED
  BY <1>1 DEF Admits

\* What a step of the limiter does to the two histories.
LEMMA LimitedDoes ==
  ASSUME NEW t, NEW u, NEW i, NEW access, NEW tight, Limited(t, u, i, access, tight)
  PROVE  \/ log' = log /\ passed' = passed
         \/ /\ Admits(t, u, i, tight) /\ log' = Plus(log, t, {u, i})
            /\ passed' = passed \/ passed' = Plus(passed, t, {u, i})
BY DEF Limited, Recorded, OpenWhenDown

LEMMA LimitedInv ==
  ASSUME Inv, NEW t \in Types, NEW u \in Users, NEW i \in Ips, NEW access, NEW tight,
         Limited(t, u, i, access, tight)
  PROVE  Inv'
<1> DEFINE S == {u, i}
<1>1. S \in SUBSET Subjects /\ Typed
  BY DEF Subjects, Inv
<1>2. CASE log' = log /\ passed' = passed
  BY <1>2 DEF Inv, Typed, NothingUnrecorded, RecordsFit, Count
<1>3. CASE /\ Admits(t, u, i, tight) /\ log' = Plus(log, t, S)
           /\ passed' = passed \/ passed' = Plus(passed, t, S)
  <2>1. /\ log' \in Entries
        /\ \A s \in Types, k \in Subjects : \A a \in Ages :
             log'[s][k][a] = IF s = t /\ k \in S /\ a = 0 THEN log[s][k][a] + 1 ELSE log[s][k][a]
    BY <1>1, <1>3, PlusIs DEF Typed
  <2>2. /\ passed' \in Entries
        /\ \A s \in Types, k \in Subjects : \A a \in Ages :
             \/ passed'[s][k][a] = passed[s][k][a]
             \/ s = t /\ k \in S /\ a = 0 /\ passed'[s][k][a] = passed[s][k][a] + 1
    <3>1. CASE passed' = passed
      BY <1>1, <3>1 DEF Typed
    <3>2. CASE passed' = Plus(passed, t, S)
      BY <1>1, <3>2, PlusIs DEF Typed
    <3> QED
      BY <1>3, <3>1, <3>2
  <2>3. NothingUnrecorded'
    <3> SUFFICES ASSUME NEW s \in Types, NEW k \in Subjects, NEW a \in Ages
                 PROVE  passed'[s][k][a] <= log'[s][k][a]
      BY DEF NothingUnrecorded
    <3>1. passed[s][k][a] \in Nat /\ log[s][k][a] \in Nat
      BY <1>1 DEF Typed, Entries, History
    <3>2. passed[s][k][a] <= log[s][k][a]
      BY DEF Inv, NothingUnrecorded
    <3> QED
      BY <2>1, <2>2, <3>1, <3>2
  <2>4. RecordsFit'
    <3> SUFFICES ASSUME NEW s \in Types, NEW k \in Subjects, NEW w \in DOMAIN Limits(s, k)
                 PROVE  Count(log'[s][k], w) <= Limits(s, k)[w]
      BY DEF RecordsFit, Count
    <3>1. log[s][k] \in History /\ log'[s][k] \in History
      BY <1>1, <2>1 DEF Typed, Entries
    <3>2. Count(log[s][k], w) \in Nat /\ Limits(s, k)[w] \in Nat /\ w \in 1..Expiry
      BY <3>1, LimitsFit, CountType
    <3>3. CASE s = t /\ k \in S
      <4>1. Count(log[s][k], w) < Limits(s, k)[w]
        BY <1>1, <1>3, <3>3, RoomIsRoom DEF Admits
      <4>2. Count(log'[s][k], w) = Count(log[s][k], w) + 1
        BY <2>1, <3>1, <3>2, <3>3, AgesFit, CountPlus
      <4> QED
        BY <3>2, <4>1, <4>2
    <3>4. CASE ~(s = t /\ k \in S)
      <4>1. log'[s][k] = log[s][k]
        BY <2>1, <3>1, <3>4 DEF History
      <4> QED
        BY <4>1 DEF Inv, RecordsFit
    <3> QED
      BY <3>3, <3>4
  <2> QED
    BY <2>1, <2>2, <2>3, <2>4 DEF Inv, Typed
<1> QED
  BY <1>2, <1>3, LimitedDoes

-----------------------------------------------------------------------------
(* Time *)

LEMMA OlderIs ==
  ASSUME NEW f \in Entries
  PROVE  /\ Older(f) \in Entries
         /\ \A t \in Types, k \in Subjects :
              /\ Older(f)[t][k][0] = 0
              /\ \A a \in Ages : a # 0 =>
                   Older(f)[t][k][a] = IF InWindow(t, k, a) THEN f[t][k][a - 1] ELSE 0
<1>1. \A a \in Ages : a # 0 => a > 0 /\ a - 1 \in Ages
  BY AgesFit DEF Ages
<1>2. ~(0 > 0)
  OBVIOUS
<1>3. ASSUME NEW t \in Types, NEW k \in Subjects
      PROVE  /\ Older(f)[t][k] = [a \in Ages |-> IF a > 0 /\ InWindow(t, k, a)
                                                 THEN f[t][k][a - 1] ELSE 0]
             /\ Older(f)[t][k] \in History
             /\ Older(f)[t][k][0] = 0
             /\ \A a \in Ages : a # 0 =>
                  Older(f)[t][k][a] = IF InWindow(t, k, a) THEN f[t][k][a - 1] ELSE 0
  <2>1. Older(f)[t][k] = [a \in Ages |-> IF a > 0 /\ InWindow(t, k, a)
                                         THEN f[t][k][a - 1] ELSE 0]
    BY DEF Older
  <2>2. \A a \in Ages : f[t][k][a] \in Nat
    BY DEF Entries, History
  <2>3. ASSUME NEW a \in Ages
        PROVE  (IF a > 0 /\ InWindow(t, k, a) THEN f[t][k][a - 1] ELSE 0) \in Nat
    <3>1. CASE a > 0 /\ InWindow(t, k, a)
      BY <1>1, <2>2, <3>1
    <3>2. CASE ~(a > 0 /\ InWindow(t, k, a))
      BY <3>2
    <3> QED
      BY <3>1, <3>2
  <2>4. Older(f)[t][k] \in History
    BY <2>1, <2>3 DEF History
  <2>5. Older(f)[t][k][0] = 0
    BY <1>2, <2>1, AgesFit
  <2> QED
    BY <1>1, <2>1, <2>4, <2>5
<1>4. Older(f) = [t \in Types |-> [k \in Subjects |-> Older(f)[t][k]]]
  BY DEF Older
<1>5. Older(f) \in Entries
  BY <1>3, <1>4 DEF Entries
<1> QED
  BY <1>3, <1>5

LEMMA TickInv ==
  ASSUME Inv, Tick
  PROVE  Inv'
<1>1. log' = Older(log) /\ passed' = Older(passed) /\ Typed
  BY DEF Tick, Inv
<1>2. Typed'
  BY <1>1, OlderIs DEF Typed
<1>3. NothingUnrecorded'
  <2> SUFFICES ASSUME NEW t \in Types, NEW k \in Subjects, NEW a \in Ages
               PROVE  passed'[t][k][a] <= log'[t][k][a]
    BY DEF NothingUnrecorded
  <2>1. CASE a = 0
    BY <1>1, <2>1, OlderIs DEF Typed
  <2>2. CASE a # 0
    <3>1. a - 1 \in Ages
      BY <2>2, AgesFit DEF Ages
    <3>2. passed[t][k][a - 1] <= log[t][k][a - 1]
      BY <3>1 DEF Inv, NothingUnrecorded
    <3>3. /\ passed'[t][k][a] = IF InWindow(t, k, a) THEN passed[t][k][a - 1] ELSE 0
          /\ log'[t][k][a] = IF InWindow(t, k, a) THEN log[t][k][a - 1] ELSE 0
      BY <1>1, <2>2, OlderIs DEF Typed
    <3> QED
      BY <3>2, <3>3
  <2> QED
    BY <2>1, <2>2
<1>4. RecordsFit'
  <2> SUFFICES ASSUME NEW t \in Types, NEW k \in Subjects, NEW w \in DOMAIN Limits(t, k)
               PROVE  Count(log'[t][k], w) <= Limits(t, k)[w]
    BY DEF RecordsFit, Count
  <2>1. log[t][k] \in History /\ log'[t][k] \in History /\ w \in 1..Expiry
    BY <1>1, <1>2, LimitsFit DEF Typed, Entries
  <2>2. log'[t][k][0] = 0
    BY <1>1, OlderIs DEF Typed
  <2>3. ASSUME NEW a \in Ages, a # 0 PROVE log'[t][k][a] <= log[t][k][a - 1]
    <3>1. log[t][k][a - 1] \in Nat
      BY <2>1, <2>3, AgesFit DEF History, Ages
    <3>2. log'[t][k][a] = IF InWindow(t, k, a) THEN log[t][k][a - 1] ELSE 0
      BY <1>1, <2>3, OlderIs DEF Typed
    <3> QED
      BY <3>1, <3>2
  <2>4. Count(log'[t][k], w) <= Count(log[t][k], w)
    BY <2>1, <2>2, <2>3, CountOlder
  <2>5. Count(log[t][k], w) <= Limits(t, k)[w]
    BY DEF Inv, RecordsFit
  <2>6. /\ Count(log'[t][k], w) \in Nat /\ Count(log[t][k], w) \in Nat
        /\ Limits(t, k)[w] \in Nat
    BY <2>1, CountType, LimitsFit
  <2> QED
    BY <2>4, <2>5, <2>6
<1> QED
  BY <1>2, <1>3, <1>4 DEF Inv

-----------------------------------------------------------------------------
LEMMA InitInv == Init => Inv
<1> SUFFICES ASSUME Init PROVE Inv
  OBVIOUS
<1>1. log = [t \in Types |-> [k \in Subjects |-> [a \in Ages |-> 0]]] /\ passed = log
  BY DEF Init
<1>2. Typed
  BY <1>1 DEF Typed, Entries, History
<1>3. NothingUnrecorded
  BY <1>1 DEF NothingUnrecorded
<1>4. ASSUME NEW t \in Types, NEW k \in Subjects, NEW w \in DOMAIN Limits(t, k)
      PROVE  Count(log[t][k], w) <= Limits(t, k)[w]
  <2> DEFINE f == [n \in 1..w |-> log[t][k][n - 1]]
  <2>1. w \in Nat /\ \A n \in 1..w : f[n] = 0
    BY <1>1, LimitsFit, AgesFit DEF Ages
  <2> HIDE DEF f
  <2>2. Total(f, w) = 0
    BY <2>1, TotalZero
  <2> QED
    BY <2>2, LimitsFit DEF Count, f
<1> QED
  BY <1>2, <1>3, <1>4 DEF Inv, RecordsFit

\* The steps of Next that may change a history.
LEMMA Steps ==
  ASSUME [Next]_vars
  PROVE  \/ \E t \in Types, u \in Users, i \in Ips : \E access, tight :
              Limited(t, u, i, access, tight)
         \/ Tick
         \/ UNCHANGED <<log, passed>>
<1>1. ASSUME NEW t \in Types, NEW u \in Users, NEW i \in Ips, NEW access \in Access[t],
             PlainRequest(t, u, i, access) \/ WatchedRequest(t, u, i, access)
      PROVE  (\E tight : Limited(t, u, i, access, tight)) \/ UNCHANGED <<log, passed>>
  BY <1>1 DEF PlainRequest, WatchedRequest
<1>2. CASE \/ \E u \in Users : GrowsUp(u)
           \/ \E i \in Ips : Forget(i)
           \/ RedisFails \/ RedisRecovers \/ UNCHANGED vars
  BY <1>2 DEF GrowsUp, Forget, RedisFails, RedisRecovers, vars
<1> QED
  BY <1>1, <1>2 DEF Next

LEMMA NextInv == Inv /\ [Next]_vars => Inv'
<1> SUFFICES ASSUME Inv, [Next]_vars PROVE Inv'
  OBVIOUS
<1>1. CASE UNCHANGED <<log, passed>>
  BY <1>1 DEF Inv, Typed, NothingUnrecorded, RecordsFit, Count
<1> QED
  BY <1>1, LimitedInv, TickInv, Steps

LEMMA InvHolds == Spec => []Inv
BY InitInv, NextInv, PTL DEF Spec

\* No window of a user or an address ever lets more requests through than its limit
\* (COMBINED_SLIDING_WINDOW_SCRIPT, degradedResult), with any outages and lost answers.
THEOREM LimitsHold == Spec => []WindowNeverExceeded
<1>1. Inv => WindowNeverExceeded
  <2> SUFFICES ASSUME Inv, NEW t \in Types, NEW k \in Subjects, NEW w \in DOMAIN Limits(t, k)
               PROVE  Count(passed[t][k], w) <= Limits(t, k)[w]
    BY DEF WindowNeverExceeded
  <2>1. passed[t][k] \in History /\ log[t][k] \in History /\ w \in 1..Expiry
    BY LimitsFit DEF Inv, Typed, Entries
  <2>2. Count(passed[t][k], w) <= Count(log[t][k], w)
    BY <2>1, CountMonotone DEF Inv, NothingUnrecorded
  <2>3. Count(log[t][k], w) <= Limits(t, k)[w]
    BY DEF Inv, RecordsFit
  <2>4. /\ Count(passed[t][k], w) \in Nat /\ Count(log[t][k], w) \in Nat
        /\ Limits(t, k)[w] \in Nat
    BY <2>1, CountType, LimitsFit
  <2> QED
    BY <2>2, <2>3, <2>4
<1> QED
  BY <1>1, InvHolds, PTL

\* A request is charged to its user and its address, or to nobody
\* (COMBINED_SLIDING_WINDOW_SCRIPT).
THEOREM RefusalsCostNothing == Spec => RefusalsAreFree
<1> DEFINE Charged(t) == {k \in Subjects : log'[t][k][0] > log[t][k][0]}
           Fair(t) == Charged(t) # {} => \E u \in Users, i \in Ips :
                        Charged(t) = {u, i} /\ Admits(t, u, i, FALSE)
<1>1. Inv /\ [Next]_vars => [\A t \in Types : Fair(t)]_vars
  <2> SUFFICES ASSUME Inv, [Next]_vars, NEW t \in Types PROVE Fair(t)
    OBVIOUS
  <2>1. \A k \in Subjects : log[t][k][0] \in Nat
    BY AgesFit DEF Inv, Typed, Entries, History
  <2>2. CASE UNCHANGED <<log, passed>>
    BY <2>1, <2>2
  <2>3. CASE Tick
    <3>1. \A k \in Subjects : log'[t][k][0] = 0
      BY <2>3, OlderIs DEF Tick, Inv, Typed
    <3> QED
      BY <2>1, <3>1
  <2>4. ASSUME NEW s \in Types, NEW u \in Users, NEW i \in Ips, NEW access, NEW tight,
               Limited(s, u, i, access, tight)
        PROVE  Fair(t)
    <3>1. CASE log' = log
      BY <2>1, <3>1
    <3>2. CASE Admits(s, u, i, tight) /\ log' = Plus(log, s, {u, i})
      <4>1. {u, i} \in SUBSET Subjects /\ Typed
        BY DEF Subjects, Inv
      <4>2. \A k \in Subjects :
              log'[t][k][0] = IF t = s /\ k \in {u, i} THEN log[t][k][0] + 1 ELSE log[t][k][0]
        BY <3>2, <4>1, AgesFit, PlusIs DEF Typed
      <4>3. Charged(t) = IF t = s THEN {u, i} ELSE {}
        BY <2>1, <4>1, <4>2
      <4>4. Admits(s, u, i, FALSE)
        BY <3>2, <4>1, AdmitsLoosely
      <4> QED
        BY <4>3, <4>4
    <3>3. log' = log \/ (Admits(s, u, i, tight) /\ log' = Plus(log, s, {u, i}))
      BY <2>4, LimitedDoes
    <3> QED
      BY <3>1, <3>2, <3>3
  <2> QED
    BY <2>2, <2>3, <2>4, Steps
<1> QED
  BY <1>1, InvHolds, PTL DEF Spec, RefusalsAreFree

-----------------------------------------------------------------------------
(* The bot detector *)

LEMMA TwoMembers ==
  ASSUME NEW S \in SUBSET (1..5), NEW m \in S, NEW n \in S, m # n
  PROVE  Cardinality(S) >= 2
<1>1. IsFiniteSet(1..5)
  <2>1. 1 \in Int /\ 5 \in Int
    OBVIOUS
  <2> QED
    BY <2>1, FS_Interval, Zenon
<1>2. IsFiniteSet(S) /\ Cardinality(S) \in Nat
  BY <1>1, FS_Subset, FS_CardinalityType
<1>3. Cardinality(S) # 0 /\ Cardinality(S) # 1
  BY <1>2, FS_EmptySet, FS_Singleton
<1> QED
  BY <1>2, <1>3

\* Whatever the counters of the detector say, the scores are these.
LEMMA SignsAre ==
  ASSUME NEW u \in Users, NEW i \in Ips, NEW signs \in Signs(u, i)
  PROVE  /\ DOMAIN signs = 1..5
         /\ signs[1] \in {0, 4, 8, 10} /\ signs[2] \in {0, 4, 5} /\ signs[3] \in {0, 3, 5}
         /\ signs[4] \in {0, 6} /\ signs[5] \in {0, 3, 4}
<1>1. \A agent \in Agents : AgentScore(agent) \in {0, 4, 8, 10}
  BY DEF Agents, AgentScore
<1>2. Heard(TimingScore(u)) \subseteq {0, 4, 5}
  BY DEF Heard, TimingScore
<1>3. AccountScores(u) \subseteq {0, 3, 5} /\ Heard(IpScore(i, u)) \subseteq {0, 6}
  BY DEF Heard, AccountScores, NotOnRecord, IpScore
<1>4. PICK agent \in Agents, timing \in Heard(TimingScore(u)), account \in AccountScores(u),
           ip \in Heard(IpScore(i, u)), habit \in HabitScores :
        signs = <<AgentScore(agent), timing, account, ip, habit>>
  BY DEF Signs
<1> QED
  BY <1>1, <1>2, <1>3, <1>4 DEF HabitScores

\* Neither a single sign nor, for a user on record, the newness of the account together
\* with the address gets a user with a browser blocked (analyzeRequest): the only score that
\* blocks alone is that of a known tool, and 0.3 + 0.6 stays below 0.9.
THEOREM WeakSignsAreNotEnough == Spec => []WeakSignsNeverBlock
<1>1. WeakSignsNeverBlock
  <2> SUFFICES ASSUME NEW u \in Users, NEW i \in Ips, NEW signs \in Signs(u, i),
                      signs[1] # 10, IsBlocked(signs)
               PROVE  LET shown == {n \in DOMAIN signs : signs[n] > 0} IN
                      /\ Cardinality(shown) >= 2
                      /\ signs[3] # NotOnRecord => ~(shown \subseteq {3, 4})
    BY DEF WeakSignsNeverBlock
  <2> DEFINE S == {n \in DOMAIN signs : signs[n] > 0}
  <2>1. /\ DOMAIN signs = 1..5
        /\ signs[1] \in {0, 4, 8} /\ signs[2] \in {0, 4, 5} /\ signs[3] \in {0, 3, 5}
        /\ signs[4] \in {0, 6} /\ signs[5] \in {0, 3, 4}
    BY SignsAre
  <2>2. signs[1] + signs[2] + signs[3] + signs[4] + signs[5] >= 9
    BY DEF IsBlocked, Score
  <2>3. \E m \in 1..5, n \in 1..5 : m # n /\ signs[m] > 0 /\ signs[n] > 0
    BY <2>1, <2>2
  <2>4. S \in SUBSET (1..5) /\ \E m \in S, n \in S : m # n
    BY <2>1, <2>3
  <2>5. ASSUME signs[3] # NotOnRecord
        PROVE  \E n \in {1, 2, 5} : signs[n] > 0
    <3> SUFFICES ASSUME signs[1] = 0, signs[2] = 0, signs[5] = 0
                 PROVE  FALSE
      BY <2>1
    <3>1. signs[3] \in {0, 3}
      BY <2>1, <2>5 DEF NotOnRecord
    <3>2. signs[4] = 6 /\ Score(signs) = 9
      BY <2>1, <2>2, <3>1 DEF Score
    <3> QED
      BY <2>1, <3>2 DEF IsBlocked
  <2>6. signs[3] # NotOnRecord => ~(S \subseteq {3, 4})
    BY <2>1, <2>5
  <2> HIDE DEF S
  <2>7. Cardinality(S) >= 2
    BY <2>4, TwoMembers
  <2> QED
    BY <2>6, <2>7 DEF S
<1> QED
  BY <1>1, PTL
=============================================================================
