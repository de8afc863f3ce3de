--------------------------- MODULE RequestLimits ---------------------------
(***************************************************************************)
(* What stands between a client and the handlers: the bot detector, on the *)
(* routes it watches, and then the sliding windows of the rate limiter.    *)
(* Both keep their state in Redis, which may fail before it runs a script  *)
(* or after, so that only its answer is lost.                              *)
(*                                                                         *)
(* Time passes in ticks.  log[t][k][a] is the number of requests of type t *)
(* that are recorded for user or address k and are a ticks old; the sorted *)
(* sets of one subject hold the same requests and differ in what their     *)
(* windows have dropped, so one log stands for them.  Two requests of one  *)
(* tick are less than minHumanRequestInterval apart, and intervals of      *)
(* different length in ticks differ by more than maxBotTimingVariance.     *)
(*                                                                         *)
(* passed is not in the code: the requests that were let through, by age,  *)
(* without the reads that pass unlimited while Redis is down.              *)
(***************************************************************************)
EXTENDS Integers, Sequences, FiniteSets, SequencesExt, Totals

CONSTANTS
  Users, Ips,
  Newcomers,          \* users whose accounts are less than an hour old at first
  Types, Watched,     \* route types, those behind the bot detector
  Access,             \* Access[t]: the access policies of the routes of type t
  UserLimit, IpLimit, \* UserLimit[t][w]: requests in the last w ticks
  Expiry,             \* ticks the timing history and the longest window last
  Remembered,         \* requests the timing history keeps
  MaxAccounts         \* accounts one address may have without suspicion

Subjects == Users \cup Ips
Ages     == 0..(Expiry - 1)

ASSUME LimitsAssumption ==
  /\ Users \cap Ips = {} /\ Newcomers \subseteq Users /\ Watched \subseteq Types
  /\ Access \in [Types -> SUBSET {"readOnly", "writeProtected"}]
  /\ \A t \in Types : \A L \in {UserLimit[t], IpLimit[t]} :
       DOMAIN L \subseteq 1..Expiry /\ \A w \in DOMAIN L : L[w] \in Nat \ {0}
  /\ Expiry \in Nat \ {0} /\ Remembered \in Nat \ {0, 1} /\ MaxAccounts \in Nat

VARIABLES log, passed, pace, accounts, young, up

vars == <<log, passed, pace, accounts, young, up>>

NoPace == [since |-> Expiry, gaps |-> <<>>]

Init ==
  /\ log = [t \in Types |-> [k \in Subjects |-> [a \in Ages |-> 0]]]
  /\ passed = log
  /\ pace = [u \in Users |-> NoPace]
  /\ accounts = [i \in Ips |-> {}]
  /\ young = Newcomers
  /\ up = TRUE

-----------------------------------------------------------------------------
(* The bot detector.  Scores are in tenths. *)

\* The intervals between the last requests, the one that ends now included.
Intervals(u) ==
  IF pace[u].since = Expiry THEN <<>> ELSE Append(pace[u].gaps, pace[u].since)

TimingScore(u) ==
  LET gaps == Intervals(u) IN
  CASE gaps = <<>>    -> 0
    [] Last(gaps) = 0 -> 5
    [] Len(gaps) >= 3 /\ \A n \in DOMAIN gaps : gaps[n] = Last(gaps) -> 4
    [] OTHER          -> 0

\* Too short a user agent, one with a suspicious word in it, one of a known tool.
Agents == {"browser", "short", "suspect", "tool"}
AgentScore(agent) ==
  CASE agent = "browser" -> 0 [] agent = "short" -> 4 [] agent = "suspect" -> 8 [] agent = "tool" -> 10

\* By the age of the account; a token may outlive its user's row, a failing query counts
\* for nothing.
NotOnRecord      == 5
AccountScores(u) == {IF u \in young THEN 3 ELSE 0, NotOnRecord, 0}

IpScore(i, u) == IF Cardinality(accounts[i] \cup {u}) > MaxAccounts THEN 6 ELSE 0

\* Purchases without listings in the last hour, or very many purchases.
HabitScores == {0, 3, 4}

\* What the detector may see of a request, whatever the client and his habits.  An
\* answer of Redis that it does not hear counts for nothing.
Heard(score) == IF up THEN {0, score} ELSE {0}

Signs(u, i) ==
  {<<AgentScore(agent), timing, account, ip, habit>> :
     agent \in Agents, timing \in Heard(TimingScore(u)), account \in AccountScores(u),
     ip \in Heard(IpScore(i, u)), habit \in HabitScores}

Score(signs) == signs[1] + signs[2] + signs[3] + signs[4] + signs[5]

\* The sum of the double 0.3 and the double 0.6 is just below 0.9.
ExactSumBug(signs) == signs[1] = 10 \/ Score(signs) >= 9
IsBlocked(signs) ==
  \/ signs[1] = 10
  \/ /\ Score(signs) >= 9
     /\ ~(Score(signs) = 9 /\ \E n \in DOMAIN signs : signs[n] = 6)

IsThrottled(signs) == ~IsBlocked(signs) /\ Score(signs) >= 5

\* What a later request will find: the history is cut to Remembered requests when
\* that one has been added.
Latest(gaps) ==
  IF Len(gaps) > Remembered - 2 THEN SubSeq(gaps, Len(gaps) - Remembered + 3, Len(gaps)) ELSE gaps

\* analyzeRequest notes the request before it judges it.
Noted(u, i) ==
  IF up
  THEN /\ pace' = [pace EXCEPT ![u] = [since |-> 0, gaps |-> Latest(Intervals(u))]]
       /\ accounts' = [accounts EXCEPT ![i] = @ \cup {u}]
  ELSE UNCHANGED <<pace, accounts>>

-----------------------------------------------------------------------------
(* The rate limiter *)

Limits(t, k) == IF k \in Users THEN UserLimit[t] ELSE IpLimit[t]

Tightened(n) == IF n < 2 THEN 1 ELSE n \div 2

Count(entries, w) == Total([n \in 1..w |-> entries[n - 1]], w)

Saturated(n, limit) == n >= limit

Full(t, k, tight) ==
  \E w \in DOMAIN Limits(t, k) :
    Saturated(Count(log[t][k], w), IF tight THEN Tightened(Limits(t, k)[w]) ELSE Limits(t, k)[w])

Admits(t, u, i, tight) == ~Full(t, u, tight) /\ ~Full(t, i, tight)

\* One more request of type t for the subjects in S.
Plus(f, t, S) ==
  [f EXCEPT ![t] = [k \in Subjects |-> IF k \in S THEN [f[t][k] EXCEPT ![0] = @ + 1] ELSE f[t][k]]]

ChargedAnywayBug(t, u, i, tight) ==
  IF Admits(t, u, i, tight) THEN Plus(log, t, {u, i})
  ELSE Plus(log, t, {k \in {u, i} : ~Full(t, k, tight)})

RenewedBug(t, u, i, tight) ==
  IF Admits(t, u, i, tight) THEN Plus(log, t, {u, i})
  ELSE [log EXCEPT ![t] = [k \in Subjects |-> IF k \notin {u, i} THEN log[t][k] ELSE
          [a \in Ages |-> IF a = 0 THEN Count(log[t][k], Expiry) ELSE 0]]]

\* The script records the request for all its subjects or for none.
Recorded(t, u, i, tight) ==
  IF Admits(t, u, i, tight) THEN Plus(log, t, {u, i}) ELSE log

OpenWhenDownBug(access) == TRUE
OpenWhenDown(access) == access = "readOnly"

\* checkRateLimits and rateLimitMiddleware: the script answers, or it does not,
\* whether it has run or not.
Limited(t, u, i, access, tight) ==
  \/ /\ up /\ log' = Recorded(t, u, i, tight)
     /\ passed' = IF Admits(t, u, i, tight) THEN Plus(passed, t, {u, i}) ELSE passed
  \/ /\ log' = log \/ (up /\ log' = Recorded(t, u, i, tight))
     /\ passed' = IF OpenWhenDown(access) /\ access # "readOnly" THEN Plus(passed, t, {u, i})
                  ELSE passed

-----------------------------------------------------------------------------
(* Requests *)

\* A route without bot detection.
PlainRequest(t, u, i, access) ==
  /\ t \notin Watched
  /\ Limited(t, u, i, access, FALSE)
  /\ UNCHANGED <<pace, accounts, young, up>>

\* A pack purchase: the detector first, then the limiter.
WatchedRequest(t, u, i, access) ==
  LET blocked == {signs \in Signs(u, i) : IsBlocked(signs)} IN
  /\ t \in Watched
  /\ Noted(u, i)
  /\ \/ blocked # {} /\ UNCHANGED <<log, passed>>
     \/ \E tight \in {IsThrottled(signs) : signs \in Signs(u, i) \ blocked} :
          Limited(t, u, i, access, tight)
  /\ UNCHANGED <<young, up>>

\* What has left the longest window is of no more use.
InWindow(t, k, a) == \E w \in DOMAIN Limits(t, k) : a < w

Older(f) == [t \in Types |-> [k \in Subjects |->
               [a \in Ages |-> IF a > 0 /\ InWindow(t, k, a) THEN f[t][k][a - 1] ELSE 0]]]

\* The history of a user goes when it has not been written for Expiry ticks.
Aged(p) == IF p.since >= Expiry - 1 THEN NoPace ELSE [p EXCEPT !.since = @ + 1]

Tick ==
  /\ log' = Older(log) /\ passed' = Older(passed)
  /\ pace' = [u \in Users |-> Aged(pace[u])]
  /\ UNCHANGED <<accounts, young, up>>

GrowsUp(u) == u \in young /\ young' = young \ {u}
              /\ UNCHANGED <<log, passed, pace, accounts, up>>

\* Nobody has come from the address for a day.
Forget(i) ==
  /\ accounts[i] # {} /\ \A u \in accounts[i] : pace[u] = NoPace
  /\ accounts' = [accounts EXCEPT ![i] = {}]
  /\ UNCHANGED <<log, passed, pace, young, up>>

RedisFails    == up /\ up' = FALSE
                 /\ UNCHANGED <<log, passed, pace, accounts, young>>
RedisRecovers == ~up /\ up' = TRUE
                 /\ UNCHANGED <<log, passed, pace, accounts, young>>

Next ==
  \/ \E t \in Types, u \in Users, i \in Ips : \E access \in Access[t] :
       PlainRequest(t, u, i, access) \/ WatchedRequest(t, u, i, access)
  \/ Tick
  \/ \E u \in Users : GrowsUp(u)
  \/ \E i \in Ips : Forget(i)
  \/ RedisFails
  \/ RedisRecovers

Spec == Init /\ [][Next]_vars

\* Time goes on.
FairSpec == Spec /\ WF_vars(Tick)

-----------------------------------------------------------------------------
(* Properties *)

\* In no window of any length do more requests of a user, or of an address, reach
\* the handlers than its limit says: not when they come at once or from several
\* places, not around an outage of Redis, not when answers are lost.
WindowNeverExceeded ==
  \A t \in Types, k \in Subjects : \A w \in DOMAIN Limits(t, k) :
    Count(passed[t][k], w) <= Limits(t, k)[w]

\* A request is charged to its user and its address together, and only when both
\* have room: one that is refused, by either or as a bot's, costs nothing.
RefusalsAreFree ==
  [][\A t \in Types :
       LET charged == {k \in Subjects : log'[t][k][0] > log[t][k][0]} IN
       charged # {} => \E u \in Users, i \in Ips :
                         charged = {u, i} /\ Admits(t, u, i, FALSE)]_vars

\* However hard a client hammers, and whatever answers it gets, its user and its
\* address have room again and again: refusals do not keep a window full.
RoomReturns ==
  \A t \in Types, k \in Subjects : []<>(~Full(t, k, FALSE))

\* Nobody with a browser is blocked for a single sign, whatever he has done before, nor a
\* user on record for what is not his conduct: being new behind an address that many share.
WeakSignsNeverBlock ==
  \A u \in Users, i \in Ips : \A signs \in Signs(u, i) :
    signs[1] # 10 /\ IsBlocked(signs) =>
      LET shown == {n \in DOMAIN signs : signs[n] > 0} IN
      Cardinality(shown) >= 2 /\ (signs[3] # NotOnRecord => ~(shown \subseteq {3, 4}))
=============================================================================
