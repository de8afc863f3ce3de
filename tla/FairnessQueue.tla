---------------------------- MODULE FairnessQueue ----------------------------
(***************************************************************************)
(* The fairness window of one contested drop: the Redis keys, the requests *)
(* that pass through packPurchaseMiddleware and buyPackController, and the *)
(* background draws started by a timer, by the monitoring worker and by an *)
(* admin.  Every await of the code is a step, so all of them interleave.   *)
(*                                                                         *)
(* status and window are the keys fairness_status and fairness_window (0   *)
(* when absent), queue[w], result[w] the queue and the results of window   *)
(* w, lock the owner of the processing lock.  timers are the windows with  *)
(* a scheduled timer, elapsed those whose queueing time is over.  call[p]  *)
(* is what a handler or a draw has in its local variables.  wins and uses  *)
(* are history: how often a user was drawn, how often he bought on a slot. *)
(*                                                                         *)
(* A definition whose name ends in Bug is not part of the model: it is a   *)
(* plausible mistake in the definition that follows it.                    *)
(***************************************************************************)
EXTENDS Integers, FiniteSets

CONSTANTS
  Users, Keys,       \* who buys, and with which idempotency keys
  Conns,             \* requests served at the same time
  Drawers,           \* background draws running at the same time
  Origins,           \* what starts background draws
  Rank,              \* Rank[w]: the order of the users' hashes in window w
  Stock,             \* inventory when the drop comes under pressure
  MaxWindows, MaxDraws, MaxRestarts,  \* bounds: windows, monitor and admin draws, restarts
  LockOutlives,      \* whether a draw may take longer than the lock lives
  RedisFails         \* whether a Redis call may fail

NoOne   == "nobody"
Windows == 1..MaxWindows
Procs   == Conns \cup Drawers

ASSUME FairnessAssumption ==
  /\ IsFiniteSet(Users) /\ IsFiniteSet(Procs)
  /\ Conns \cap Drawers = {}
  /\ NoOne \notin Procs \cup Users
  /\ Origins \subseteq {"timer", "monitor", "admin"}
  /\ MaxWindows \in Nat /\ MaxDraws \in Nat /\ MaxRestarts \in Nat /\ Stock \in Nat
  /\ LockOutlives \in BOOLEAN /\ RedisFails \in BOOLEAN

ASSUME RankAssumption ==
  /\ Rank \in [Windows -> [Users -> Nat]]
  /\ \A w \in Windows, u, v \in Users : Rank[w][u] = Rank[w][v] => u = v

VARIABLES
  status, window, opened, elapsed, timers, queue, result, lock,
  inventory, purchased, cached, call, wins, uses, draws, restarts

redis == <<status, window, opened, elapsed, timers, queue, result, lock>>
shop  == <<inventory, purchased, cached>>
ghost == <<wins, uses, draws, restarts>>
vars  == <<redis, shop, call, ghost>>

Statuses == {"NORMAL", "FAIRNESS_MODE", "PROCESSING", "CLAIMABLE"}
Slots    == {"NONE", "AVAILABLE", "LOST", "CLAIMED", "CONSUMED"}

Steps == {"idle", "pressure", "ready", "check", "claim", "join", "enqueue", "buy",
          "complete", "giveback", "cache",
          "stock", "lock", "verify", "mark", "members", "publish", "unlock",
          "monitor", "size"}

\* The steps of a draw between taking the lock and releasing it.
Locked == {"verify", "mark", "members", "publish", "unlock"}

\* claim is req.fairnessClaim: it names the user and the drop, not the window.
Idle == [at |-> "idle", user |-> NoOne, key |-> NoOne, win |-> 0, inv |-> 0,
         members |-> {}, claim |-> FALSE]

Init ==
  /\ status = "NORMAL" /\ window = 0 /\ opened = 0
  /\ elapsed = {} /\ timers = {}
  /\ queue = [w \in Windows |-> {}]
  /\ result = [w \in Windows |-> [u \in Users |-> "NONE"]]
  /\ lock = NoOne
  /\ inventory = Stock /\ purchased = {} /\ cached = {}
  /\ call = [p \in Procs |-> Idle]
  /\ wins = [u \in Users |-> 0] /\ uses = [u \in Users |-> 0]
  /\ draws = 0 /\ restarts = 0

-----------------------------------------------------------------------------
Proceed(p, locals) == call' = [call EXCEPT ![p] = locals]

Goto(p, step) == Proceed(p, [call[p] EXCEPT !.at = step])
Finish(p)     == Proceed(p, Idle)

\* A draw made within a request goes on with the request.
AfterDraw(p) ==
  IF p \in Conns
  THEN Proceed(p, [Idle EXCEPT !.at = "check", !.user = call[p].user, !.key = call[p].key])
  ELSE Finish(p)

Queued == IF window = 0 THEN {} ELSE queue[window]

SlotOf(u) == IF window = 0 THEN "NONE" ELSE result[window][u]

SetSlot(u, slot) == result' = [result EXCEPT ![window][u] = slot]

-----------------------------------------------------------------------------
(* Time and failure *)

QueueingEnds ==
  /\ window # 0 /\ window \notin elapsed
  /\ elapsed' = elapsed \cup {window}
  /\ UNCHANGED <<status, window, opened, timers, queue, result, lock, shop, call, ghost>>

\* Status and window are always written with the same time to live.
KeysExpire ==
  /\ window \in elapsed
  /\ status' = "NORMAL" /\ window' = 0
  /\ result' = [result EXCEPT ![window] = [u \in Users |-> "NONE"]]
  /\ UNCHANGED <<opened, elapsed, timers, queue, lock, shop, call, ghost>>

\* A lock expires when its owner died, or when it is slower than the lock's
\* ten seconds.
LockExpires ==
  /\ lock # NoOne
  /\ LockOutlives \/ call[lock].at \notin Locked
  /\ lock' = NoOne
  /\ UNCHANGED <<status, window, opened, elapsed, timers, queue, result, shop, call, ghost>>

\* Handlers, draws and timers die with the server; Redis and tables stay.
Restart ==
  /\ restarts < MaxRestarts
  /\ restarts' = restarts + 1
  /\ call' = [p \in Procs |-> Idle]
  /\ timers' = {}
  /\ UNCHANGED <<status, window, opened, elapsed, queue, result, lock, shop, wins, uses, draws>>

-----------------------------------------------------------------------------
(* Drawing the winners: processFairnessWindow *)

ReadStock(p) ==
  /\ call[p].at = "stock"
  /\ Proceed(p, [call[p] EXCEPT !.at = "lock", !.inv = inventory])
  /\ UNCHANGED <<redis, shop, ghost>>

LockIsIgnoredBug(p) ==
  /\ call[p].at = "lock"
  /\ lock' = p
  /\ Goto(p, "verify")
  /\ UNCHANGED <<status, window, opened, elapsed, timers, queue, result, shop, ghost>>

TakeLock(p) ==
  /\ call[p].at = "lock"
  /\ \/ lock = NoOne /\ lock' = p /\ Goto(p, "verify")
     \/ (lock # NoOne \/ RedisFails) /\ lock' = lock /\ AfterDraw(p)
  /\ UNCHANGED <<status, window, opened, elapsed, timers, queue, result, shop, ghost>>

\* Under the lock only the window is checked again, not its status.
Verify(p) ==
  /\ call[p].at = "verify"
  /\ \/ window = call[p].win /\ window # 0 /\ Goto(p, "mark")
     \/ (window # call[p].win \/ window = 0 \/ RedisFails) /\ Goto(p, "unlock")
  /\ UNCHANGED <<redis, shop, ghost>>

\* Setting the status fails silently.
MarkProcessing(p) ==
  /\ call[p].at = "mark"
  /\ \/ status' = "PROCESSING" /\ window' = call[p].win
     \/ RedisFails /\ UNCHANGED <<status, window>>
  /\ Goto(p, "members")
  /\ UNCHANGED <<opened, elapsed, timers, queue, result, lock, shop, ghost>>

ReadMembers(p) ==
  /\ call[p].at = "members"
  /\ Proceed(p, [call[p] EXCEPT !.at = "publish", !.members = queue[call[p].win]])
  /\ UNCHANGED <<redis, shop, ghost>>

\* The n users of S whose hashes come first.
FirstByHash(S, w, n) ==
  {u \in S : Cardinality({v \in S : Rank[w][v] < Rank[w][u]}) < n}

Publish(p) ==
  LET w == call[p].win
      winners == FirstByHash(call[p].members, w, call[p].inv)
  IN
  /\ call[p].at = "publish"
  /\ result' = [result EXCEPT ![w] = [u \in Users |->
       CASE u \in winners -> "AVAILABLE"
         [] u \in call[p].members \ winners -> "LOST"
         [] OTHER -> "NONE"]]
  /\ wins' = [u \in Users |-> IF u \in winners THEN wins[u] + 1 ELSE wins[u]]
  /\ status' = "CLAIMABLE" /\ window' = w
  /\ Goto(p, "unlock")
  /\ UNCHANGED <<opened, elapsed, timers, queue, lock, shop, uses, draws, restarts>>

\* The catch block tries to go back to normal, leaving the window key.
DrawFails(p) ==
  /\ RedisFails
  /\ call[p].at \in {"members", "publish"}
  /\ status' \in {"NORMAL", status}
  /\ Goto(p, "unlock")
  /\ UNCHANGED <<window, opened, elapsed, timers, queue, result, lock, shop, ghost>>

AnyLockReleasedBug(p) ==
  /\ call[p].at = "unlock"
  /\ lock' = NoOne
  /\ AfterDraw(p)
  /\ UNCHANGED <<status, window, opened, elapsed, timers, queue, result, shop, ghost>>

\* Only a lock with the own token is deleted.
ReleaseLock(p) ==
  /\ call[p].at = "unlock"
  /\ \/ lock = p /\ lock' = NoOne
     \/ (lock # p \/ RedisFails) /\ lock' = lock
  /\ AfterDraw(p)
  /\ UNCHANGED <<status, window, opened, elapsed, timers, queue, result, shop, ghost>>

Draw(p) ==
  \/ ReadStock(p) \/ TakeLock(p) \/ Verify(p) \/ MarkProcessing(p)
  \/ ReadMembers(p) \/ Publish(p) \/ DrawFails(p) \/ ReleaseLock(p)

-----------------------------------------------------------------------------
(* Opening a window *)

WindowIsActive == status # "NORMAL"

NoTimerForNewWindowBug ==
  IF WindowIsActive
  THEN /\ timers' = IF window = 0 THEN timers ELSE timers \cup {window}
       /\ UNCHANGED <<status, window, opened>>
  ELSE /\ opened < MaxWindows
       /\ opened' = opened + 1
       /\ status' = "FAIRNESS_MODE" /\ window' = opened + 1
       /\ timers' = timers

\* ensureFairnessWindow: an active window gets a timer if it has none.
EnsureWindow ==
  IF WindowIsActive
  THEN /\ timers' = IF window = 0 THEN timers ELSE timers \cup {window}
       /\ UNCHANGED <<status, window, opened>>
  ELSE /\ opened < MaxWindows  \* bound of the model
       /\ opened' = opened + 1
       /\ status' = "FAIRNESS_MODE" /\ window' = opened + 1
       /\ timers' = timers \cup {opened + 1}

Ready == status = "FAIRNESS_MODE" /\ window \in elapsed

-----------------------------------------------------------------------------
(* Background draws *)

\* The timer of w fires: processCurrentWindowIfReady.
TimerFires(d, w) ==
  /\ "timer" \in Origins
  /\ call[d].at = "idle"
  /\ w \in timers /\ w \in elapsed
  /\ timers' = timers \ {w}
  /\ \/ Ready /\ Proceed(d, [call[d] EXCEPT !.at = "stock", !.win = window])
     \/ (~Ready \/ RedisFails) /\ UNCHANGED call
  /\ UNCHANGED <<status, window, opened, elapsed, queue, result, lock, shop, ghost>>

\* monitorFairnessQueues: the stock, then the pressure, then the queue, and
\* then the draw, whatever the status of the window is.
MonitorStarts(d) ==
  /\ "monitor" \in Origins
  /\ call[d].at = "idle" /\ inventory > 0
  /\ draws < MaxDraws  \* bound of the model
  /\ draws' = draws + 1
  /\ Proceed(d, [call[d] EXCEPT !.at = "monitor", !.inv = inventory])
  /\ UNCHANGED <<redis, shop, wins, uses, restarts>>

\* Contention depends on requests to come and is arbitrary here.
MonitorMeasures(d) ==
  /\ call[d].at = "monitor"
  /\ \/ Finish(d) /\ UNCHANGED redis
     \/ /\ EnsureWindow
        /\ Goto(d, "size")
        /\ UNCHANGED <<elapsed, queue, result, lock>>
  /\ UNCHANGED <<shop, ghost>>

MonitorDraws(d) ==
  /\ call[d].at = "size"
  /\ \/ /\ Queued # {}
        /\ Proceed(d, [call[d] EXCEPT !.at = "lock", !.win = window])
     \/ /\ Queued = {} \/ RedisFails
        /\ Finish(d)
  /\ UNCHANGED <<redis, shop, ghost>>

\* The admin endpoint draws with the inventory the admin gives.
AdminDraws(d, n) ==
  /\ "admin" \in Origins
  /\ call[d].at = "idle" /\ window # 0
  /\ draws < MaxDraws  \* bound of the model
  /\ draws' = draws + 1
  /\ Proceed(d, [call[d] EXCEPT !.at = "lock", !.win = window, !.inv = n])
  /\ UNCHANGED <<redis, shop, wins, uses, restarts>>

-----------------------------------------------------------------------------
(* A purchase request *)

\* A repeated purchase goes straight to the controller.
Arrive(c, u, k) ==
  /\ call[c].at = "idle"
  /\ Proceed(c, [call[c] EXCEPT !.user = u, !.key = k,
                !.at = IF <<u, k>> \in purchased THEN "buy" ELSE "pressure"])
  /\ UNCHANGED <<redis, shop, ghost>>

MeasurePressure(c) ==
  /\ call[c].at = "pressure"
  /\ \/ Goto(c, "buy") /\ UNCHANGED redis
     \/ /\ EnsureWindow
        /\ Goto(c, "ready")
        /\ UNCHANGED <<elapsed, queue, result, lock>>
  /\ UNCHANGED <<shop, ghost>>

CheckReady(c) ==
  /\ call[c].at = "ready"
  /\ \/ Ready /\ Proceed(c, [call[c] EXCEPT !.at = "stock", !.win = window])
     \/ (~Ready \/ RedisFails) /\ Goto(c, "check")
  /\ UNCHANGED <<redis, shop, ghost>>

CheckQueueResult(c) ==
  LET slot == SlotOf(call[c].user) IN
  /\ call[c].at = "check"
  /\ \/ slot \in {"AVAILABLE", "CLAIMED"} /\ Goto(c, "claim")
     \/ slot \in {"CONSUMED", "LOST"} /\ Finish(c)
     \/ (slot = "NONE" \/ RedisFails) /\ Goto(c, "join")
  /\ UNCHANGED <<redis, shop, ghost>>

ClaimNotAtomicBug(c) ==
  /\ call[c].at = "claim"
  /\ IF SlotOf(call[c].user) \in {"AVAILABLE", "CLAIMED"}
     THEN /\ SetSlot(call[c].user, "CLAIMED")
          /\ Proceed(c, [call[c] EXCEPT !.at = "buy", !.claim = TRUE])
     ELSE Finish(c) /\ UNCHANGED result
  /\ UNCHANGED <<status, window, opened, elapsed, timers, queue, lock, shop, ghost>>

ClaimSlot(c) ==
  /\ call[c].at = "claim"
  /\ \/ /\ SlotOf(call[c].user) = "AVAILABLE"
        /\ SetSlot(call[c].user, "CLAIMED")
        /\ Proceed(c, [call[c] EXCEPT !.at = "buy", !.claim = TRUE])
     \/ /\ SlotOf(call[c].user) # "AVAILABLE" \/ RedisFails
        /\ Finish(c) /\ UNCHANGED result
  /\ UNCHANGED <<status, window, opened, elapsed, timers, queue, lock, shop, ghost>>

\* addToQueue reads the state first and adds the user in a later call, which
\* lets the purchase go on when it fails.
JoinQueue(c) ==
  /\ call[c].at = "join"
  /\ \/ /\ status = "FAIRNESS_MODE" /\ window # 0
        /\ Proceed(c, [call[c] EXCEPT !.at = "enqueue", !.win = window])
     \/ /\ status # "FAIRNESS_MODE" \/ window = 0 \/ RedisFails
        /\ Goto(c, "buy")
  /\ UNCHANGED <<redis, shop, ghost>>

Enqueue(c) ==
  /\ call[c].at = "enqueue"
  /\ \/ queue' = [queue EXCEPT ![call[c].win] = @ \cup {call[c].user}] /\ Finish(c)
     \/ RedisFails /\ queue' = queue /\ Goto(c, "buy")
  /\ UNCHANGED <<status, window, opened, elapsed, timers, result, lock, shop, ghost>>

\* The controller answers a cached purchase at once, without a look at the
\* slot; the transaction finds a purchase that is not cached yet.
BuyAgain(c) ==
  /\ call[c].at = "buy"
  /\ <<call[c].user, call[c].key>> \in purchased
  /\ \/ <<call[c].user, call[c].key>> \in cached /\ Finish(c)
     \/ Goto(c, "complete")
  /\ UNCHANGED <<redis, shop, ghost>>

Buy(c) ==
  /\ call[c].at = "buy"
  /\ <<call[c].user, call[c].key>> \notin purchased
  /\ inventory > 0
  /\ inventory' = inventory - 1
  /\ purchased' = purchased \cup {<<call[c].user, call[c].key>>}
  /\ uses' = [uses EXCEPT ![call[c].user] = IF call[c].claim THEN @ + 1 ELSE @]
  /\ Goto(c, "complete")
  /\ UNCHANGED <<redis, cached, wins, draws, restarts>>

\* Sold out, too little money, or any other rejection.
BuyFails(c) ==
  /\ call[c].at = "buy"
  /\ <<call[c].user, call[c].key>> \notin purchased
  /\ Goto(c, "giveback")
  /\ UNCHANGED <<redis, shop, ghost>>

\* Looking up the cached purchase is outside the try block: when it fails a
\* claimed slot is not given back.
LookupFails(c) ==
  /\ RedisFails
  /\ call[c].at = "buy"
  /\ Finish(c)
  /\ UNCHANGED <<redis, shop, ghost>>

\* completeWinnerSlot looks for the slot in the window that is current now,
\* and fails silently.
SlotAfter(c, slot) ==
  \/ /\ call[c].claim /\ SlotOf(call[c].user) = "CLAIMED"
     /\ SetSlot(call[c].user, slot)
  \/ /\ ~call[c].claim \/ SlotOf(call[c].user) # "CLAIMED" \/ RedisFails
     /\ UNCHANGED result

CompleteSlot(c) ==
  /\ call[c].at = "complete"
  /\ SlotAfter(c, "CONSUMED")
  /\ Goto(c, "cache")
  /\ UNCHANGED <<status, window, opened, elapsed, timers, queue, lock, shop, ghost>>

GiveBackSlot(c) ==
  /\ call[c].at = "giveback"
  /\ SlotAfter(c, "AVAILABLE")
  /\ Finish(c)
  /\ UNCHANGED <<status, window, opened, elapsed, timers, queue, lock, shop, ghost>>

\* A failing cache write ends in the catch block like a failing purchase.
CacheResponse(c) ==
  /\ call[c].at = "cache"
  /\ \/ cached' = cached \cup {<<call[c].user, call[c].key>>} /\ Finish(c)
     \/ RedisFails /\ cached' = cached /\ Goto(c, "giveback")
  /\ UNCHANGED <<redis, inventory, purchased, ghost>>

Request(c) ==
  \/ MeasurePressure(c) \/ CheckReady(c) \/ CheckQueueResult(c) \/ ClaimSlot(c)
  \/ JoinQueue(c) \/ Enqueue(c) \/ BuyAgain(c) \/ Buy(c) \/ BuyFails(c)
  \/ LookupFails(c) \/ CompleteSlot(c) \/ GiveBackSlot(c) \/ CacheResponse(c)

Next ==
  \/ QueueingEnds \/ KeysExpire \/ LockExpires \/ Restart
  \/ \E p \in Procs : Draw(p)
  \/ \E d \in Drawers : \/ \E w \in Windows : TimerFires(d, w)
                       \/ MonitorStarts(d) \/ MonitorMeasures(d) \/ MonitorDraws(d)
                       \/ \E n \in 0..Stock : AdminDraws(d, n)
  \/ \E c \in Conns : \/ \E u \in Users, k \in Keys : Arrive(c, u, k)
                     \/ Request(c)

Spec == Init /\ [][Next]_vars

\* Time passes, due timers fire, and an await returns.
Fairness ==
  /\ WF_vars(QueueingEnds)
  /\ \A w \in Windows : WF_vars(\E d \in Drawers : TimerFires(d, w))
  /\ \A p \in Procs : WF_vars(Draw(p))

FairSpec == Spec /\ Fairness

-----------------------------------------------------------------------------
Calls == [at : Steps, user : Users \cup {NoOne}, key : Keys \cup {NoOne},
          win : 0..MaxWindows, inv : 0..Stock, members : SUBSET Users, claim : BOOLEAN]

\* Every key, table and call has a value of its type.
TypeOK ==
  /\ status \in Statuses /\ window \in 0..MaxWindows /\ opened \in 0..MaxWindows
  /\ elapsed \subseteq Windows /\ timers \subseteq Windows
  /\ queue \in [Windows -> SUBSET Users]
  /\ result \in [Windows -> [Users -> Slots]]
  /\ lock \in Procs \cup {NoOne}
  /\ inventory \in 0..Stock
  /\ purchased \subseteq Users \X Keys /\ cached \subseteq Users \X Keys
  /\ call \in [Procs -> Calls]
  /\ wins \in [Users -> Nat] /\ uses \in [Users -> Nat]
  /\ draws \in 0..MaxDraws /\ restarts \in 0..MaxRestarts

\* However often windows are drawn and redrawn, and whichever requests claim,
\* complete and give back slots at the same time, a user never buys more often
\* on a slot than he was drawn: the claim script hands a slot to one request,
\* and a slot given back was held.
SlotsNeverMultiply == \A u \in Users : uses[u] <= wins[u]

\* Two draws never run inside the processing lock at the same time, as long as
\* a draw is faster than the lock's time to live.
OneDrawAtATime ==
  \A p, q \in Procs : call[p].at \in Locked /\ call[q].at \in Locked => p = q

\* A draw that outlived its lock does not take the lock from its successor:
\* a held lock goes away only by its owner's release or by expiring.
OwnLockOnly ==
  [][lock # NoOne /\ lock' # lock =>
       \/ call[lock].at = "unlock" /\ call'[lock].at # "unlock"
       \/ call' = call]_vars

\* An opened window is drawn, or expires: no drop stays in queueing mode.
EveryWindowIsDrawn == (status = "FAIRNESS_MODE") ~> (status # "FAIRNESS_MODE")

\* A winner's slot is used once: a user buys at most once per window on a slot
\* (test/fairnessQueue.test.ts, single-use claims).  A second draw of the same
\* window resets used slots.
SlotIsSingleUse == \A u \in Users : uses[u] <= opened

=============================================================================
