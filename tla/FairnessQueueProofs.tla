------------------------- MODULE FairnessQueueProofs -------------------------
(***************************************************************************)
(* What holds of the fairness window for any number of users, requests,    *)
(* background draws and windows.                                           *)
(***************************************************************************)
EXTENDS FairnessQueue, FiniteSetTheorems, TLAPS

\* A held lock belongs to the draw inside it, unless it may expire under it.
HolderHasLock ==
  LockOutlives \/ \A p \in Procs : call[p].at \in Locked => lock = p

\* A draw that reads or writes a window has one, and a request has a user.
CallsFit ==
  /\ \A p \in Procs :
       call[p].at \in {"mark", "members", "publish", "enqueue"} => call[p].win # 0
  /\ \A c \in Conns :
       call[c].at # "idle" => call[c].user \in Users /\ call[c].key \in Keys

TypeInv == TypeOK /\ CallsFit

\* Only the last steps of a request hold a claimed slot.
ClaimsAreLate ==
  \A p \in Procs :
    call[p].claim => call[p].at \in {"buy", "complete", "cache", "giveback"}

Available(u) == {w \in Windows : result[w][u] = "AVAILABLE"}

Holding(u) ==
  {c \in Conns : call[c].user = u /\ call[c].claim /\ call[c].at \in {"buy", "giveback"}}

\* Every slot that is free, held or used was won.
SlotsCovered ==
  \A u \in Users :
    uses[u] + Cardinality(Available(u)) + Cardinality(Holding(u)) <= wins[u]

-----------------------------------------------------------------------------
(* Types *)

LEMMA Bounds == /\ MaxWindows \in Nat /\ Stock \in Nat /\ MaxDraws \in Nat
                /\ MaxRestarts \in Nat /\ 0 \in 0..MaxWindows /\ 0 \in 0..Stock
BY FairnessAssumption

LEMMA IdleIsACall == Idle \in Calls
BY Bounds DEF Idle, Calls, Steps

LEMMA ConnsAreProcs == \A c \in Conns : c \in Procs
BY DEF Procs

LEMMA ProceedType ==
  ASSUME call \in [Procs -> Calls], NEW p \in Procs, NEW c \in Calls, Proceed(p, c)
  PROVE  /\ call' \in [Procs -> Calls] /\ call'[p] = c
         /\ \A q \in Procs : q # p => call'[q] = call[q]
BY DEF Proceed

\* Moving a call to another step keeps its types and its locals.
LEMMA GotoType ==
  ASSUME call \in [Procs -> Calls], NEW p \in Procs, NEW step \in Steps, Goto(p, step)
  PROVE  /\ call' \in [Procs -> Calls]
         /\ call'[p].at = step
         /\ call'[p].user = call[p].user /\ call'[p].key = call[p].key
         /\ call'[p].win = call[p].win /\ call'[p].claim = call[p].claim
         /\ \A q \in Procs : q # p => call'[q] = call[q]
<1>1. call[p] \in Calls
  OBVIOUS
<1>2. [call[p] EXCEPT !.at = step] \in Calls
  BY <1>1 DEF Calls
<1> QED
  BY <1>1, <1>2 DEF Goto, Proceed, Calls

LEMMA FinishType ==
  ASSUME call \in [Procs -> Calls], NEW p \in Procs, Finish(p)
  PROVE  /\ call' \in [Procs -> Calls]
         /\ call'[p].at = "idle" /\ call'[p].claim = FALSE
         /\ \A q \in Procs : q # p => call'[q] = call[q]
BY IdleIsACall DEF Finish, Proceed, Idle

LEMMA AfterDrawType ==
  ASSUME call \in [Procs -> Calls], NEW p \in Procs, AfterDraw(p)
  PROVE  /\ call' \in [Procs -> Calls]
         /\ call'[p].at \in {"idle", "check"} /\ call'[p].claim = FALSE
         /\ p \in Conns => /\ call'[p].user = call[p].user
                           /\ call'[p].key = call[p].key
         /\ \A q \in Procs : q # p => call'[q] = call[q]
<1>1. CASE p \in Conns
  <2> DEFINE c == [Idle EXCEPT !.at = "check", !.user = call[p].user, !.key = call[p].key]
  <2>1. c \in Calls
    BY Bounds DEF Idle, Calls, Steps
  <2>2. /\ c.at = "check" /\ c.claim = FALSE
        /\ c.user = call[p].user /\ c.key = call[p].key
    BY DEF Idle
  <2>3. call' = [call EXCEPT ![p] = c]
    BY <1>1 DEF AfterDraw, Proceed
  <2> HIDE DEF c
  <2> QED
    BY <2>1, <2>2, <2>3
<1>2. CASE p \notin Conns
  <2>1. Finish(p)
    BY <1>2 DEF AfterDraw
  <2> QED
    BY <1>2, <2>1, FinishType
<1> QED
  BY <1>1, <1>2

\* Only the call that moves has to be looked at.
LEMMA CallsFitStep ==
  ASSUME CallsFit, NEW p \in Procs, \A q \in Procs : q # p => call'[q] = call[q],
         call'[p].at \in {"mark", "members", "publish", "enqueue"} => call'[p].win # 0,
         p \in Conns /\ call'[p].at # "idle" =>
           call'[p].user \in Users /\ call'[p].key \in Keys
  PROVE  CallsFit'
BY ConnsAreProcs DEF CallsFit

LEMMA SetSlotType ==
  ASSUME TypeOK, NEW u \in Users, NEW slot \in Slots, window # 0, SetSlot(u, slot)
  PROVE  result' \in [Windows -> [Users -> Slots]]
BY Bounds DEF TypeOK, SetSlot, Windows

LEMMA EnsureWindowType ==
  ASSUME TypeOK, EnsureWindow
  PROVE  /\ status' \in Statuses /\ window' \in 0..MaxWindows
         /\ opened' \in 0..MaxWindows /\ timers' \subseteq Windows
<1>1. CASE WindowIsActive
  <2>1. /\ status' = status /\ window' = window /\ opened' = opened
        /\ \/ timers' = timers
           \/ window # 0 /\ timers' = timers \cup {window}
    BY <1>1 DEF EnsureWindow, WindowIsActive
  <2>2. window # 0 => window \in Windows
    BY Bounds DEF TypeOK, Windows
  <2> QED
    BY <2>1, <2>2 DEF TypeOK
<1>2. CASE ~WindowIsActive
  <2>1. /\ opened < MaxWindows /\ opened' = opened + 1 /\ window' = opened + 1
        /\ status' = "FAIRNESS_MODE" /\ timers' = timers \cup {opened + 1}
    BY <1>2 DEF EnsureWindow, WindowIsActive
  <2>2. opened + 1 \in 1..MaxWindows
    BY <2>1, Bounds DEF TypeOK
  <2> QED
    BY <2>1, <2>2, Bounds DEF TypeOK, Windows, Statuses
<1> QED
  BY <1>1, <1>2

LEMMA TypeInit == Init => TypeInv
BY Bounds, FairnessAssumption, IdleIsACall
DEF Init, TypeInv, TypeOK, CallsFit, Statuses, Slots, Windows, Steps, Idle, Procs

LEMMA TypeTime ==
  TypeInv /\ (QueueingEnds \/ KeysExpire \/ LockExpires \/ Restart) => TypeInv'
<1> SUFFICES ASSUME TypeInv, QueueingEnds \/ KeysExpire \/ LockExpires \/ Restart
             PROVE  TypeInv'
  OBVIOUS
<1> USE DEF redis, shop, ghost, TypeOK, TypeInv, CallsFit
<1>1. CASE QueueingEnds
  <2>1. window \in Windows
    BY <1>1, Bounds DEF QueueingEnds, Windows
  <2> QED
    BY <1>1, <2>1 DEF QueueingEnds
<1>2. CASE KeysExpire
  BY <1>2, Bounds DEF KeysExpire, Windows, Statuses, Slots
<1>3. CASE LockExpires
  BY <1>3 DEF LockExpires
<1>4. CASE Restart
  <2>1. restarts' \in 0..MaxRestarts
    BY <1>4, Bounds DEF Restart
  <2>2. call' \in [Procs -> Calls] /\ \A p \in Procs : call'[p].at = "idle"
    BY <1>4, IdleIsACall DEF Restart, Idle
  <2>3. timers' \subseteq Windows
    BY <1>4 DEF Restart
  <2> QED
    BY <1>4, <2>1, <2>2, <2>3 DEF Restart, Procs
<1> QED
  BY <1>1, <1>2, <1>3, <1>4

LEMMA TypeDraw == ASSUME NEW p \in Procs PROVE TypeInv /\ Draw(p) => TypeInv'
<1> SUFFICES ASSUME TypeInv, Draw(p) PROVE TypeInv'
  OBVIOUS
<1> USE DEF redis, shop, ghost, TypeInv
<1>1. CASE ReadStock(p)
  <2> DEFINE c == [call[p] EXCEPT !.at = "lock", !.inv = inventory]
  <2>0. /\ c \in Calls /\ c.at = "lock"
        /\ c.user = call[p].user /\ c.key = call[p].key
    BY DEF TypeOK, Calls, Steps
  <2>1. /\ call' \in [Procs -> Calls] /\ call'[p] = c
        /\ \A q \in Procs : q # p => call'[q] = call[q]
    BY <1>1, <2>0, ProceedType DEF ReadStock, TypeOK
  <2> HIDE DEF c
  <2>2. CallsFit'
    BY <1>1, <2>0, <2>1, CallsFitStep DEF ReadStock, CallsFit
  <2> QED
    BY <1>1, <2>1, <2>2 DEF ReadStock, TypeOK
<1>2. CASE TakeLock(p)
  <2>1. call' \in [Procs -> Calls] /\ CallsFit'
    <3>1. CASE Goto(p, "verify")
      <4>1. "verify" \in Steps
        BY DEF Steps
      <4> QED
        BY <1>2, <3>1, <4>1, GotoType, CallsFitStep DEF TakeLock, TypeOK, CallsFit
    <3>2. CASE AfterDraw(p)
      BY <1>2, <3>2, AfterDrawType, CallsFitStep DEF TakeLock, TypeOK, CallsFit
    <3> QED
      BY <1>2, <3>1, <3>2 DEF TakeLock
  <2> QED
    BY <1>2, <2>1 DEF TakeLock, TypeOK
<1>3. CASE Verify(p)
  <2>1. call' \in [Procs -> Calls] /\ CallsFit'
    <3>1. PICK step \in Steps : /\ step \in {"mark", "unlock"} /\ Goto(p, step)
                                /\ step = "mark" => call[p].win # 0
      BY <1>3 DEF Verify, Steps
    <3> QED
      BY <1>3, <3>1, GotoType, CallsFitStep DEF Verify, TypeOK, CallsFit
  <2> QED
    BY <1>3, <2>1 DEF Verify, TypeOK
<1>4. CASE MarkProcessing(p)
  <2>1. call' \in [Procs -> Calls] /\ CallsFit'
    <3>1. "members" \in Steps
      BY DEF Steps
    <3> QED
      BY <1>4, <3>1, GotoType, CallsFitStep DEF MarkProcessing, TypeOK, CallsFit
  <2>2. window' \in 0..MaxWindows /\ status' \in Statuses
    BY <1>4 DEF MarkProcessing, TypeOK, Calls, Statuses
  <2> QED
    BY <1>4, <2>1, <2>2 DEF MarkProcessing, TypeOK
<1>5. CASE ReadMembers(p)
  <2>1. call[p].win \in Windows
    BY <1>5 DEF ReadMembers, TypeOK, CallsFit, Calls, Windows
  <2>2. queue[call[p].win] \in SUBSET Users
    BY <2>1 DEF TypeOK
  <2> DEFINE c == [call[p] EXCEPT !.at = "publish", !.members = queue[call[p].win]]
  <2>0. /\ c \in Calls /\ c.win = call[p].win
        /\ c.user = call[p].user /\ c.key = call[p].key
    BY <2>2 DEF TypeOK, Calls, Steps
  <2>3. /\ call' \in [Procs -> Calls] /\ call'[p] = c
        /\ \A q \in Procs : q # p => call'[q] = call[q]
    BY <1>5, <2>0, ProceedType DEF ReadMembers, TypeOK
  <2> HIDE DEF c
  <2>4. CallsFit'
    BY <1>5, <2>0, <2>3, CallsFitStep DEF ReadMembers, CallsFit
  <2> QED
    BY <1>5, <2>3, <2>4 DEF ReadMembers, TypeOK
<1>6. CASE Publish(p)
  <2>1. call[p].win \in Windows
    BY <1>6 DEF Publish, TypeOK, CallsFit, Calls, Windows
  <2>2. call' \in [Procs -> Calls] /\ CallsFit'
    <3>1. "unlock" \in Steps
      BY DEF Steps
    <3> QED
      BY <1>6, <3>1, GotoType, CallsFitStep DEF Publish, TypeOK, CallsFit
  <2>3. result' \in [Windows -> [Users -> Slots]]
    BY <1>6, <2>1 DEF Publish, TypeOK, Slots
  <2>4. wins' \in [Users -> Nat]
    BY <1>6 DEF Publish, TypeOK
  <2>5. window' \in 0..MaxWindows /\ status' \in Statuses
    BY <1>6, <2>1, Bounds DEF Publish, Windows, Statuses
  <2> QED
    BY <1>6, <2>2, <2>3, <2>4, <2>5 DEF Publish, TypeOK
<1>7. CASE DrawFails(p)
  <2>1. call' \in [Procs -> Calls] /\ CallsFit'
    <3>1. "unlock" \in Steps
      BY DEF Steps
    <3> QED
      BY <1>7, <3>1, GotoType, CallsFitStep DEF DrawFails, TypeOK, CallsFit
  <2> QED
    BY <1>7, <2>1 DEF DrawFails, TypeOK, Statuses
<1>8. CASE ReleaseLock(p)
  <2>1. call' \in [Procs -> Calls] /\ CallsFit'
    BY <1>8, AfterDrawType, CallsFitStep DEF ReleaseLock, TypeOK, CallsFit
  <2> QED
    BY <1>8, <2>1 DEF ReleaseLock, TypeOK
<1> QED
  BY <1>1, <1>2, <1>3, <1>4, <1>5, <1>6, <1>7, <1>8 DEF Draw

LEMMA TypeTimer ==
  ASSUME NEW d \in Drawers, NEW w \in Windows
  PROVE  TypeInv /\ TimerFires(d, w) => TypeInv'
<1> SUFFICES ASSUME TypeInv, TimerFires(d, w) PROVE TypeInv'
  OBVIOUS
<1> USE DEF redis, shop, ghost, TypeInv
<1>1. d \in Procs /\ d \notin Conns
  BY FairnessAssumption DEF Procs
<1> DEFINE c == [call[d] EXCEPT !.at = "stock", !.win = window]
<1>2. c \in Calls /\ c.at = "stock"
  BY <1>1 DEF TypeOK, Calls, Steps
<1>3. call' \in [Procs -> Calls] /\ CallsFit'
  <2>1. CASE UNCHANGED call
    BY <2>1 DEF TypeOK, CallsFit
  <2>2. CASE Proceed(d, c)
    <3>1. /\ call' \in [Procs -> Calls] /\ call'[d] = c
          /\ \A q \in Procs : q # d => call'[q] = call[q]
      BY <2>2, <1>1, <1>2, ProceedType DEF TypeOK
    <3> HIDE DEF c
    <3> QED
      BY <1>1, <1>2, <3>1, CallsFitStep
  <2> QED
    BY <2>1, <2>2 DEF TimerFires
<1> QED
  BY <1>3 DEF TimerFires, TypeOK

LEMMA TypeMonitor ==
  ASSUME NEW d \in Drawers
  PROVE  TypeInv /\ (MonitorStarts(d) \/ MonitorMeasures(d) \/ MonitorDraws(d)) => TypeInv'
<1> SUFFICES ASSUME TypeInv, MonitorStarts(d) \/ MonitorMeasures(d) \/ MonitorDraws(d)
             PROVE  TypeInv'
  OBVIOUS
<1> USE DEF redis, shop, ghost, TypeInv
<1>0. d \in Procs /\ d \notin Conns
  BY FairnessAssumption DEF Procs
<1>1. CASE MonitorStarts(d)
  <2> DEFINE c == [call[d] EXCEPT !.at = "monitor", !.inv = inventory]
  <2>1. c \in Calls /\ c.at = "monitor"
    BY <1>0 DEF TypeOK, Calls, Steps
  <2>2. /\ call' \in [Procs -> Calls] /\ call'[d] = c
        /\ \A q \in Procs : q # d => call'[q] = call[q]
    BY <1>0, <1>1, <2>1, ProceedType DEF MonitorStarts, TypeOK
  <2> HIDE DEF c
  <2>3. CallsFit'
    BY <1>0, <2>1, <2>2, CallsFitStep
  <2>4. draws' \in 0..MaxDraws
    BY <1>1, Bounds DEF MonitorStarts, TypeOK
  <2> QED
    BY <1>1, <2>2, <2>3, <2>4 DEF MonitorStarts, TypeOK
<1>2. CASE MonitorMeasures(d)
  <2>1. CASE Finish(d) /\ UNCHANGED redis
    BY <1>0, <1>2, <2>1, FinishType, CallsFitStep DEF MonitorMeasures, TypeOK
  <2>2. CASE EnsureWindow /\ Goto(d, "size") /\ UNCHANGED <<elapsed, queue, result, lock>>
    <3>1. "size" \in Steps
      BY DEF Steps
    <3>2. call' \in [Procs -> Calls] /\ CallsFit'
      BY <1>0, <2>2, <3>1, GotoType, CallsFitStep DEF TypeOK
    <3> QED
      BY <1>2, <2>2, <3>2, EnsureWindowType DEF MonitorMeasures, TypeOK
  <2> QED
    BY <1>2, <2>1, <2>2 DEF MonitorMeasures
<1>3. CASE MonitorDraws(d)
  <2> DEFINE c == [call[d] EXCEPT !.at = "lock", !.win = window]
  <2>1. c \in Calls /\ c.at = "lock"
    BY <1>0 DEF TypeOK, Calls, Steps
  <2>2. CASE Proceed(d, c)
    <3>1. /\ call' \in [Procs -> Calls] /\ call'[d] = c
          /\ \A q \in Procs : q # d => call'[q] = call[q]
      BY <1>0, <2>1, <2>2, ProceedType DEF TypeOK
    <3> HIDE DEF c
    <3> QED
      BY <1>0, <1>3, <2>1, <3>1, CallsFitStep DEF MonitorDraws, TypeOK
  <2>3. CASE Finish(d)
    BY <1>0, <1>3, <2>3, FinishType, CallsFitStep DEF MonitorDraws, TypeOK
  <2> QED
    BY <1>3, <2>2, <2>3 DEF MonitorDraws
<1> QED
  BY <1>1, <1>2, <1>3

LEMMA TypeAdmin ==
  ASSUME NEW d \in Drawers, NEW n \in 0..Stock
  PROVE  TypeInv /\ AdminDraws(d, n) => TypeInv'
<1> SUFFICES ASSUME TypeInv, AdminDraws(d, n) PROVE TypeInv'
  OBVIOUS
<1> USE DEF redis, shop, ghost, TypeInv
<1>0. d \in Procs /\ d \notin Conns
  BY FairnessAssumption DEF Procs
<1> DEFINE c == [call[d] EXCEPT !.at = "lock", !.win = window, !.inv = n]
<1>1. c \in Calls /\ c.at = "lock"
  BY <1>0 DEF TypeOK, Calls, Steps
<1>2. /\ call' \in [Procs -> Calls] /\ call'[d] = c
      /\ \A q \in Procs : q # d => call'[q] = call[q]
  BY <1>0, <1>1, ProceedType DEF AdminDraws, TypeOK
<1> HIDE DEF c
<1>3. CallsFit'
  BY <1>0, <1>1, <1>2, CallsFitStep
<1>4. draws' \in 0..MaxDraws
  BY Bounds DEF AdminDraws, TypeOK
<1> QED
  BY <1>2, <1>3, <1>4 DEF AdminDraws, TypeOK

LEMMA TypeArrive ==
  ASSUME NEW c \in Conns, NEW u \in Users, NEW k \in Keys
  PROVE  TypeInv /\ Arrive(c, u, k) => TypeInv'
<1> SUFFICES ASSUME TypeInv, Arrive(c, u, k) PROVE TypeInv'
  OBVIOUS
<1> USE DEF redis, shop, ghost, TypeInv
<1> DEFINE a == [call[c] EXCEPT !.user = u, !.key = k,
                   !.at = IF <<u, k>> \in purchased THEN "buy" ELSE "pressure"]
<1>1. a \in Calls /\ a.at \in {"buy", "pressure"} /\ a.user = u /\ a.key = k
  BY ConnsAreProcs DEF TypeOK, Calls, Steps
<1>2. /\ call' \in [Procs -> Calls] /\ call'[c] = a
      /\ \A q \in Procs : q # c => call'[q] = call[q]
  BY <1>1, ConnsAreProcs, ProceedType DEF Arrive, TypeOK
<1> HIDE DEF a
<1>3. CallsFit'
  BY <1>1, <1>2, ConnsAreProcs, CallsFitStep
<1> QED
  BY <1>2, <1>3 DEF Arrive, TypeOK

\* The steps a request moves to keep its user and key.
LEMMA RequestGoto ==
  ASSUME TypeInv, NEW c \in Conns, call[c].at # "idle",
         NEW step \in {"buy", "complete", "giveback", "cache", "claim", "join", "check", "ready"},
         Goto(c, step)
  PROVE  call' \in [Procs -> Calls] /\ CallsFit'
<1>1. step \in Steps
  BY DEF Steps
<1> QED
  BY <1>1, ConnsAreProcs, GotoType, CallsFitStep DEF TypeInv, TypeOK, CallsFit

LEMMA RequestFinish ==
  ASSUME TypeInv, NEW c \in Conns, Finish(c)
  PROVE  call' \in [Procs -> Calls] /\ CallsFit'
BY ConnsAreProcs, FinishType, CallsFitStep DEF TypeInv, TypeOK

LEMMA TypeRequest == ASSUME NEW c \in Conns PROVE TypeInv /\ Request(c) => TypeInv'
<1> SUFFICES ASSUME TypeInv, Request(c) PROVE TypeInv'
  OBVIOUS
<1> USE DEF redis, shop, ghost
<1>0. c \in Procs /\ call[c] \in Calls
  BY ConnsAreProcs DEF TypeInv, TypeOK
<1>1. CASE MeasurePressure(c)
  <2>1. CASE Goto(c, "buy") /\ UNCHANGED redis
    BY <1>1, <2>1, RequestGoto DEF MeasurePressure, TypeInv, TypeOK
  <2>2. CASE EnsureWindow /\ Goto(c, "ready") /\ UNCHANGED <<elapsed, queue, result, lock>>
    BY <1>1, <2>2, RequestGoto, EnsureWindowType DEF MeasurePressure, TypeInv, TypeOK
  <2> QED
    BY <1>1, <2>1, <2>2 DEF MeasurePressure
<1>2. CASE CheckReady(c)
  <2> DEFINE a == [call[c] EXCEPT !.at = "stock", !.win = window]
  <2>1. /\ a \in Calls /\ a.at = "stock" /\ a.user = call[c].user /\ a.key = call[c].key
    BY <1>0 DEF TypeInv, TypeOK, Calls, Steps
  <2>2. CASE Proceed(c, a)
    <3>1. /\ call' \in [Procs -> Calls] /\ call'[c] = a
          /\ \A q \in Procs : q # c => call'[q] = call[q]
      BY <1>0, <2>1, <2>2, ProceedType DEF TypeInv, TypeOK
    <3> HIDE DEF a
    <3>2. CallsFit'
      BY <1>0, <1>2, <2>1, <3>1, CallsFitStep DEF CheckReady, TypeInv, CallsFit
    <3> QED
      BY <1>2, <3>1, <3>2 DEF CheckReady, TypeInv, TypeOK
  <2>3. CASE Goto(c, "check")
    BY <1>2, <2>3, RequestGoto DEF CheckReady, TypeInv, TypeOK
  <2> QED
    BY <1>2, <2>2, <2>3 DEF CheckReady
<1>3. CASE CheckQueueResult(c)
  <2>1. call' \in [Procs -> Calls] /\ CallsFit'
    BY <1>3, RequestGoto, RequestFinish DEF CheckQueueResult
  <2> QED
    BY <1>3, <2>1 DEF CheckQueueResult, TypeInv, TypeOK
<1>4. CASE ClaimSlot(c)
  <2> DEFINE a == [call[c] EXCEPT !.at = "buy", !.claim = TRUE]
  <2>1. CASE SlotOf(call[c].user) = "AVAILABLE" /\ SetSlot(call[c].user, "CLAIMED") /\ Proceed(c, a)
    <3>1. /\ a \in Calls /\ a.at = "buy" /\ a.user = call[c].user /\ a.key = call[c].key
      BY <1>0 DEF Calls, Steps
    <3>2. /\ call' \in [Procs -> Calls] /\ call'[c] = a
          /\ \A q \in Procs : q # c => call'[q] = call[q]
      BY <1>0, <2>1, <3>1, ProceedType DEF TypeInv, TypeOK
    <3> HIDE DEF a
    <3>3. CallsFit'
      BY <1>0, <1>4, <3>1, <3>2, CallsFitStep DEF ClaimSlot, TypeInv, CallsFit
    <3>4. call[c].user \in Users /\ window # 0 /\ "CLAIMED" \in Slots
      BY <1>4, <2>1 DEF ClaimSlot, TypeInv, CallsFit, SlotOf, Slots
    <3>5. result' \in [Windows -> [Users -> Slots]]
      BY <2>1, <3>4, SetSlotType DEF TypeInv
    <3> QED
      BY <1>4, <3>2, <3>3, <3>5 DEF ClaimSlot, TypeInv, TypeOK
  <2>2. CASE Finish(c) /\ UNCHANGED result
    BY <1>4, <2>2, RequestFinish DEF ClaimSlot, TypeInv, TypeOK
  <2> QED
    BY <1>4, <2>1, <2>2 DEF ClaimSlot
<1>5. CASE JoinQueue(c)
  <2> DEFINE a == [call[c] EXCEPT !.at = "enqueue", !.win = window]
  <2>1. CASE window # 0 /\ Proceed(c, a)
    <3>1. /\ a \in Calls /\ a.at = "enqueue" /\ a.win # 0
          /\ a.user = call[c].user /\ a.key = call[c].key
      BY <1>0, <2>1 DEF TypeInv, TypeOK, Calls, Steps
    <3>2. /\ call' \in [Procs -> Calls] /\ call'[c] = a
          /\ \A q \in Procs : q # c => call'[q] = call[q]
      BY <1>0, <2>1, <3>1, ProceedType DEF TypeInv, TypeOK
    <3> HIDE DEF a
    <3>3. CallsFit'
      BY <1>0, <1>5, <3>1, <3>2, CallsFitStep DEF JoinQueue, TypeInv, CallsFit
    <3> QED
      BY <1>5, <3>2, <3>3 DEF JoinQueue, TypeInv, TypeOK
  <2>2. CASE Goto(c, "buy")
    BY <1>5, <2>2, RequestGoto DEF JoinQueue, TypeInv, TypeOK
  <2> QED
    BY <1>5, <2>1, <2>2 DEF JoinQueue
<1>6. CASE Enqueue(c)
  <2>1. call' \in [Procs -> Calls] /\ CallsFit'
    BY <1>6, RequestGoto, RequestFinish DEF Enqueue
  <2>2. call[c].user \in Users
    BY <1>6 DEF Enqueue, TypeInv, CallsFit
  <2>3. queue' \in [Windows -> SUBSET Users]
    BY <1>6, <2>2 DEF Enqueue, TypeInv, TypeOK
  <2> QED
    BY <1>6, <2>1, <2>3 DEF Enqueue, TypeInv, TypeOK
<1>7. CASE BuyAgain(c)
  <2>1. call' \in [Procs -> Calls] /\ CallsFit'
    BY <1>7, RequestGoto, RequestFinish DEF BuyAgain
  <2> QED
    BY <1>7, <2>1 DEF BuyAgain, TypeInv, TypeOK
<1>8. CASE Buy(c)
  <2>1. call' \in [Procs -> Calls] /\ CallsFit'
    BY <1>8, RequestGoto DEF Buy
  <2>2. call[c].user \in Users /\ call[c].key \in Keys
    BY <1>8 DEF Buy, TypeInv, CallsFit
  <2>3. inventory' \in 0..Stock
    BY <1>8, Bounds DEF Buy, TypeInv, TypeOK
  <2>4. purchased' \subseteq Users \X Keys
    BY <1>8, <2>2 DEF Buy, TypeInv, TypeOK
  <2>5. uses' \in [Users -> Nat]
    <3>1. CASE call[c].claim
      BY <1>8, <2>2, <3>1 DEF Buy, TypeInv, TypeOK
    <3>2. CASE ~call[c].claim
      BY <1>8, <2>2, <3>2 DEF Buy, TypeInv, TypeOK
    <3> QED
      BY <3>1, <3>2
  <2> QED
    BY <1>8, <2>1, <2>3, <2>4, <2>5 DEF Buy, TypeInv, TypeOK
<1>9. CASE BuyFails(c)
  BY <1>9, RequestGoto DEF BuyFails, TypeInv, TypeOK
<1>10. CASE LookupFails(c)
  BY <1>10, RequestFinish DEF LookupFails, TypeInv, TypeOK
<1>11. CASE CompleteSlot(c) \/ GiveBackSlot(c)
  <2>1. call' \in [Procs -> Calls] /\ CallsFit'
    BY <1>11, RequestGoto, RequestFinish DEF CompleteSlot, GiveBackSlot
  <2>2. result' \in [Windows -> [Users -> Slots]]
    <3>1. call[c].user \in Users /\ "CONSUMED" \in Slots /\ "AVAILABLE" \in Slots
      BY <1>11 DEF CompleteSlot, GiveBackSlot, TypeInv, CallsFit, Slots
    <3>2. \/ /\ SlotOf(call[c].user) = "CLAIMED"
             /\ \/ SetSlot(call[c].user, "CONSUMED")
                \/ SetSlot(call[c].user, "AVAILABLE")
          \/ UNCHANGED result
      BY <1>11 DEF CompleteSlot, GiveBackSlot, SlotAfter
    <3>3. CASE UNCHANGED result
      BY <3>3 DEF TypeInv, TypeOK
    <3>4. CASE SlotOf(call[c].user) = "CLAIMED"
      <4>1. window # 0
        BY <3>4 DEF SlotOf
      <4> QED
        BY <3>1, <3>2, <3>3, <4>1, SetSlotType DEF TypeInv
    <3> QED
      BY <3>2, <3>3, <3>4
  <2> QED
    BY <1>11, <2>1, <2>2 DEF CompleteSlot, GiveBackSlot, TypeInv, TypeOK
<1>12. CASE CacheResponse(c)
  <2>1. call' \in [Procs -> Calls] /\ CallsFit'
    BY <1>12, RequestGoto, RequestFinish DEF CacheResponse
  <2>2. <<call[c].user, call[c].key>> \in Users \X Keys
    BY <1>12 DEF CacheResponse, TypeInv, CallsFit
  <2> QED
    BY <1>12, <2>1, <2>2 DEF CacheResponse, TypeInv, TypeOK
<1> QED
  BY <1>1, <1>2, <1>3, <1>4, <1>5, <1>6, <1>7, <1>8, <1>9, <1>10, <1>11, <1>12 DEF Request

LEMMA TypeNext == TypeInv /\ [Next]_vars => TypeInv'
<1> SUFFICES ASSUME TypeInv, [Next]_vars PROVE TypeInv'
  OBVIOUS
<1>1. CASE UNCHANGED vars
  BY <1>1 DEF vars, redis, shop, ghost, TypeInv, TypeOK, CallsFit
<1>2. CASE Next
  BY <1>2, TypeTime, TypeDraw, TypeTimer, TypeMonitor, TypeAdmin, TypeArrive, TypeRequest
  DEF Next
<1> QED
  BY <1>1, <1>2

\* Keys, tables and calls keep their types, and no draw works on a window it
\* does not have.
THEOREM TypeCorrect == Spec => []TypeInv
<1>1. TypeInv /\ [Next]_vars => TypeInv'
  BY TypeNext
<1> QED
  BY <1>1, TypeInit, PTL DEF Spec

THEOREM QueueTypeOK == Spec => []TypeOK
<1>1. TypeInv => TypeOK
  BY DEF TypeInv
<1> QED
  BY <1>1, TypeCorrect, PTL

-----------------------------------------------------------------------------
(* The processing lock *)

\* A step that neither takes the lock nor enters it keeps HolderHasLock.
LEMMA LockStep ==
  ASSUME TypeInv, HolderHasLock, NEW p \in Procs, lock' = lock,
         \A q \in Procs : q # p => call'[q] = call[q],
         call'[p].at \in Locked => call[p].at \in Locked
  PROVE  HolderHasLock'
BY DEF HolderHasLock

LEMMA LockInit == Init => HolderHasLock
BY DEF Init, HolderHasLock, Idle, Locked

LEMMA LockDraw ==
  ASSUME TypeInv, HolderHasLock, NEW p \in Procs, Draw(p)
  PROVE  HolderHasLock'
<1> USE DEF redis
<1>0. call \in [Procs -> Calls] /\ NoOne \notin Procs
  BY FairnessAssumption DEF TypeInv, TypeOK
<1>1. CASE ReadStock(p)
  <2> DEFINE c == [call[p] EXCEPT !.at = "lock", !.inv = inventory]
  <2>1. c \in Calls /\ c.at = "lock"
    BY DEF TypeInv, TypeOK, Calls, Steps
  <2> QED
    BY <1>0, <1>1, <2>1, ProceedType, LockStep DEF ReadStock, Locked
<1>2. CASE TakeLock(p)
  <2>1. CASE lock = NoOne /\ lock' = p /\ Goto(p, "verify")
    <3>1. "verify" \in Steps
      BY DEF Steps
    <3> QED
      BY <1>0, <2>1, <3>1, GotoType DEF HolderHasLock
  <2>2. CASE lock' = lock /\ AfterDraw(p)
    BY <1>0, <2>2, AfterDrawType, LockStep DEF Locked
  <2> QED
    BY <1>2, <2>1, <2>2 DEF TakeLock
<1>3. CASE Verify(p)
  <2>1. "mark" \in Steps /\ "unlock" \in Steps
    BY DEF Steps
  <2> QED
    BY <1>0, <1>3, <2>1, GotoType, LockStep DEF Verify, Locked
<1>4. CASE MarkProcessing(p) \/ Publish(p) \/ DrawFails(p)
  <2>1. "members" \in Steps /\ "unlock" \in Steps
    BY DEF Steps
  <2> QED
    BY <1>0, <1>4, <2>1, GotoType, LockStep DEF MarkProcessing, Publish, DrawFails, Locked
<1>5. CASE ReadMembers(p)
  <2>1. /\ \A q \in Procs : q # p => call'[q] = call[q]
        /\ lock' = lock /\ call[p].at = "members"
    BY <1>0, <1>5 DEF ReadMembers, Proceed
  <2> QED
    BY <2>1, LockStep DEF Locked
<1>6. CASE ReleaseLock(p)
  <2>1. /\ call'[p].at \in {"idle", "check"} /\ call[p].at = "unlock"
        /\ \A q \in Procs : q # p => call'[q] = call[q]
    BY <1>0, <1>6, AfterDrawType DEF ReleaseLock
  <2>2. CASE lock = p
    BY <1>0, <1>6, <2>1, <2>2 DEF ReleaseLock, HolderHasLock, Locked
  <2>3. CASE lock # p
    BY <1>6, <2>1, <2>3, LockStep DEF ReleaseLock, Locked
  <2> QED
    BY <2>2, <2>3
<1> QED
  BY <1>1, <1>2, <1>3, <1>4, <1>5, <1>6 DEF Draw

\* Requests and background work do not touch the lock, and their own steps are
\* outside it.
LEMMA RequestMoves ==
  ASSUME TypeInv, NEW c \in Conns, Request(c)
  PROVE  /\ lock' = lock /\ call'[c].at \notin Locked
         /\ \A q \in Procs : q # c => call'[q] = call[q]
<1> USE DEF redis, Locked
<1>1. c \in Procs /\ call[c] \in Calls /\ call \in [Procs -> Calls]
  BY ConnsAreProcs DEF TypeInv, TypeOK
<1>2. ASSUME NEW step, Goto(c, step)
      PROVE  call'[c].at = step /\ \A q \in Procs : q # c => call'[q] = call[q]
  BY <1>1, <1>2 DEF Goto, Proceed, Calls
<1>3. ASSUME Finish(c)
      PROVE  call'[c].at = "idle" /\ \A q \in Procs : q # c => call'[q] = call[q]
  BY <1>1, <1>3 DEF Finish, Proceed, Idle
<1>4. CASE MeasurePressure(c)
  BY <1>2, <1>4 DEF MeasurePressure
<1>2w. ASSUME NEW step, NEW w, Proceed(c, [call[c] EXCEPT !.at = step, !.win = w])
       PROVE  call'[c].at = step /\ \A q \in Procs : q # c => call'[q] = call[q]
  BY <1>1, <1>2w DEF Proceed, Calls
<1>2c. ASSUME NEW step, Proceed(c, [call[c] EXCEPT !.at = step, !.claim = TRUE])
       PROVE  call'[c].at = step /\ \A q \in Procs : q # c => call'[q] = call[q]
  BY <1>1, <1>2c DEF Proceed, Calls
<1>5. CASE CheckReady(c)
  <2>1. \/ Proceed(c, [call[c] EXCEPT !.at = "stock", !.win = window])
        \/ Goto(c, "check")
    BY <1>5 DEF CheckReady
  <2>2. call'[c].at \in {"stock", "check"} /\ \A q \in Procs : q # c => call'[q] = call[q]
    BY <1>2, <1>2w, <2>1
  <2> QED
    BY <1>5, <2>2 DEF CheckReady
<1>6. CASE CheckQueueResult(c)
  BY <1>2, <1>3, <1>6 DEF CheckQueueResult
<1>7. CASE ClaimSlot(c)
  BY <1>2c, <1>3, <1>7 DEF ClaimSlot
<1>8. CASE JoinQueue(c)
  <2>1. \/ Proceed(c, [call[c] EXCEPT !.at = "enqueue", !.win = window])
        \/ Goto(c, "buy")
    BY <1>8 DEF JoinQueue
  <2>2. call'[c].at \in {"enqueue", "buy"} /\ \A q \in Procs : q # c => call'[q] = call[q]
    BY <1>2, <1>2w, <2>1
  <2> QED
    BY <1>8, <2>2 DEF JoinQueue
<1>9. CASE Enqueue(c) \/ BuyAgain(c) \/ Buy(c) \/ BuyFails(c) \/ LookupFails(c)
  BY <1>2, <1>3, <1>9 DEF Enqueue, BuyAgain, Buy, BuyFails, LookupFails
<1>10. CASE CompleteSlot(c) \/ GiveBackSlot(c) \/ CacheResponse(c)
  BY <1>2, <1>3, <1>10 DEF CompleteSlot, GiveBackSlot, CacheResponse
<1> QED
  BY <1>4, <1>5, <1>6, <1>7, <1>8, <1>9, <1>10 DEF Request

Background(d) ==
  \/ \E w \in Windows : TimerFires(d, w)
  \/ MonitorStarts(d) \/ MonitorMeasures(d) \/ MonitorDraws(d)
  \/ \E n \in 0..Stock : AdminDraws(d, n)

LEMMA BackgroundMoves ==
  ASSUME TypeInv, NEW d \in Drawers, Background(d)
  PROVE  /\ lock' = lock /\ result' = result /\ wins' = wins /\ uses' = uses
         /\ call'[d].at \in {"idle", "stock", "monitor", "size", "lock"}
         /\ call'[d].claim = call[d].claim \/ call'[d].claim = FALSE
         /\ \A q \in Procs : q # d => call'[q] = call[q]
<1> USE DEF redis, ghost
<1>1. d \in Procs /\ call[d] \in Calls /\ call \in [Procs -> Calls]
  BY DEF TypeInv, TypeOK, Procs
<1>a. ASSUME NEW step, NEW w, Proceed(d, [call[d] EXCEPT !.at = step, !.win = w])
      PROVE  /\ call'[d].at = step /\ call'[d].claim = call[d].claim
             /\ \A q \in Procs : q # d => call'[q] = call[q]
  BY <1>1, <1>a DEF Proceed, Calls
<1>b. ASSUME NEW step, Goto(d, step)
      PROVE  /\ call'[d].at = step /\ call'[d].claim = call[d].claim
             /\ \A q \in Procs : q # d => call'[q] = call[q]
  BY <1>1, <1>b DEF Goto, Proceed, Calls
<1>c. ASSUME Finish(d)
      PROVE  /\ call'[d].at = "idle" /\ call'[d].claim = FALSE
             /\ \A q \in Procs : q # d => call'[q] = call[q]
  BY <1>1, <1>c DEF Finish, Proceed, Idle
<1>2. CASE \E w \in Windows : TimerFires(d, w)
  <2>1. CASE UNCHANGED call
    BY <1>2, <2>1 DEF TimerFires
  <2>2. CASE Proceed(d, [call[d] EXCEPT !.at = "stock", !.win = window])
    BY <1>2, <2>2, <1>a DEF TimerFires
  <2> QED
    BY <1>2, <2>1, <2>2 DEF TimerFires
<1>3. CASE MonitorStarts(d)
  BY <1>1, <1>3 DEF MonitorStarts, Proceed, Calls
<1>4. CASE MonitorMeasures(d)
  BY <1>4, <1>b, <1>c DEF MonitorMeasures
<1>5. CASE MonitorDraws(d)
  BY <1>5, <1>a, <1>c DEF MonitorDraws
<1>6. CASE \E n \in 0..Stock : AdminDraws(d, n)
  BY <1>1, <1>6 DEF AdminDraws, Proceed, Calls
<1> QED
  BY <1>2, <1>3, <1>4, <1>5, <1>6 DEF Background

LEMMA LockNext == TypeInv /\ HolderHasLock /\ [Next]_vars => HolderHasLock'
<1> SUFFICES ASSUME TypeInv, HolderHasLock, [Next]_vars PROVE HolderHasLock'
  OBVIOUS
<1>1. CASE UNCHANGED vars
  BY <1>1 DEF vars, redis, HolderHasLock
<1>2. CASE QueueingEnds \/ KeysExpire
  BY <1>2 DEF QueueingEnds, KeysExpire, HolderHasLock
<1>3. CASE LockExpires
  <2>1. lock \in Procs
    BY <1>3 DEF LockExpires, TypeInv, TypeOK
  <2> QED
    BY <1>3, <2>1 DEF LockExpires, HolderHasLock
<1>4. CASE Restart
  BY <1>4 DEF Restart, HolderHasLock, Idle, Locked
<1>5. CASE \E p \in Procs : Draw(p)
  BY <1>5, LockDraw
<1>6. CASE \E d \in Drawers : Background(d)
  <2>1. PICK d \in Drawers : Background(d)
    BY <1>6
  <2>2. d \in Procs
    BY DEF Procs
  <2> QED
    BY <2>1, <2>2, BackgroundMoves, LockStep DEF Locked
<1>7. CASE \E c \in Conns : Request(c)
  BY <1>7, RequestMoves, ConnsAreProcs, LockStep
<1>8. ASSUME NEW c \in Conns, NEW u \in Users, NEW k \in Keys, Arrive(c, u, k)
      PROVE  HolderHasLock'
  <2>1. c \in Procs /\ call[c] \in Calls /\ call \in [Procs -> Calls]
    BY ConnsAreProcs DEF TypeInv, TypeOK
  <2>2. /\ lock' = lock /\ call'[c].at \in {"buy", "pressure"}
        /\ \A q \in Procs : q # c => call'[q] = call[q]
    BY <1>8, <2>1 DEF Arrive, Proceed, Calls, redis
  <2> QED
    BY <2>1, <2>2, LockStep DEF Locked
<1> QED
  BY <1>1, <1>2, <1>3, <1>4, <1>5, <1>6, <1>7, <1>8 DEF Next, Background

\* While a draw is faster than its lock's time to live, no two draws are inside
\* the lock: the theorem behind processing ownership.
THEOREM OneDraw ==
  ASSUME ~LockOutlives
  PROVE  Spec => []OneDrawAtATime
<1>1. TypeInv /\ HolderHasLock /\ [Next]_vars => HolderHasLock'
  BY LockNext
<1>2. HolderHasLock => OneDrawAtATime
  BY DEF HolderHasLock, OneDrawAtATime
<1> QED
  BY <1>1, <1>2, LockInit, TypeCorrect, PTL DEF Spec

LockKept == lock # NoOne /\ lock' # lock =>
              \/ call[lock].at = "unlock" /\ call'[lock].at # "unlock"
              \/ call' = call

\* However long a draw takes, it never deletes the lock of the draw that came
\* after it.
THEOREM OnlyOwnLock == Spec => OwnLockOnly
<1>1. ASSUME TypeInv, [Next]_vars PROVE LockKept \/ UNCHANGED vars
  <2> USE DEF redis
  <2>1. CASE lock' = lock
    BY <2>1 DEF LockKept
  <2>2. ASSUME NEW p \in Procs, Draw(p) PROVE LockKept
    <3>1. CASE TakeLock(p)
      BY <3>1 DEF TakeLock, LockKept
    <3>2. CASE ReleaseLock(p)
      <4>1. /\ call[p].at = "unlock" /\ AfterDraw(p) /\ call \in [Procs -> Calls]
            /\ lock = p \/ lock' = lock
        BY <1>1, <3>2 DEF ReleaseLock, TypeInv, TypeOK
      <4>2. call'[p].at \in {"idle", "check"}
        BY <4>1, AfterDrawType
      <4> QED
        BY <4>1, <4>2 DEF LockKept
    <3>3. CASE lock' = lock
      BY <3>3 DEF LockKept
    <3> QED
      BY <2>2, <3>1, <3>2, <3>3
      DEF Draw, ReadStock, Verify, MarkProcessing, ReadMembers, Publish, DrawFails
  <2>3. CASE LockExpires
    BY <2>3 DEF LockExpires, LockKept
  <2>4. CASE QueueingEnds \/ KeysExpire \/ Restart
    BY <2>1, <2>4 DEF QueueingEnds, KeysExpire, Restart
  <2>5. CASE \E d \in Drawers : Background(d)
    BY <1>1, <2>1, <2>5, BackgroundMoves
  <2>6. CASE \E c \in Conns : Request(c)
    BY <1>1, <2>1, <2>6, RequestMoves
  <2>7. CASE \E c \in Conns, u \in Users, k \in Keys : Arrive(c, u, k)
    BY <2>1, <2>7 DEF Arrive
  <2> QED
    BY <1>1, <2>2, <2>3, <2>4, <2>5, <2>6, <2>7 DEF Next, Background
<1>2. TypeInv /\ [Next]_vars =>
        [lock # NoOne /\ lock' # lock =>
           \/ call[lock].at = "unlock" /\ call'[lock].at # "unlock"
           \/ call' = call]_vars
  BY <1>1 DEF LockKept
<1> QED
  BY <1>2, TypeCorrect, PTL DEF Spec, OwnLockOnly

-----------------------------------------------------------------------------
(* Slots *)

LEMMA FiniteCounts ==
  ASSUME NEW u \in Users
  PROVE  /\ IsFiniteSet(Available(u)) /\ Cardinality(Available(u)) \in Nat
         /\ IsFiniteSet(Holding(u)) /\ Cardinality(Holding(u)) \in Nat
<1>1. IsFiniteSet(Windows)
  BY Bounds, FS_Interval DEF Windows
<1>2. IsFiniteSet(Conns)
  <2>1. Conns \subseteq Procs
    BY DEF Procs
  <2> QED
    BY <2>1, FairnessAssumption, FS_Subset
<1>3. Available(u) \subseteq Windows /\ Holding(u) \subseteq Conns
  BY DEF Available, Holding
<1> QED
  BY <1>1, <1>2, <1>3, FS_Subset, FS_CardinalityType

\* Steps that make no slot and take none.
LEMMA CoveredStep ==
  ASSUME TypeInv, SlotsCovered, NEW u \in Users,
         Available(u)' \subseteq Available(u), Holding(u)' \subseteq Holding(u),
         uses'[u] = uses[u], wins'[u] = wins[u]
  PROVE  uses'[u] + Cardinality(Available(u)') + Cardinality(Holding(u)') <= wins'[u]
<1>1. /\ Cardinality(Available(u)') <= Cardinality(Available(u))
      /\ Cardinality(Holding(u)') <= Cardinality(Holding(u))
      /\ Cardinality(Available(u)') \in Nat /\ Cardinality(Holding(u)') \in Nat
  BY FiniteCounts, FS_Subset, FS_CardinalityType
<1>2. uses[u] + Cardinality(Available(u)) + Cardinality(Holding(u)) <= wins[u]
  BY DEF SlotsCovered
<1>3. uses[u] \in Nat /\ wins[u] \in Nat
  BY DEF TypeInv, TypeOK
<1> QED
  BY <1>1, <1>2, <1>3, FiniteCounts

\* A call that holds no claimed slot after its step takes none.
LEMMA HoldingStep ==
  ASSUME TypeInv, ClaimsAreLate, NEW p \in Procs,
         \A q \in Procs : q # p => call'[q] = call[q], call'[p].claim = FALSE
  PROVE  ClaimsAreLate' /\ \A u \in Users : Holding(u)' \subseteq Holding(u)
<1>1. ClaimsAreLate'
  BY DEF ClaimsAreLate
<1>2. ASSUME NEW u \in Users PROVE Holding(u)' \subseteq Holding(u)
  BY ConnsAreProcs DEF Holding
<1> QED
  BY <1>1, <1>2

LEMMA SlotsInit == Init => ClaimsAreLate /\ SlotsCovered
<1> SUFFICES ASSUME Init PROVE ClaimsAreLate /\ SlotsCovered
  OBVIOUS
<1>1. ClaimsAreLate
  BY DEF Init, ClaimsAreLate, Idle
<1>2. ASSUME NEW u \in Users PROVE Available(u) = {} /\ Holding(u) = {}
  BY ConnsAreProcs DEF Init, Available, Holding, Idle
<1>3. ASSUME NEW u \in Users
      PROVE  uses[u] + Cardinality(Available(u)) + Cardinality(Holding(u)) <= wins[u]
  <2>1. uses[u] = 0 /\ wins[u] = 0
    BY DEF Init
  <2>2. Cardinality(Available(u)) = 0 /\ Cardinality(Holding(u)) = 0
    BY <1>2, FS_EmptySet
  <2> QED
    BY <2>1, <2>2
<1> QED
  BY <1>1, <1>3 DEF SlotsCovered

LEMMA SlotsTime ==
  ASSUME TypeInv, ClaimsAreLate, SlotsCovered,
         QueueingEnds \/ KeysExpire \/ LockExpires \/ Restart
  PROVE  ClaimsAreLate' /\ SlotsCovered'
<1> USE DEF shop, ghost
<1>1. ClaimsAreLate' /\ \A u \in Users : Holding(u)' \subseteq Holding(u)
  <2>1. CASE call' = call
    BY <2>1 DEF ClaimsAreLate, Holding
  <2>2. CASE Restart
    BY <2>2, ConnsAreProcs DEF Restart, ClaimsAreLate, Holding, Idle
  <2> QED
    BY <2>1, <2>2 DEF QueueingEnds, KeysExpire, LockExpires
<1>2. ASSUME NEW u \in Users PROVE Available(u)' \subseteq Available(u)
  <2>1. CASE result' = result
    BY <2>1 DEF Available
  <2>2. CASE KeysExpire
    BY <2>2, Bounds DEF KeysExpire, Available, TypeInv, TypeOK, Windows
  <2> QED
    BY <2>1, <2>2 DEF QueueingEnds, LockExpires, Restart
<1>3. uses' = uses /\ wins' = wins
  BY DEF QueueingEnds, KeysExpire, LockExpires, Restart
<1> QED
  BY <1>1, <1>2, <1>3, CoveredStep DEF SlotsCovered

\* Steps of a draw but the publishing one.
LEMMA DrawMoves ==
  ASSUME TypeInv, ClaimsAreLate, NEW p \in Procs, Draw(p)
  PROVE  /\ call'[p].claim = FALSE
         /\ \A q \in Procs : q # p => call'[q] = call[q]
         /\ uses' = uses
         /\ Publish(p) \/ (result' = result /\ wins' = wins)
<1> USE DEF redis, shop, ghost
<1>0. call \in [Procs -> Calls] /\ call[p] \in Calls
  BY DEF TypeInv, TypeOK
<1>1. call[p].claim = FALSE
  BY <1>0 DEF Draw, ReadStock, TakeLock, Verify, MarkProcessing, ReadMembers, Publish,
              DrawFails, ReleaseLock, ClaimsAreLate, Calls
<1>2. ASSUME NEW step, Goto(p, step)
      PROVE  call'[p].claim = FALSE /\ \A q \in Procs : q # p => call'[q] = call[q]
  BY <1>0, <1>1, <1>2 DEF Goto, Proceed, Calls
<1>3. ASSUME AfterDraw(p)
      PROVE  call'[p].claim = FALSE /\ \A q \in Procs : q # p => call'[q] = call[q]
  BY <1>0, <1>3, AfterDrawType
<1>4. CASE ReadStock(p)
  BY <1>0, <1>1, <1>4 DEF ReadStock, Proceed, Calls
<1>5. CASE TakeLock(p)
  BY <1>2, <1>3, <1>5 DEF TakeLock
<1>6. CASE Verify(p) \/ MarkProcessing(p) \/ DrawFails(p)
  BY <1>2, <1>6 DEF Verify, MarkProcessing, DrawFails
<1>7. CASE ReadMembers(p)
  BY <1>0, <1>1, <1>7 DEF ReadMembers, Proceed, Calls
<1>8. CASE Publish(p)
  <2>1. Goto(p, "unlock") /\ uses' = uses
    BY <1>8 DEF Publish
  <2>2. call'[p].claim = FALSE /\ \A q \in Procs : q # p => call'[q] = call[q]
    BY <1>2, <2>1
  <2> QED
    BY <1>8, <2>1, <2>2
<1>9. CASE ReleaseLock(p)
  BY <1>3, <1>9 DEF ReleaseLock
<1> QED
  BY <1>4, <1>5, <1>6, <1>7, <1>8, <1>9 DEF Draw

LEMMA SlotsDraw ==
  ASSUME TypeInv, ClaimsAreLate, SlotsCovered, NEW p \in Procs, Draw(p)
  PROVE  ClaimsAreLate' /\ SlotsCovered'
<1>1. ClaimsAreLate' /\ \A u \in Users : Holding(u)' \subseteq Holding(u)
  BY DrawMoves, HoldingStep
<1>2. CASE result' = result /\ wins' = wins
  BY <1>1, <1>2, DrawMoves, CoveredStep DEF SlotsCovered, Available
<1>3. CASE Publish(p)
  <2> DEFINE w == call[p].win
             winners == FirstByHash(call[p].members, w, call[p].inv)
  <2>1. w \in Windows
    BY <1>3 DEF Publish, TypeInv, TypeOK, CallsFit, Calls, Windows
  <2>2. /\ \A u \in Users : wins'[u] = IF u \in winners THEN wins[u] + 1 ELSE wins[u]
        /\ \A v \in Windows \ {w}, u \in Users : result'[v][u] = result[v][u]
        /\ \A u \in Users \ winners : result'[w][u] # "AVAILABLE"
    BY <1>3, <2>1 DEF Publish, TypeInv, TypeOK
  <2>3. uses' = uses
    BY DrawMoves
  <2> HIDE DEF w, winners
  <2>4. ASSUME NEW u \in Users
        PROVE  uses'[u] + Cardinality(Available(u)') + Cardinality(Holding(u)') <= wins'[u]
    <3>1. CASE u \notin winners
      <4>1. Available(u)' \subseteq Available(u)
        BY <2>2, <3>1 DEF Available
      <4> QED
        BY <1>1, <2>2, <2>3, <3>1, <4>1, CoveredStep
    <3>2. CASE u \in winners
      <4>1. Available(u)' \subseteq Available(u) \cup {w}
        BY <2>2 DEF Available
      <4>2. /\ IsFiniteSet(Available(u) \cup {w})
            /\ Cardinality(Available(u) \cup {w}) <= Cardinality(Available(u)) + 1
            /\ Cardinality(Available(u) \cup {w}) \in Nat
        <5>1. IsFiniteSet(Available(u)) /\ Cardinality(Available(u)) \in Nat
          BY FiniteCounts
        <5>2. /\ IsFiniteSet(Available(u) \cup {w})
              /\ \/ Cardinality(Available(u) \cup {w}) = Cardinality(Available(u))
                 \/ Cardinality(Available(u) \cup {w}) = Cardinality(Available(u)) + 1
          BY <5>1, FS_AddElement
        <5> QED
          BY <5>1, <5>2
      <4>3. /\ Cardinality(Available(u)') <= Cardinality(Available(u) \cup {w})
            /\ Cardinality(Available(u)') \in Nat
        BY <4>1, <4>2, FS_Subset, FS_CardinalityType
      <4>4. /\ Cardinality(Holding(u)') <= Cardinality(Holding(u))
            /\ Cardinality(Holding(u)') \in Nat
        BY <1>1, FiniteCounts, FS_Subset, FS_CardinalityType
      <4>5. uses[u] + Cardinality(Available(u)) + Cardinality(Holding(u)) <= wins[u]
        BY DEF SlotsCovered
      <4>6. uses[u] \in Nat /\ wins[u] \in Nat /\ wins'[u] = wins[u] + 1 /\ uses'[u] = uses[u]
        BY <2>2, <2>3, <3>2 DEF TypeInv, TypeOK
      <4> QED
        BY <4>2, <4>3, <4>4, <4>5, <4>6, FiniteCounts
    <3> QED
      BY <3>1, <3>2
  <2> QED
    BY <1>1, <2>4 DEF SlotsCovered
<1> QED
  BY <1>2, <1>3, DrawMoves

\* What a step of a request does to the slots it holds.
LEMMA SlotsRequest ==
  ASSUME ~RedisFails, TypeInv, TypeInv', ClaimsAreLate, SlotsCovered,
         NEW c \in Conns, Request(c)
  PROVE  ClaimsAreLate' /\ SlotsCovered'
<1> USE DEF redis, shop, ghost
<1>0. /\ c \in Procs /\ call[c] \in Calls /\ call \in [Procs -> Calls]
      /\ call[c].claim \in BOOLEAN
      /\ \A q \in Procs : q # c => call'[q] = call[q]
  BY ConnsAreProcs, RequestMoves DEF TypeInv, TypeOK, Calls
<1>1. call[c].user \in Users
  BY DEF Request, MeasurePressure, CheckReady, CheckQueueResult, ClaimSlot, JoinQueue,
         Enqueue, BuyAgain, Buy, BuyFails, LookupFails, CompleteSlot, GiveBackSlot,
         CacheResponse, TypeInv, CallsFit
<1>2. \A u \in Users : uses[u] \in Nat /\ wins[u] \in Nat
  BY DEF TypeInv, TypeOK
<1>3. ASSUME call'[c].claim = FALSE, result' = result, uses' = uses, wins' = wins
      PROVE  ClaimsAreLate' /\ SlotsCovered'
  <2>1. ClaimsAreLate' /\ \A u \in Users : Holding(u)' \subseteq Holding(u)
    BY <1>0, <1>3, HoldingStep
  <2>2. \A u \in Users : Available(u)' \subseteq Available(u)
    BY <1>3 DEF Available
  <2> QED
    BY <1>3, <2>1, <2>2, CoveredStep DEF SlotsCovered
<1>4. ASSUME NEW step, Goto(c, step)
      PROVE  /\ call'[c].at = step /\ call'[c].claim = call[c].claim
             /\ call'[c].user = call[c].user
  BY <1>0, <1>4 DEF Goto, Proceed, Calls
<1>5. ASSUME Finish(c)
      PROVE  call'[c].claim = FALSE
  BY <1>0, <1>5 DEF Finish, Proceed, Idle
<1>6. ASSUME call[c].at \notin {"buy", "complete", "cache", "giveback"}
      PROVE  call[c].claim = FALSE
  BY <1>0, <1>6 DEF ClaimsAreLate
<1>late. ASSUME NEW step \in {"complete", "cache", "giveback"}, Goto(c, step),
                step = "giveback" => call[c].at = "buy"
         PROVE  ClaimsAreLate' /\ \A u \in Users : Holding(u)' \subseteq Holding(u)
  <2>1. ClaimsAreLate'
    BY <1>0, <1>4, <1>late DEF ClaimsAreLate
  <2>2. ASSUME NEW u \in Users PROVE Holding(u)' \subseteq Holding(u)
    BY <1>0, <1>4, <1>late, ConnsAreProcs DEF Holding
  <2> QED
    BY <2>1, <2>2
<1>7. CASE MeasurePressure(c)
  <2>1. call'[c].claim = FALSE
    BY <1>4, <1>6, <1>7 DEF MeasurePressure
  <2> QED
    BY <1>3, <1>7, <2>1 DEF MeasurePressure
<1>8. CASE CheckReady(c)
  <2>1. call[c].claim = FALSE
    BY <1>6, <1>8 DEF CheckReady
  <2>2. CASE Goto(c, "check")
    BY <1>3, <1>4, <1>8, <2>1, <2>2 DEF CheckReady
  <2>3. CASE Proceed(c, [call[c] EXCEPT !.at = "stock", !.win = window])
    <3>1. call'[c].claim = FALSE
      BY <1>0, <2>1, <2>3 DEF Proceed, Calls
    <3> QED
      BY <1>3, <1>8, <3>1 DEF CheckReady
  <2> QED
    BY <1>8, <2>2, <2>3 DEF CheckReady
<1>9. CASE CheckQueueResult(c)
  <2>1. call'[c].claim = FALSE
    BY <1>4, <1>5, <1>6, <1>9 DEF CheckQueueResult
  <2> QED
    BY <1>3, <1>9, <2>1 DEF CheckQueueResult
<1>10. CASE JoinQueue(c)
  <2>1. call[c].claim = FALSE
    BY <1>6, <1>10 DEF JoinQueue
  <2>2. CASE Goto(c, "buy")
    BY <1>3, <1>4, <1>10, <2>1, <2>2 DEF JoinQueue
  <2>3. CASE Proceed(c, [call[c] EXCEPT !.at = "enqueue", !.win = window])
    <3>1. call'[c].claim = FALSE
      BY <1>0, <2>1, <2>3 DEF Proceed, Calls
    <3> QED
      BY <1>3, <1>10, <3>1 DEF JoinQueue
  <2> QED
    BY <1>10, <2>2, <2>3 DEF JoinQueue
<1>11. CASE Enqueue(c) \/ LookupFails(c)
  BY <1>3, <1>5, <1>11 DEF Enqueue, LookupFails
<1>12. CASE CacheResponse(c)
  BY <1>3, <1>5, <1>12 DEF CacheResponse
<1>13. CASE BuyAgain(c) \/ BuyFails(c)
  <2>1. CASE Finish(c)
    BY <1>3, <1>5, <1>13, <2>1 DEF BuyAgain, BuyFails
  <2>2. CASE Goto(c, "complete") \/ Goto(c, "giveback")
    <3>1. call[c].at = "buy" /\ result' = result /\ uses' = uses /\ wins' = wins
      BY <1>13 DEF BuyAgain, BuyFails
    <3>2. ClaimsAreLate' /\ \A u \in Users : Holding(u)' \subseteq Holding(u)
      BY <1>late, <2>2, <3>1
    <3>3. \A u \in Users : Available(u)' \subseteq Available(u)
      BY <3>1 DEF Available
    <3> QED
      BY <3>1, <3>2, <3>3, CoveredStep DEF SlotsCovered
  <2> QED
    BY <1>13, <2>1, <2>2 DEF BuyAgain, BuyFails
<1>14. CASE Buy(c)
  <2>0. PICK b \in Users : b = call[c].user
    BY <1>1
  <2>1. call[c].at = "buy" /\ Goto(c, "complete") /\ result' = result /\ wins' = wins
    BY <1>14 DEF Buy
  <2>2. ClaimsAreLate' /\ \A u \in Users : Holding(u)' \subseteq Holding(u)
    BY <1>late, <2>1
  <2>3. \A u \in Users : Available(u)' = Available(u)
    BY <2>1 DEF Available
  <2>4. ASSUME NEW u \in Users, uses'[u] = uses[u]
        PROVE  uses'[u] + Cardinality(Available(u)') + Cardinality(Holding(u)') <= wins'[u]
    BY <2>1, <2>2, <2>3, <2>4, CoveredStep
  <2>5. CASE ~call[c].claim
    <3>1. \A u \in Users : uses'[u] = uses[u]
      BY <2>0, <1>14, <2>5 DEF Buy, TypeInv, TypeOK
    <3> QED
      BY <2>2, <2>4, <3>1 DEF SlotsCovered
  <2>6. CASE call[c].claim
    <3>1. /\ uses'[b] = uses[b] + 1
          /\ \A u \in Users : u # b => uses'[u] = uses[u]
      BY <2>0, <1>14, <2>6 DEF Buy, TypeInv, TypeOK
    <3>2. c \in Holding(b) /\ Holding(b)' \subseteq Holding(b) \ {c}
      <4>1. call'[c].at = "complete"
        BY <1>4, <2>1
      <4> QED
        BY <2>0, <2>1, <2>2, <2>6, <4>1 DEF Holding
    <3>3. /\ IsFiniteSet(Holding(b) \ {c})
          /\ Cardinality(Holding(b) \ {c}) = Cardinality(Holding(b)) - 1
      BY <2>0, <3>2, FiniteCounts, FS_RemoveElement
    <3>4. /\ Cardinality(Holding(b)') <= Cardinality(Holding(b)) - 1
          /\ Cardinality(Holding(b)') \in Nat
      BY <3>2, <3>3, FS_Subset, FS_CardinalityType
    <3>5. uses[b] + Cardinality(Available(b)) + Cardinality(Holding(b)) <= wins[b]
      BY <1>1 DEF SlotsCovered
    <3>6. uses'[b] + Cardinality(Available(b)') + Cardinality(Holding(b)') <= wins'[b]
      <4>1. Available(b)' = Available(b) /\ wins'[b] = wins[b]
        BY <2>0, <2>1, <2>3
      <4>2. Cardinality(Available(b)) \in Nat /\ Cardinality(Holding(b)) \in Nat
        BY <2>0, FiniteCounts
      <4>3. uses[b] \in Nat /\ wins[b] \in Nat
        BY <1>2
      <4> QED
        BY <3>1, <3>4, <3>5, <4>1, <4>2, <4>3
    <3> QED
      BY <2>2, <2>4, <3>1, <3>6 DEF SlotsCovered
  <2> QED
    BY <1>0, <2>5, <2>6
<1>15. CASE ClaimSlot(c)
  <2>0. PICK b \in Users : b = call[c].user
    BY <1>1
  <2> DEFINE a == [call[c] EXCEPT !.at = "buy", !.claim = TRUE]
  <2>1. CASE Finish(c) /\ UNCHANGED result
    BY <1>3, <1>5, <1>15, <2>1 DEF ClaimSlot
  <2>2. CASE SlotOf(b) = "AVAILABLE" /\ SetSlot(b, "CLAIMED") /\ Proceed(c, a)
    <3>1. window \in Windows /\ result[window][b] = "AVAILABLE"
      BY <2>2, Bounds DEF SlotOf, TypeInv, TypeOK, Windows
    <3>2. /\ result'[window][b] = "CLAIMED"
          /\ \A v \in Windows, u \in Users :
               v # window \/ u # b => result'[v][u] = result[v][u]
      BY <2>0, <2>2, <3>1 DEF SetSlot, TypeInv, TypeOK
    <3>3. call'[c].at = "buy" /\ call'[c].claim = TRUE /\ call'[c].user = b
      BY <1>0, <2>0, <2>2 DEF Proceed, Calls
    <3>4. call[c].at = "claim" /\ uses' = uses /\ wins' = wins
      BY <1>15 DEF ClaimSlot
    <3>5. b \in Users
      OBVIOUS
    <3>6. ClaimsAreLate'
      BY <1>0, <3>3 DEF ClaimsAreLate
    <3>7. ASSUME NEW u \in Users, u # b
          PROVE  Available(u)' \subseteq Available(u) /\ Holding(u)' \subseteq Holding(u)
      BY <1>0, <3>2, <3>3, <3>7, ConnsAreProcs DEF Available, Holding
    <3>8. Available(b)' \subseteq Available(b) \ {window} /\ window \in Available(b)
      BY <3>1, <3>2, <3>5 DEF Available
    <3>9. Holding(b)' \subseteq Holding(b) \cup {c}
      BY <1>0, ConnsAreProcs DEF Holding
    <3>10. /\ Cardinality(Available(b)') <= Cardinality(Available(b)) - 1
           /\ Cardinality(Available(b)') \in Nat
      <4>1. /\ IsFiniteSet(Available(b) \ {window})
            /\ Cardinality(Available(b) \ {window}) = Cardinality(Available(b)) - 1
        BY <3>5, <3>8, FiniteCounts, FS_RemoveElement
      <4> QED
        BY <3>8, <4>1, FS_Subset, FS_CardinalityType
    <3>11. /\ Cardinality(Holding(b)') <= Cardinality(Holding(b)) + 1
           /\ Cardinality(Holding(b)') \in Nat
      <4>1. IsFiniteSet(Holding(b)) /\ Cardinality(Holding(b)) \in Nat
        BY <3>5, FiniteCounts
      <4>2. /\ IsFiniteSet(Holding(b) \cup {c})
            /\ \/ Cardinality(Holding(b) \cup {c}) = Cardinality(Holding(b))
               \/ Cardinality(Holding(b) \cup {c}) = Cardinality(Holding(b)) + 1
        BY <4>1, FS_AddElement
      <4>3. /\ Cardinality(Holding(b)') <= Cardinality(Holding(b) \cup {c})
            /\ Cardinality(Holding(b)') \in Nat
        BY <3>9, <4>2, FS_Subset, FS_CardinalityType
      <4> QED
        BY <4>1, <4>2, <4>3
    <3>12. uses'[b] + Cardinality(Available(b)') + Cardinality(Holding(b)') <= wins'[b]
      <4>1. uses[b] + Cardinality(Available(b)) + Cardinality(Holding(b)) <= wins[b]
        BY <3>5 DEF SlotsCovered
      <4> QED
        BY <1>2, <3>4, <3>5, <3>10, <3>11, <4>1, FiniteCounts
    <3> QED
      BY <3>4, <3>6, <3>7, <3>12, CoveredStep DEF SlotsCovered
  <2> QED
    BY <1>15, <2>0, <2>1, <2>2 DEF ClaimSlot
<1>16. CASE CompleteSlot(c)
  <2>0. PICK b \in Users : b = call[c].user
    BY <1>1
  <2>1. call[c].at = "complete" /\ Goto(c, "cache") /\ uses' = uses /\ wins' = wins
    BY <1>16 DEF CompleteSlot
  <2>2. ClaimsAreLate' /\ \A u \in Users : Holding(u)' \subseteq Holding(u)
    BY <1>late, <2>1
  <2>3. ASSUME NEW u \in Users PROVE Available(u)' \subseteq Available(u)
    <3>1. CASE SetSlot(b, "CONSUMED") /\ SlotOf(b) = "CLAIMED"
      <4>1. window \in Windows
        BY <3>1, Bounds DEF SlotOf, TypeInv, TypeOK, Windows
      <4> QED
        BY <2>0, <3>1, <4>1 DEF SetSlot, Available, TypeInv, TypeOK
    <3>2. CASE UNCHANGED result
      BY <3>2 DEF Available
    <3> QED
      BY <1>16, <2>0, <3>1, <3>2 DEF CompleteSlot, SlotAfter
  <2> QED
    BY <2>1, <2>2, <2>3, CoveredStep DEF SlotsCovered
<1>17. CASE GiveBackSlot(c)
  <2>0. PICK b \in Users : b = call[c].user
    BY <1>1
  <2>1. call[c].at = "giveback" /\ call'[c].claim = FALSE /\ uses' = uses /\ wins' = wins
    BY <1>5, <1>17 DEF GiveBackSlot
  <2>2. CASE UNCHANGED result
    BY <1>3, <2>1, <2>2
  <2>3. CASE call[c].claim /\ SlotOf(b) = "CLAIMED" /\ SetSlot(b, "AVAILABLE")
    <3>1. window \in Windows
      BY <2>3, Bounds DEF SlotOf, TypeInv, TypeOK, Windows
    <3>2. \A v \in Windows, u \in Users :
            v # window \/ u # b => result'[v][u] = result[v][u]
      BY <2>0, <2>3, <3>1 DEF SetSlot, TypeInv, TypeOK
    <3>3. b \in Users /\ c \in Holding(b)
      BY <2>0, <2>1, <2>3 DEF Holding
    <3>4. ClaimsAreLate' /\ \A u \in Users : Holding(u)' \subseteq Holding(u) \ {c}
      <4>1. ClaimsAreLate' /\ \A u \in Users : Holding(u)' \subseteq Holding(u)
        BY <1>0, <2>1, HoldingStep
      <4> QED
        BY <2>1, <4>1 DEF Holding
    <3>5. ASSUME NEW u \in Users, u # b PROVE Available(u)' \subseteq Available(u)
      BY <3>2, <3>5 DEF Available
    <3>6. Available(b)' \subseteq Available(b) \cup {window}
      BY <3>2, <3>3 DEF Available
    <3>7. /\ Cardinality(Available(b)') <= Cardinality(Available(b)) + 1
          /\ Cardinality(Available(b)') \in Nat
      <4>1. IsFiniteSet(Available(b)) /\ Cardinality(Available(b)) \in Nat
        BY <3>3, FiniteCounts
      <4>2. /\ IsFiniteSet(Available(b) \cup {window})
            /\ \/ Cardinality(Available(b) \cup {window}) = Cardinality(Available(b))
               \/ Cardinality(Available(b) \cup {window}) = Cardinality(Available(b)) + 1
        BY <4>1, FS_AddElement
      <4>3. /\ Cardinality(Available(b)') <= Cardinality(Available(b) \cup {window})
            /\ Cardinality(Available(b)') \in Nat
        BY <3>6, <4>2, FS_Subset, FS_CardinalityType
      <4> QED
        BY <4>1, <4>2, <4>3
    <3>8. /\ Cardinality(Holding(b)') <= Cardinality(Holding(b)) - 1
          /\ Cardinality(Holding(b)') \in Nat
      <4>1. /\ IsFiniteSet(Holding(b) \ {c})
            /\ Cardinality(Holding(b) \ {c}) = Cardinality(Holding(b)) - 1
        BY <3>3, FiniteCounts, FS_RemoveElement
      <4>2. Holding(b)' \subseteq Holding(b) \ {c}
        BY <3>3, <3>4
      <4> QED
        BY <4>1, <4>2, FS_Subset, FS_CardinalityType
    <3>9. uses'[b] + Cardinality(Available(b)') + Cardinality(Holding(b)') <= wins'[b]
      <4>1. uses[b] + Cardinality(Available(b)) + Cardinality(Holding(b)) <= wins[b]
        BY <3>3 DEF SlotsCovered
      <4> QED
        BY <1>2, <2>1, <3>3, <3>7, <3>8, <4>1, FiniteCounts
    <3>10. \A u \in Users : Holding(u)' \subseteq Holding(u)
      BY <3>4
    <3> QED
      BY <2>1, <3>4, <3>5, <3>9, <3>10, CoveredStep DEF SlotsCovered
  <2> QED
    BY <1>17, <2>0, <2>2, <2>3 DEF GiveBackSlot, SlotAfter
<1> QED
  BY <1>7, <1>8, <1>9, <1>10, <1>11, <1>12, <1>13, <1>14, <1>15, <1>16, <1>17 DEF Request

LEMMA SlotsNext ==
  ASSUME ~RedisFails, TypeInv, ClaimsAreLate, SlotsCovered, [Next]_vars
  PROVE  ClaimsAreLate' /\ SlotsCovered'
<1>0. TypeInv'
  BY TypeNext
<1>1. CASE UNCHANGED vars
  BY <1>1 DEF vars, redis, ghost, ClaimsAreLate, SlotsCovered, Available, Holding
<1>2. CASE QueueingEnds \/ KeysExpire \/ LockExpires \/ Restart
  BY <1>2, SlotsTime
<1>3. CASE \E p \in Procs : Draw(p)
  BY <1>3, SlotsDraw
<1>4. CASE \E d \in Drawers : Background(d)
  <2>1. PICK d \in Drawers : Background(d)
    BY <1>4
  <2>2. d \in Procs /\ d \notin Conns
    BY FairnessAssumption DEF Procs
  <2>3. \A q \in Conns : call'[q] = call[q]
    BY <2>1, <2>2, BackgroundMoves, ConnsAreProcs
  <2>4. \A u \in Users : Holding(u)' = Holding(u) /\ Available(u)' = Available(u)
    BY <2>1, <2>3, BackgroundMoves DEF Holding, Available
  <2>5. ClaimsAreLate'
    <3>1. call[d].claim = FALSE
      BY <2>1, <2>2 DEF Background, TimerFires, MonitorStarts, MonitorMeasures, MonitorDraws,
                        AdminDraws, ClaimsAreLate, TypeInv, TypeOK, Calls
    <3>2. call'[d].claim = FALSE /\ \A q \in Procs : q # d => call'[q] = call[q]
      BY <2>1, <3>1, BackgroundMoves
    <3> QED
      BY <2>2, <3>2, HoldingStep
  <2> QED
    BY <2>1, <2>4, <2>5, BackgroundMoves DEF SlotsCovered
<1>5. CASE \E c \in Conns : Request(c)
  BY <1>0, <1>5, SlotsRequest
<1>6. ASSUME NEW c \in Conns, NEW u \in Users, NEW k \in Keys, Arrive(c, u, k)
      PROVE  ClaimsAreLate' /\ SlotsCovered'
  <2>1. c \in Procs /\ call[c] \in Calls /\ call \in [Procs -> Calls] /\ call[c].claim = FALSE
    BY <1>6, ConnsAreProcs DEF Arrive, ClaimsAreLate, TypeInv, TypeOK, Calls
  <2>2. call'[c].claim = FALSE /\ \A q \in Procs : q # c => call'[q] = call[q]
    BY <1>6, <2>1 DEF Arrive, Proceed, Calls
  <2>3. ClaimsAreLate' /\ \A v \in Users : Holding(v)' \subseteq Holding(v)
    BY <2>1, <2>2, HoldingStep
  <2>4. \A v \in Users : Available(v)' \subseteq Available(v)
    BY <1>6 DEF Arrive, redis, Available
  <2> QED
    BY <1>6, <2>3, <2>4, CoveredStep DEF SlotsCovered, Arrive, ghost
<1> QED
  BY <1>1, <1>2, <1>3, <1>4, <1>5, <1>6 DEF Next, Background

\* As long as every Redis call of a draw and of a purchase succeeds, nobody
\* buys more often on a slot than he was drawn.
THEOREM NoSlotMultiplies ==
  ASSUME ~RedisFails
  PROVE  Spec => []SlotsNeverMultiply
<1>1. TypeInv /\ ClaimsAreLate /\ SlotsCovered /\ [Next]_vars
        => ClaimsAreLate' /\ SlotsCovered'
  BY SlotsNext
<1>2. TypeInv /\ SlotsCovered => SlotsNeverMultiply
  <2> SUFFICES ASSUME TypeInv, SlotsCovered, NEW u \in Users PROVE uses[u] <= wins[u]
    BY DEF SlotsNeverMultiply
  <2>1. uses[u] + Cardinality(Available(u)) + Cardinality(Holding(u)) <= wins[u]
    BY DEF SlotsCovered
  <2>2. uses[u] \in Nat /\ wins[u] \in Nat
    BY DEF TypeInv, TypeOK
  <2> QED
    BY <2>1, <2>2, FiniteCounts
<1> QED
  BY <1>1, <1>2, SlotsInit, TypeCorrect, PTL DEF Spec
=============================================================================
