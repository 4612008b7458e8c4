--------------------------- MODULE CondMonitorProofs ---------------------------
(***************************************************************************)
(* Proofs about GuestCond and CondMonitor, for every finite set of threads *)
(* and every bound.  The monitor uses the condition variable as GuestCond  *)
(* lets anybody use it, so what is proved of GuestCond holds in it too.    *)
(***************************************************************************)
EXTENDS CondMonitor, BlockingCallProofs, FiniteSetTheorems

\* Threads on their way to look at the wakes owed.
OnTheWay == {t \in Threads : Turn(t)}

CondTypeOK ==
  /\ owed \in Nat
  /\ waiting \in Nat
  /\ recipients \subseteq Threads

IInv == WaitInv /\ CondTypeOK /\ WaitingIsExact /\ NoStrandedWake

-----------------------------------------------------------------------------
(* Counting threads *)

\* Every set of threads has a number of elements, larger sets no smaller one.
LEMMA Counted ==
  ASSUME NEW S \in SUBSET Threads
  PROVE  /\ Cardinality(S) \in Nat
         /\ \A T \in SUBSET S : Cardinality(T) \in Nat /\ Cardinality(T) <= Cardinality(S)
         /\ Cardinality(S) > 0 => S # {}
<1>1. IsFiniteSet(S)
  BY FiniteThreads, FS_Subset
<1>2. \A T \in SUBSET S : IsFiniteSet(T) /\ Cardinality(T) <= Cardinality(S)
  BY <1>1, FS_Subset
<1>3. Cardinality(S) \in Nat /\ \A T \in SUBSET S : Cardinality(T) \in Nat
  BY <1>1, <1>2, FS_CardinalityType
<1>4. S = {} => Cardinality(S) = 0
  BY FS_EmptySet
<1> QED BY <1>2, <1>3, <1>4

\* One thread more is one more.
LEMMA OneMore ==
  ASSUME NEW S \in SUBSET Threads, NEW t \in Threads, t \notin S
  PROVE  Cardinality(S \cup {t}) = Cardinality(S) + 1
<1>1. IsFiniteSet(S)
  BY FiniteThreads, FS_Subset
<1> QED BY <1>1, FS_AddElement

\* One less is one less.
LEMMA OneLess ==
  ASSUME NEW S \in SUBSET Threads, NEW t \in S
  PROVE  Cardinality(S \ {t}) = Cardinality(S) - 1
<1>1. IsFiniteSet(S)
  BY FiniteThreads, FS_Subset
<1> QED BY <1>1, FS_RemoveElement

-----------------------------------------------------------------------------
(* GuestCond *)

\* The condition variable begins in the invariant.
LEMMA InitIInv == Init => IInv
<1> SUFFICES ASSUME Init PROVE IInv
  OBVIOUS
<1>1. WaitInv
  BY WaitInvInit DEF Init
<1>2. Inside = {} /\ Sleepers(at) = {}
  BY DEF Init, WaitsInit, Inside, Sleepers
<1> QED BY <1>1, <1>2, FS_EmptySet
        DEF Init, IInv, CondTypeOK, WaitingIsExact, NoStrandedWake

\* A step that takes no wake and moves threads only out of the queue, or into
\* the handler while none is owed, preserves the invariant.
LEMMA MovingIInv ==
  ASSUME IInv, WaitInv', UNCHANGED cond,
         \A x \in Threads : at'[x] = "run" <=> at[x] = "run",
         \/ owed = 0
         \/ \A x \in Threads : /\ Turn(x) => Turn(x)'
                               /\ at'[x] = "sleep" => at[x] = "sleep"
  PROVE  IInv'
<1>1. Inside' = Inside
  BY DEF Inside
<1>2. CondTypeOK' /\ WaitingIsExact'
  BY <1>1 DEF IInv, CondTypeOK, WaitingIsExact, cond
<1>3. OnTheWay \in SUBSET Threads /\ OnTheWay' \in SUBSET Threads
  BY DEF OnTheWay
<1>4. Cardinality(OnTheWay) \in Nat /\ Cardinality(OnTheWay') \in Nat
  BY <1>3, Counted
<1>5. CASE owed = 0
  BY <1>2, <1>4, <1>5 DEF IInv, NoStrandedWake, OnTheWay, cond
<1>6. CASE \A x \in Threads : /\ Turn(x) => Turn(x)'
                              /\ at'[x] = "sleep" => at[x] = "sleep"
  <2>1. OnTheWay \in SUBSET OnTheWay'
    BY <1>6 DEF OnTheWay
  <2>2. Cardinality(OnTheWay) <= Cardinality(OnTheWay')
    BY <1>3, <2>1, Counted
  <2>3. Sleepers(at') # {} => Sleepers(at) # {}
    BY <1>6 DEF Sleepers, IInv, WaitInv, WaitsTypeOK
  <2> QED BY <1>2, <1>4, <2>2, <2>3 DEF IInv, CondTypeOK, NoStrandedWake, OnTheWay, cond
<1> QED BY <1>2, <1>5, <1>6 DEF IInv

\* A thread enters the wait.
LEMMA BeginWaitIInv ==
  ASSUME IInv, NEW t \in Threads, NEW u \in Blocking, BeginWait(t, u)
  PROVE  IInv'
<1> USE DEF IInv
<1>1. WaitInv'
  BY TurnInv DEF BeginWait
<1>2. /\ t \notin Inside /\ Inside' = Inside \cup {t}
      /\ t \notin OnTheWay /\ OnTheWay' = OnTheWay \cup {t}
      /\ Sleepers(at') = Sleepers(at)
  BY DEF BeginWait, Enter, Inside, OnTheWay, Turn, Sleepers, WaitInv, WaitsTypeOK
<1>3. Inside \in SUBSET Threads /\ OnTheWay \in SUBSET Threads
  BY DEF Inside, OnTheWay
<1>4. /\ Cardinality(Inside') = Cardinality(Inside) + 1
      /\ Cardinality(OnTheWay') = Cardinality(OnTheWay) + 1
      /\ Cardinality(OnTheWay) \in Nat
  BY <1>2, <1>3, OneMore, Counted
<1> QED BY <1>1, <1>2, <1>4
        DEF BeginWait, CondTypeOK, WaitingIsExact, NoStrandedWake, OnTheWay

\* A thread leaves the wait with a wake, or with none when none is owed.
LEMMA LeaveIInv ==
  ASSUME IInv, NEW t \in Threads, Turn(t), Leave(t),
         \/ owed > 0 /\ owed' = owed - 1
         \/ owed = 0 /\ owed' = owed
  PROVE  IInv'
<1> USE DEF IInv
<1>1. WaitInv'
  BY TurnInv DEF Leave
<1>2. /\ t \in Inside /\ Inside' = Inside \ {t}
      /\ t \in OnTheWay /\ OnTheWay' = OnTheWay \ {t}
      /\ Sleepers(at') = Sleepers(at)
  BY DEF Leave, Return, Inside, OnTheWay, Turn, Sleepers, WaitInv, WaitsTypeOK
<1>3. Inside \in SUBSET Threads /\ OnTheWay \in SUBSET Threads /\ Inside' \in SUBSET Threads
      /\ OnTheWay' \in SUBSET Threads
  BY DEF Inside, OnTheWay
<1>4. /\ Cardinality(Inside') = Cardinality(Inside) - 1
      /\ Cardinality(OnTheWay') = Cardinality(OnTheWay) - 1
      /\ Cardinality(OnTheWay) \in Nat /\ Cardinality(OnTheWay') \in Nat
      /\ Cardinality(Inside') \in Nat
  BY <1>2, <1>3, OneLess, Counted
<1>5. CondTypeOK' /\ WaitingIsExact'
  BY <1>4 DEF Leave, CondTypeOK, WaitingIsExact
<1>6. NoStrandedWake'
  BY <1>2, <1>4 DEF CondTypeOK, NoStrandedWake, OnTheWay
<1> QED BY <1>1, <1>5, <1>6

\* Every turn of the wait loop preserves the invariant.
LEMMA ResumeIInv ==
  ASSUME IInv, NEW t \in Threads, Resume(t)
  PROVE  IInv'
<1>1. CASE TakeWake(t) \/ TimeOut(t)
  BY <1>1, LeaveIInv DEF Resume, TakeWake, TimeOut
<1>2. CASE Deliver(t)
  <2>1. WaitInv'
    BY <1>2, TurnInv DEF Deliver, IInv
  <2> QED BY <1>2, <2>1, MovingIInv DEF Deliver, Interrupt, IInv, WaitInv, WaitsTypeOK
<1>3. CASE Sleep(t)
  <2>1. WaitInv'
    BY <1>3, TurnInv DEF Sleep, IInv
  <2> QED BY <1>3, <2>1, MovingIInv DEF Sleep, FallAsleep, IInv, WaitInv, WaitsTypeOK
<1> QED BY <1>1, <1>2, <1>3 DEF Resume

\* A signal owes one wake more and puts one sleeper on its way.
LEMMA SignalIInv ==
  ASSUME IInv, NEW t \in Threads, Signal(t)
  PROVE  IInv'
<1> USE DEF IInv
<1>1. OnlyWakes(at, at')
  BY NotifyOneEffect DEF Signal, WaitInv, WaitsTypeOK
<1>2. WaitInv'
  BY <1>1, WakeInv DEF Signal
<1>3. Inside' = Inside
  BY <1>1 DEF Inside, OnlyWakes
<1>4. CondTypeOK' /\ WaitingIsExact'
  BY <1>3 DEF Signal, CondTypeOK, WaitingIsExact
<1>5. ASSUME Sleepers(at') # {} PROVE owed' <= Cardinality(OnTheWay')
  <2>1. PICK x \in Sleepers(at) : at' = [at EXCEPT ![x] = "awake"]
    BY <1>5 DEF Signal, NotifyOne
  <2>2. x \in Threads /\ x \notin OnTheWay /\ OnTheWay' = OnTheWay \cup {x}
    BY <2>1 DEF Sleepers, OnTheWay, Turn, WaitInv, WaitsTypeOK
  <2>3. OnTheWay \in SUBSET Threads
    BY DEF OnTheWay
  <2>4. /\ Cardinality(OnTheWay') = Cardinality(OnTheWay) + 1
        /\ Cardinality(OnTheWay) \in Nat
    BY <2>2, <2>3, OneMore, Counted
  <2>5. owed <= Cardinality(OnTheWay)
    BY <2>1 DEF NoStrandedWake, OnTheWay
  <2> QED BY <2>4, <2>5 DEF Signal, CondTypeOK
<1>6. NoStrandedWake'
  BY <1>5 DEF NoStrandedWake, OnTheWay
<1> QED BY <1>2, <1>4, <1>6

\* After a broadcast nobody sleeps.
LEMMA BroadcastIInv ==
  ASSUME IInv, NEW t \in Threads, Broadcast(t)
  PROVE  IInv'
<1> USE DEF IInv
<1>1. OnlyWakes(at, at') /\ Sleepers(at') = {}
  BY NotifyAllEffect DEF Broadcast, WaitInv, WaitsTypeOK
<1>2. WaitInv'
  BY <1>1, WakeInv DEF Broadcast
<1>3. Inside' = Inside /\ Inside \in SUBSET Threads
  BY <1>1 DEF Inside, OnlyWakes
<1>4. CondTypeOK' /\ WaitingIsExact'
  BY <1>3 DEF Broadcast, Larger, CondTypeOK, WaitingIsExact
<1> QED BY <1>1, <1>2, <1>4 DEF NoStrandedWake

\* Every step of a thread preserves the invariant.
LEMMA StepIInv ==
  ASSUME IInv, NEW t \in Threads, Step(t)
  PROVE  IInv'
<1>1. CASE CondWait(t) \/ CondTimedwait(t)
  BY <1>1, BeginWaitIInv DEF CondWait, CondTimedwait, Blocking
<1>2. CASE Resume(t)
  BY <1>2, ResumeIInv
<1>3. CASE Handled(t)
  <2>1. WaitInv'
    BY <1>3, TurnInv DEF Handled, IInv
  <2> QED BY <1>3, <2>1, MovingIInv
          DEF Handled, HandlerReturn, Turn, IInv, WaitInv, WaitsTypeOK
<1>4. CASE Signal(t)
  BY <1>4, SignalIInv
<1>5. CASE Broadcast(t)
  BY <1>5, BroadcastIInv
<1>6. CASE Elsewhere(t) /\ UNCHANGED cond
  <2>1. WaitInv' /\ \A x \in Threads :
          at'[x] = at[x] \/ (at[x] = "sleep" /\ at'[x] \in {"awake", "expired"})
    BY <1>6, ElsewhereInv DEF IInv
  <2> QED BY <1>6, <2>1, MovingIInv DEF Turn
<1> QED BY <1>1, <1>2, <1>3, <1>4, <1>5, <1>6 DEF Step

\* So does every step of the specification.
LEMMA NextIInv == IInv /\ [Next]_vars => IInv'
<1> SUFFICES ASSUME IInv, [Next]_vars PROVE IInv'
  OBVIOUS
<1>1. ASSUME NEW t \in Threads, Step(t) PROVE IInv'
  BY <1>1, StepIInv
<1>2. CASE Nudge /\ UNCHANGED cond
  <2>1. WaitInv' /\ OnlyWakes(at, at')
    BY <1>2, NudgeInv DEF IInv
  <2> QED BY <1>2, <2>1, MovingIInv DEF OnlyWakes, Turn
<1>3. CASE UNCHANGED vars
  <2>1. WaitInv'
    BY <1>3, IdleInv DEF vars, IInv
  <2> QED BY <1>3, <2>1, MovingIInv DEF vars, waits, Turn
<1> QED BY <1>1, <1>2, <1>3 DEF Next

\* Every reachable state of the condition variable satisfies the invariant.
THEOREM Inductive == Spec => []IInv
  BY InitIInv, NextIInv, PTL DEF Spec

\* The count a broadcast pays out by is the number of threads in the wait
\* (cond_wait and cond_broadcast).
THEOREM WaitingCounts == Spec => []WaitingIsExact
<1>1. IInv => WaitingIsExact
  BY DEF IInv
<1> QED BY <1>1, Inductive, PTL

\* While wakes are owed and threads sleep, as many threads are on their way to
\* them as there are wakes (cond_signal's single notify).
THEOREM WakesNotStranded == Spec => []NoStrandedWake
<1>1. IInv => NoStrandedWake
  BY DEF IInv
<1> QED BY <1>1, Inductive, PTL

\* No thread is left asleep with a signal once the raise has nudged the
\* condition variable (cond_wait, nudge_waiters).
THEOREM SignalsNotMissed == Spec => []SignalNotMissed
<1>1. IInv => SignalNotMissed
  BY DEF IInv, WaitInv
<1> QED BY <1>1, Inductive, PTL

-----------------------------------------------------------------------------
(* The monitor *)

\* Takers that have a look at the items ahead of them, with no sleep in between.
Looking == {t \in Threads : pc[t] \in {"back", "check"}}

MonitorPlaces == {"out", "check", "make", "made", "gap", "in", "back"}

\* While the condition variable exists every item has a wake owed for it or a
\* taker that is about to look.
ItemsAreAnnounced == live => items <= owed + Cardinality(Looking)

MonitorInv ==
  /\ IInv
  /\ pc \in [Threads -> MonitorPlaces]
  /\ items \in Nat
  /\ ItemsAreAnnounced

\* What the theorem below asks of the guest.
OneWakePerItem == "broadcast" \notin Announcements \/ MaxItems = 1

\* Every step of the monitor is a step of GuestCond, or leaves it alone.
LEMMA MonitorStepIsStep ==
  ASSUME NEW t \in Threads, MonitorStep(t)
  PROVE  Step(t) \/ UNCHANGED vars
  BY DEF MonitorStep, Lock, Unlock, Make, TakeItem, ReleaseMutex, Wait, Waiting,
         TakeMutexBack, Disturb, DestroyCond, Step, Elsewhere, Outside, vars, cond

\* The monitor uses the condition variable as GuestCond lets anybody use it
\* (pthread_cond_wait reaches it through cond_wait alone).
THEOREM MonitorUsesCond == MonitorSpec => Spec
<1>1. MonitorInit => Init
  BY DEF MonitorInit
<1>2. ASSUME [MonitorNext]_allvars PROVE [Next]_vars
  BY <1>2, MonitorStepIsStep DEF MonitorNext, Next, allvars
<1> QED BY <1>1, <1>2, PTL DEF MonitorSpec, Spec

\* The takers about to look are counted, and moving one of them by one place
\* changes the count by at most one.
LEMMA LookingMoves ==
  ASSUME NEW t \in Threads, NEW place \in MonitorPlaces,
         pc \in [Threads -> MonitorPlaces], Goto(t, place)
  PROVE  /\ pc' \in [Threads -> MonitorPlaces]
         /\ Cardinality(Looking) \in Nat /\ Cardinality(Looking') \in Nat
         /\ Cardinality(Looking') =
              IF t \in Looking
                THEN IF place \in {"back", "check"} THEN Cardinality(Looking)
                                                    ELSE Cardinality(Looking) - 1
                ELSE IF place \in {"back", "check"} THEN Cardinality(Looking) + 1
                                                    ELSE Cardinality(Looking)
<1>1. pc' \in [Threads -> MonitorPlaces]
  BY DEF Goto
<1>2. Looking \in SUBSET Threads /\ Looking' \in SUBSET Threads
  BY DEF Looking
<1>3. Cardinality(Looking) \in Nat /\ Cardinality(Looking') \in Nat
  BY <1>2, Counted
<1>4. Looking' = IF place \in {"back", "check"} THEN Looking \cup {t} ELSE Looking \ {t}
  BY DEF Looking, Goto
<1>5. t \in Looking => Looking \cup {t} = Looking
  OBVIOUS
<1>6. t \notin Looking => Looking \ {t} = Looking
  OBVIOUS
<1> QED BY <1>1, <1>2, <1>3, <1>4, <1>5, <1>6, OneMore, OneLess

\* The monitor begins in the invariant.
LEMMA MonitorInitInv == MonitorInit => MonitorInv
<1> SUFFICES ASSUME MonitorInit PROVE MonitorInv
  OBVIOUS
<1>1. IInv
  BY InitIInv DEF MonitorInit
<1>2. Looking \in SUBSET Threads
  BY DEF Looking
<1>3. Cardinality(Looking) \in Nat
  BY <1>2, Counted
<1> QED BY <1>1, <1>3
        DEF MonitorInit, MonitorInv, ItemsAreAnnounced, IInv, CondTypeOK, MonitorPlaces

\* An item is made and announced.
LEMMA MakeInv ==
  ASSUME OneWakePerItem, MonitorInv, NEW t \in Threads, Make(t)
  PROVE  items' \in Nat /\ ItemsAreAnnounced' /\ pc' \in [Threads -> MonitorPlaces]
<1>1. /\ pc' \in [Threads -> MonitorPlaces]
      /\ Cardinality(Looking) \in Nat
      /\ Cardinality(Looking') = Cardinality(Looking)
  BY LookingMoves DEF Make, MonitorInv, MonitorPlaces, Looking
<1>2. items \in Nat /\ owed \in Nat /\ waiting \in Nat
  BY DEF MonitorInv, IInv, CondTypeOK
<1>3. items' \in Nat
  BY <1>2 DEF Make
<1>4. CASE Signal(t)
  BY <1>1, <1>2, <1>4 DEF Make, Signal, MonitorInv, ItemsAreAnnounced
<1>5. CASE "broadcast" \in Announcements /\ Broadcast(t)
  <2>1. items' = 1
    BY <1>2, <1>5 DEF Make, OneWakePerItem
  <2>2. owed' >= 1 /\ owed' \in Nat
    BY <1>2, <1>5 DEF Broadcast, Larger
  <2> QED BY <1>1, <1>3, <2>1, <2>2 DEF ItemsAreAnnounced
<1>6. CASE ~live /\ UNCHANGED vars
  BY <1>1, <1>3, <1>6 DEF vars, waits, ItemsAreAnnounced
<1> QED BY <1>1, <1>3, <1>4, <1>5, <1>6 DEF Make

\* A thread waits, or goes round in the wait.
LEMMA WaitingKeepsItems ==
  ASSUME MonitorInv, NEW t \in Threads, Wait(t) \/ Waiting(t)
  PROVE  items' \in Nat /\ ItemsAreAnnounced' /\ pc' \in [Threads -> MonitorPlaces]
<1>1. items \in Nat /\ owed \in Nat /\ pc \in [Threads -> MonitorPlaces]
  BY DEF MonitorInv, IInv, CondTypeOK
<1>2. t \notin Looking /\ items' = items /\ (live' => live)
  BY DEF Wait, Waiting, Looking, CondWait, CondTimedwait, BeginWait, Enter, Resume, TakeWake,
         TimeOut, Deliver, Sleep, Leave, Return, Interrupt, FallAsleep, vars, waits
<1>3. CASE Wait(t) /\ Goto(t, "in") /\ owed' = owed
  BY <1>1, <1>2, <1>3, LookingMoves DEF MonitorInv, ItemsAreAnnounced, MonitorPlaces
<1>4. CASE Wait(t) /\ Goto(t, "back") /\ owed' = owed
  BY <1>1, <1>2, <1>4, LookingMoves DEF MonitorInv, ItemsAreAnnounced, MonitorPlaces
<1>5. CASE Waiting(t) /\ UNCHANGED pc
  <2>1. Looking' = Looking
    BY <1>5 DEF Looking
  <2>2. owed' = owed
    BY <1>5 DEF Waiting, Resume, TakeWake, TimeOut, Leave, Return, Deliver, Sleep, cond,
                Goto, MonitorInv, IInv, WaitInv, WaitsTypeOK
  <2> QED BY <1>1, <1>2, <1>5, <2>1, <2>2 DEF MonitorInv, ItemsAreAnnounced
<1>6. CASE Waiting(t) /\ Goto(t, "back")
  <2>1. owed' \in Nat /\ owed' + 1 >= owed
    BY <1>1, <1>6 DEF Waiting, Resume, TakeWake, TimeOut, Deliver, Sleep, cond
  <2>2. /\ pc' \in [Threads -> MonitorPlaces] /\ Cardinality(Looking) \in Nat
        /\ Cardinality(Looking') = Cardinality(Looking) + 1
    BY <1>1, <1>2, <1>6, LookingMoves DEF MonitorPlaces
  <2>3. ASSUME live' PROVE items' <= owed' + Cardinality(Looking')
    <3>1. items <= owed + Cardinality(Looking)
      BY <1>2, <2>3 DEF MonitorInv, ItemsAreAnnounced
    <3>2. \A i, o, p, c \in Nat : i <= o + c /\ p + 1 >= o => i <= p + (c + 1)
      OBVIOUS
    <3> QED BY <1>1, <1>2, <2>1, <2>2, <3>1, <3>2
  <2> QED BY <1>1, <1>2, <2>2, <2>3 DEF ItemsAreAnnounced
<1>7. Wait(t) => owed' = owed /\ (Goto(t, "in") \/ Goto(t, "back"))
  BY DEF Wait, CondWait, CondTimedwait, BeginWait, vars, cond
<1> QED BY <1>3, <1>4, <1>5, <1>6, <1>7 DEF Waiting

\* The guest's own steps under the mutex take an item or nothing.
LEMMA GuestKeepsItems ==
  ASSUME MonitorInv, NEW t \in Threads,
         \/ Lock(t, "check") \/ Lock(t, "make") \/ Unlock(t) \/ TakeItem(t)
         \/ ReleaseMutex(t) \/ TakeMutexBack(t)
  PROVE  items' \in Nat /\ ItemsAreAnnounced' /\ pc' \in [Threads -> MonitorPlaces]
<1>1. /\ items \in Nat /\ owed \in Nat /\ pc \in [Threads -> MonitorPlaces]
      /\ live => items <= owed + Cardinality(Looking)
  BY DEF MonitorInv, IInv, CondTypeOK, ItemsAreAnnounced
<1>2. owed' = owed /\ live' = live
  BY DEF Lock, Unlock, TakeItem, ReleaseMutex, TakeMutexBack, vars, cond, waits
<1>3. CASE Lock(t, "check") \/ TakeMutexBack(t)
  BY <1>1, <1>2, <1>3, LookingMoves
     DEF Lock, TakeMutexBack, ItemsAreAnnounced, MonitorPlaces
<1>4. CASE Lock(t, "make")
  BY <1>1, <1>2, <1>4, LookingMoves DEF Lock, ItemsAreAnnounced, MonitorPlaces, Looking
<1>5. CASE TakeItem(t)
  <2>1. t \in Looking /\ Goto(t, "out") /\ items > 0 /\ items' = items - 1
    BY <1>5 DEF TakeItem, Looking
  <2>2. /\ pc' \in [Threads -> MonitorPlaces] /\ Cardinality(Looking) \in Nat
        /\ Cardinality(Looking') = Cardinality(Looking) - 1
    BY <1>1, <2>1, LookingMoves DEF MonitorPlaces
  <2>3. ASSUME live' PROVE items' <= owed' + Cardinality(Looking')
    BY <1>1, <1>2, <2>1, <2>2, <2>3
  <2> QED BY <1>1, <2>1, <2>2, <2>3 DEF ItemsAreAnnounced
<1>6. CASE Unlock(t) \/ ReleaseMutex(t)
  <2>1. PICK place \in {"out", "gap"} : Goto(t, place)
    BY <1>6 DEF Unlock, ReleaseMutex
  <2>2. /\ pc' \in [Threads -> MonitorPlaces]
        /\ Cardinality(Looking) \in Nat /\ Cardinality(Looking') \in Nat
        /\ t \notin Looking => Cardinality(Looking') = Cardinality(Looking)
    BY <1>1, <2>1, LookingMoves DEF MonitorPlaces
  <2>3. items' = items /\ (t \in Looking => items = 0)
    BY <1>6 DEF Unlock, ReleaseMutex, Looking
  <2> QED BY <1>1, <1>2, <2>2, <2>3 DEF ItemsAreAnnounced
<1> QED BY <1>3, <1>4, <1>5, <1>6

\* Every step of the monitor preserves the invariant.
LEMMA MonitorNextInv == OneWakePerItem /\ MonitorInv /\ [MonitorNext]_allvars => MonitorInv'
<1> SUFFICES ASSUME OneWakePerItem, MonitorInv, [MonitorNext]_allvars PROVE MonitorInv'
  OBVIOUS
<1>1. IInv'
  BY NextIInv, MonitorStepIsStep DEF MonitorInv, MonitorNext, Next, allvars
<1>2. ASSUME UNCHANGED <<owed, monitor>>, live' => live
      PROVE  items' \in Nat /\ ItemsAreAnnounced' /\ pc' \in [Threads -> MonitorPlaces]
  <2>1. Looking' = Looking
    BY <1>2 DEF Looking, monitor
  <2> QED BY <1>2, <2>1 DEF MonitorInv, ItemsAreAnnounced, monitor
<1>3. ASSUME NEW t \in Threads, MonitorStep(t)
      PROVE  items' \in Nat /\ ItemsAreAnnounced' /\ pc' \in [Threads -> MonitorPlaces]
  <2>1. CASE Make(t)
    BY <2>1, MakeInv
  <2>2. CASE Wait(t) \/ Waiting(t)
    BY <2>2, WaitingKeepsItems
  <2>3. CASE Disturb(t) \/ DestroyCond(t)
    BY <1>2, <2>3 DEF Disturb, DestroyCond, Timeout, Spurious, Destroy, cond
  <2>4. CASE \/ Lock(t, "check") \/ Lock(t, "make") \/ Unlock(t) \/ TakeItem(t)
             \/ ReleaseMutex(t) \/ TakeMutexBack(t)
    BY <2>4, GuestKeepsItems
  <2> QED BY <1>3, <2>1, <2>2, <2>3, <2>4 DEF MonitorStep
<1>4. CASE UNCHANGED allvars
  BY <1>1, <1>2, <1>4 DEF allvars, vars, cond, waits, MonitorInv
<1> QED BY <1>1, <1>3, <1>4 DEF MonitorInv, MonitorNext

\* No item is forgotten while a taker sleeps, although the wait is not atomic
\* with the release of the mutex and any waiter may take any wake, provided each
\* item is announced by a wake of its own (pthread_cond_wait, cond_signal).
THEOREM ItemsNotForgotten ==
  ASSUME OneWakePerItem
  PROVE  MonitorSpec => []NoForgottenItem
<1>1. MonitorInv => NoForgottenItem
  <2> SUFFICES ASSUME MonitorInv, live, items > 0, Sleepers(at) # {}
               PROVE  \E t \in Threads : Turn(t) \/ pc[t] \in {"gap", "back", "check", "made"}
    BY DEF NoForgottenItem
  <2>1. Looking \in SUBSET Threads /\ OnTheWay \in SUBSET Threads
    BY DEF Looking, OnTheWay
  <2>2. /\ Cardinality(Looking) \in Nat /\ (Cardinality(Looking) > 0 => Looking # {})
        /\ Cardinality(OnTheWay) \in Nat /\ (Cardinality(OnTheWay) > 0 => OnTheWay # {})
    BY <2>1, Counted
  <2>3. owed > 0 \/ Cardinality(Looking) > 0
    BY <2>2 DEF MonitorInv, ItemsAreAnnounced, IInv, CondTypeOK
  <2>4. CASE owed > 0
    <3>1. Cardinality(OnTheWay) > 0
      BY <2>2, <2>4 DEF MonitorInv, IInv, NoStrandedWake, OnTheWay, CondTypeOK
    <3> QED BY <2>2, <3>1 DEF OnTheWay
  <2>5. CASE Cardinality(Looking) > 0
    BY <2>2, <2>5 DEF Looking
  <2> QED BY <2>3, <2>4, <2>5
<1> QED BY <1>1, MonitorInitInv, MonitorNextInv, PTL DEF MonitorSpec
=============================================================================
