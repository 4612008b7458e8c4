--------------------------- MODULE GuestMutexProofs ---------------------------
(***************************************************************************)
(* Proofs about GuestMutex, for every set of threads and every bound.      *)
(***************************************************************************)
EXTENDS GuestMutex, BlockingCallProofs

\* The lock's state agrees with what the guest was told: the owner holds depth
\* acquisitions, everybody else none, and a free lock has no owner.
OwnerHolds ==
  /\ owner = NoThread <=> depth = 0
  /\ \A t \in Threads : holds[t] = IF owner = t THEN depth ELSE 0

LockTypeOK ==
  /\ recursion \in Recursion
  /\ owner \in Threads \cup {NoThread}
  /\ depth \in 0..MaxDepth
  /\ holds \in [Threads -> 0..MaxDepth]

LockInv == LockTypeOK /\ OwnerHolds

IInv == WaitInv /\ LockInv /\ NoLostWakeup

\* The invariant gives the properties.
LEMMA IInvImplies == IInv => TypeOK /\ MutualExclusion /\ NoLostWakeup /\ SignalNotMissed
  BY DEF IInv, WaitInv, LockInv, LockTypeOK, TypeOK, OwnerHolds, MutualExclusion

\* The initial state satisfies the invariant.
LEMMA InitIInv == Init => IInv
<1> SUFFICES ASSUME Init PROVE IInv
  OBVIOUS
<1>1. WaitInv
  BY WaitInvInit DEF Init
<1>2. LockInv
  BY ThreadsAssumption, DepthAssumption DEF Init, LockInv, LockTypeOK, OwnerHolds
<1>3. NoLostWakeup
  BY DEF Init, WaitsInit, NoLostWakeup, Sleepers
<1> QED BY <1>1, <1>2, <1>3 DEF IInv

\* A thread that moves without touching the lock loses no wake if it only
\* leaves the way to a free lock for the queue or guest code while it is held.
LEMMA MoveIInv ==
  ASSUME IInv, WaitInv', NEW t \in Threads, NEW p \in Places,
         at' = [at EXCEPT ![t] = p], UNCHANGED lock,
         p = "sleep" => depth > 0,
         Turn(t) => p \in {"awake", "expired"} \/ depth > 0
  PROVE  IInv'
<1>1. LockInv'
  BY DEF IInv, LockInv, LockTypeOK, OwnerHolds, lock
<1>2. NoLostWakeup'
  BY DEF IInv, WaitInv, WaitsTypeOK, NoLostWakeup, Sleepers, Turn, lock, Places
<1> QED BY <1>1, <1>2 DEF IInv

\* Acquire preserves the invariant.
LEMMA AcquireIInv ==
  ASSUME IInv, NEW t \in Threads, NEW u \in Blocking, Acquire(t, u)
  PROVE  IInv'
<1>1. CASE Relock(t)
  <2>1. LockInv'
    BY <1>1, ThreadsAssumption, DepthAssumption
       DEF IInv, LockInv, LockTypeOK, OwnerHolds, Relock
  <2>2. WaitInv'
    BY <1>1, IdleInv DEF IInv, Relock
  <2>3. NoLostWakeup'
    BY <1>1, DepthAssumption
       DEF IInv, LockInv, LockTypeOK, OwnerHolds, Relock, NoLostWakeup, waits
  <2> QED BY <2>1, <2>2, <2>3 DEF IInv
<1>2. CASE Enter(t, u) /\ UNCHANGED lock
  <2>1. WaitInv'
    BY <1>2, TurnInv DEF IInv
  <2> QED BY <1>2, <2>1, MoveIInv DEF Enter, Places
<1> QED BY <1>1, <1>2 DEF Acquire

\* The two ways to become the owner of a free lock.
LEMMA OwnIInv ==
  ASSUME IInv, WaitInv', NEW t \in Threads, depth = 0, Own(t)
  PROVE  IInv'
<1>1. LockInv'
  BY ThreadsAssumption, DepthAssumption DEF IInv, LockInv, LockTypeOK, OwnerHolds, Own
<1>2. NoLostWakeup'
  BY DEF NoLostWakeup, Own
<1> QED BY <1>1, <1>2 DEF IInv

\* Resume preserves the invariant.
LEMMA ResumeIInv ==
  ASSUME IInv, NEW t \in Threads, Resume(t)
  PROVE  IInv'
<1>1. CASE Take(t)
  BY <1>1, TurnInv, OwnIInv DEF Take, IInv
<1>2. CASE Deliver(t)
  <2>1. WaitInv'
    BY <1>2, TurnInv DEF Deliver, IInv
  <2> QED BY <1>2, <2>1, MoveIInv DEF Deliver, Interrupt, Places
<1>3. CASE Sleep(t)
  <2>1. WaitInv'
    BY <1>3, TurnInv DEF Sleep, Blocked, IInv
  <2> QED BY <1>3, <2>1, MoveIInv DEF Sleep, Blocked, FallAsleep, Places
<1>4. CASE GiveUp(t)
  <2>1. WaitInv'
    BY <1>4, TurnInv DEF GiveUp, IInv
  <2> QED BY <1>4, <2>1, MoveIInv DEF GiveUp, Blocked, Return, Places
<1> QED BY <1>1, <1>2, <1>3, <1>4 DEF Resume

\* Unlock preserves the invariant.
LEMMA UnlockIInv ==
  ASSUME IInv, NEW t \in Threads, Unlock(t)
  PROVE  IInv'
<1> USE DEF Unlock, GiveBack
<1>1. LockInv'
  <2>1. holds[t] = depth /\ depth \in 1..MaxDepth /\ depth - 1 \in 0..MaxDepth
    BY DepthAssumption DEF IInv, LockInv, LockTypeOK, OwnerHolds
  <2>2. LockTypeOK'
    BY <2>1 DEF IInv, LockInv, LockTypeOK
  <2>3. OwnerHolds'
    BY <2>1, ThreadsAssumption, DepthAssumption DEF IInv, LockInv, LockTypeOK, OwnerHolds
  <2> QED BY <2>2, <2>3 DEF LockInv
<1>2. CASE depth = 1
  <2>1. OnlyWakes(at, at') /\ NoLostWakeup'
    BY <1>2, NotifyOneEffect DEF IInv, WaitInv, WaitsTypeOK, NoLostWakeup
  <2> QED BY <1>1, <2>1, WakeInv DEF IInv
<1>3. CASE depth # 1
  <2>1. WaitInv'
    BY <1>3, IdleInv DEF IInv, waits
  <2>2. NoLostWakeup'
    BY <1>3, DepthAssumption DEF IInv, LockInv, LockTypeOK, NoLostWakeup
  <2> QED BY <1>1, <2>1, <2>2 DEF IInv
<1> QED BY <1>2, <1>3

\* A step that leaves the lock alone and moves threads only out of the queue.
LEMMA WakingIInv ==
  ASSUME IInv, WaitInv', UNCHANGED lock,
         \A x \in Threads :
           at'[x] = at[x] \/ (at[x] = "sleep" /\ at'[x] \in {"awake", "expired"})
  PROVE  IInv'
<1>1. LockInv'
  BY DEF IInv, LockInv, LockTypeOK, OwnerHolds, lock
<1>2. NoLostWakeup'
  BY DEF IInv, WaitInv, WaitsTypeOK, NoLostWakeup, Sleepers, lock
<1> QED BY <1>1, <1>2 DEF IInv

\* Every step of a thread preserves the invariant.
LEMMA StepIInv ==
  ASSUME IInv, NEW t \in Threads, Step(t)
  PROVE  IInv'
<1>1. ASSUME NEW u \in Blocking, Acquire(t, u) PROVE IInv'
  BY <1>1, AcquireIInv
<1>2. CASE Resume(t)
  BY <1>2, ResumeIInv
<1>3. CASE HandlerTakes(t)
  <2>1. WaitInv'
    BY <1>3, IdleInv DEF HandlerTakes, IInv
  <2> QED BY <1>3, <2>1, OwnIInv DEF HandlerTakes
<1>4. CASE Handled(t)
  <2>1. WaitInv'
    BY <1>4, TurnInv DEF Handled, IInv
  <2> QED BY <1>4, <2>1, MoveIInv DEF Handled, HandlerReturn, Places
<1>5. CASE Unlock(t)
  BY <1>5, UnlockIInv
<1>6. CASE UnlockRefused(t)
  BY <1>6, IdleInv, WakingIInv DEF UnlockRefused, vars, waits, IInv
<1>7. CASE Elsewhere(t) /\ UNCHANGED lock
  BY <1>7, ElsewhereInv, WakingIInv DEF IInv
<1> QED BY <1>1, <1>2, <1>3, <1>4, <1>5, <1>6, <1>7
        DEF Step, Lock, Trylock, Timedlock, Blocking

\* Every reachable state satisfies the inductive invariant.
THEOREM Inductive == Spec => []IInv
<1>1. IInv /\ [Next]_vars => IInv'
  <2> SUFFICES ASSUME IInv, [Next]_vars PROVE IInv'
    OBVIOUS
  <2>1. ASSUME NEW t \in Threads, Step(t) PROVE IInv'
    BY <2>1, StepIInv
  <2>2. CASE Nudge /\ UNCHANGED lock
    BY <2>2, NudgeInv, WakingIInv DEF IInv, OnlyWakes
  <2>3. CASE UNCHANGED vars
    BY <2>3, IdleInv, WakingIInv DEF vars, waits, IInv
  <2> QED BY <2>1, <2>2, <2>3 DEF Next
<1> QED BY InitIInv, <1>1, PTL DEF Spec

\* The variables keep their types: in particular the recursion depth never
\* underflows, however unlocks, handlers and timeouts interleave.
THEOREM TypeCorrect == Spec => []TypeOK
  BY Inductive, IInvImplies, PTL

\* Mutual exclusion between guest threads (GuestMutex::acquire and unlock).
THEOREM Exclusion == Spec => []MutualExclusion
  BY Inductive, IInvImplies, PTL

\* No wake is lost although unlock notifies a single sleeper.
THEOREM WakeupNotLost == Spec => []NoLostWakeup
  BY Inductive, IInvImplies, PTL

\* No thread is left asleep with a signal once the raise has nudged the lock.
THEOREM SignalsNotMissed == Spec => []SignalNotMissed
  BY Inductive, IInvImplies, PTL

\* Which steps change what the guest was told: a grant of a free lock, a
\* recursive grant, and a release.
LEMMA HoldsChange ==
  ASSUME IInv, NEW t \in Threads, Step(t)
  PROVE  \/ depth = 0 /\ Own(t)
         \/ Relock(t)
         \/ Unlock(t)
         \/ holds' = holds
  BY DEF Step, Lock, Trylock, Timedlock, Acquire, Resume, Take, Deliver, Sleep, GiveUp, HandlerTakes, Handled,
         UnlockRefused, vars, lock

\* The lock implements the abstract lock: every step of it is a grant, a
\* release or a stutter of LockSpec.
THEOREM Refinement == Spec => ImplementsLock
<1>1. Init => Abstract!Init
  BY ThreadsAssumption DEF Init, Abstract!Init, Held
<1>2. IInv /\ IInv' /\ [Next]_vars => [Abstract!Next]_Held
  <2> SUFFICES ASSUME IInv, IInv', [Next]_vars, Held' # Held
               PROVE  Abstract!Next
    OBVIOUS
  <2> USE DEF IInv, LockInv, LockTypeOK, OwnerHolds
  <2>0. holds = Held /\ holds' = Held'
    BY DEF Held
  <2>1. PICK t \in Threads : Step(t)
    BY <2>0 DEF Next, Nudge, vars, lock
  <2>2. CASE depth = 0 /\ Own(t)
    BY <2>0, <2>2, ThreadsAssumption DEF Own, Abstract!Next, Abstract!Grant
  <2>3. CASE Relock(t)
    BY <2>0, <2>3 DEF Relock, Abstract!Next, Abstract!Grant
  <2>4. CASE Unlock(t)
    BY <2>0, <2>4 DEF Unlock, GiveBack, Abstract!Next, Abstract!Release
  <2> QED BY <2>0, <2>1, <2>2, <2>3, <2>4, HoldsChange
<1> QED BY <1>1, <1>2, Inductive, PTL DEF Spec, ImplementsLock, Abstract!Spec

\* A wait without a deadline never answers Busy: whoever leaves it holds the
\* lock (lib.rs, pthread_mutex_lock).
THEOREM PatienceIsRewarded == Spec => ForeverReturnsHolding
<1> DEFINE Leaves(t) ==
      Turn(t) /\ until[t] = "Forever" /\ at'[t] = "run" => holds'[t] = holds[t] + 1
<1>1. IInv /\ IInv' /\ [Next]_vars => [\A t \in Threads : Leaves(t)]_vars
  <2> SUFFICES ASSUME IInv, IInv', Next, NEW t \in Threads,
                      Turn(t), until[t] = "Forever", at'[t] = "run"
               PROVE  holds'[t] = holds[t] + 1
    BY DEF vars
  <2>1. ~(Nudge /\ UNCHANGED lock)
    BY NudgeInv DEF IInv, OnlyWakes, Turn
  <2>2. PICK x \in Threads : Step(x)
    BY <2>1 DEF Next
  <2>3. ~(\E u \in Blocking : Acquire(x, u))
    BY DEF Acquire, Relock, Enter, Turn, Calls, waits, IInv, WaitInv, WaitsTypeOK
  <2>4. ~HandlerTakes(x) /\ ~Handled(x) /\ ~UnlockRefused(x)
    BY DEF HandlerTakes, Handled, HandlerReturn, UnlockRefused, Turn, waits, vars,
           IInv, WaitInv, WaitsTypeOK
  <2>5. ~Unlock(x)
    BY NotifyOneEffect DEF Unlock, GiveBack, Turn, IInv, WaitInv, WaitsTypeOK, OnlyWakes
  <2>6. ~(Elsewhere(x) /\ UNCHANGED lock)
    BY ElsewhereInv DEF Turn, IInv
  <2>7. Resume(x)
    BY <2>2, <2>3, <2>4, <2>5, <2>6 DEF Step, Lock, Trylock, Timedlock, Blocking
  <2>8. x = t /\ Take(t)
    BY <2>7 DEF Resume, Take, Deliver, Sleep, GiveUp, Return, Interrupt, FallAsleep,
                OutOfPatience, Blocked, Turn, IInv, WaitInv, WaitsTypeOK, OnlyDeadlinesExpire
  <2> QED BY <2>8 DEF Take, Own, IInv, LockInv, LockTypeOK
<1>2. [\A t \in Threads : Leaves(t)]_vars =>
        [\A t \in Threads :
           at[t] \in {"awake", "expired"} /\ until[t] = "Forever" /\ at'[t] = "run"
             => holds'[t] = holds[t] + 1]_vars
  BY DEF Turn
<1> QED BY <1>1, <1>2, Inductive, PTL DEF Spec, ForeverReturnsHolding
=============================================================================
