------------------------------ MODULE GuestMutex ------------------------------
(***************************************************************************)
(* One guest mutex: GuestMutex of orbistoun-kernel/src/sync.rs, with the   *)
(* table entry that names it, the signals that interrupt a thread asleep   *)
(* on it and the nudge that follows a raise (BlockingCall).                *)
(*                                                                         *)
(* recursion, owner and depth are the fields of the lock.  holds[t] is     *)
(* what the guest was told: acquisitions answered Locked less unlocks      *)
(* answered true.                                                          *)
(***************************************************************************)
EXTENDS BlockingCall

CONSTANTS
  NoThread,     \* NO_THREAD, what a free lock's owner is
  MaxDepth      \* bound on recursive acquisition

ASSUME ThreadsAssumption == NoThread \notin Threads
ASSUME DepthAssumption == MaxDepth \in Nat \ {0}

VARIABLES recursion, owner, depth, holds

lock == <<recursion, owner, depth, holds>>
vars == <<lock, waits>>

Recursion == {"Forbidden", "Allowed", "Errorcheck"}

TypeOK ==
  /\ WaitsTypeOK
  /\ recursion \in Recursion
  /\ owner \in Threads \cup {NoThread}
  /\ depth \in 0..MaxDepth
  /\ holds \in [Threads -> 0..MaxDepth]

Init ==
  /\ WaitsInit
  /\ recursion \in Recursion
  /\ owner = NoThread
  /\ depth = 0
  /\ holds = [t \in Threads |-> 0]

-----------------------------------------------------------------------------
(* GuestMutex::acquire *)

\* Mutant: the predicate forgets the signal.
BlockedByLock(t) == depth > 0

\* The predicate a blocked acquire sleeps on.
Blocked(t) == depth > 0 /\ ~pending[t]

\* The owner takes it again: one deeper, or answered Deadlock or Busy.
Relock(t) ==
  /\ Calls(t) /\ owner = t
  /\ IF recursion = "Allowed"
     THEN /\ depth < MaxDepth
          /\ depth' = depth + 1
          /\ holds' = [holds EXCEPT ![t] = @ + 1]
     ELSE UNCHANGED <<depth, holds>>
  /\ UNCHANGED <<recursion, owner, waits>>

\* acquire: the self-relock check comes before any wait.
Acquire(t, u) ==
  \/ Relock(t)
  \/ owner # t /\ Enter(t, u) /\ UNCHANGED lock

\* The caller becomes the owner, once, and is answered Locked.
Own(t) ==
  /\ owner' = t
  /\ depth' = 1
  /\ holds' = [holds EXCEPT ![t] = @ + 1]
  /\ UNCHANGED recursion

\* Mutant: a woken waiter does not look again.
TakeUnchecked(t) == Own(t) /\ Return(t)

\* The wait ended with the lock free.
Take(t) == depth = 0 /\ Own(t) /\ Return(t)

\* The wait ended for a signal.
Deliver(t) == depth > 0 /\ Interrupt(t) /\ UNCHANGED lock

Sleep(t) == Blocked(t) /\ FallAsleep(t) /\ UNCHANGED lock

\* Mutant: any wake without the lock is taken for the end of patience.
GiveUpEarly(t) == Blocked(t) /\ Return(t) /\ UNCHANGED lock

\* Patience ran out: answer Busy.
GiveUp(t) == Blocked(t) /\ OutOfPatience(t) /\ Return(t) /\ UNCHANGED lock

\* One turn of the wait loop.
Resume(t) == Turn(t) /\ (Take(t) \/ Deliver(t) \/ Sleep(t) \/ GiveUp(t))

\* A handler that tries this very lock and finds it free.
HandlerTakes(t) ==
  /\ at[t] = "handler" /\ live /\ depth = 0
  /\ Own(t)
  /\ UNCHANGED waits

\* A handler releases what it took before it returns, unless the handle is gone.
Handled(t) == (owner # t \/ ~live) /\ HandlerReturn(t) /\ UNCHANGED lock

-----------------------------------------------------------------------------
(* GuestMutex::unlock *)

\* One acquisition given back; at zero the owner is cleared and one sleeper is
\* notified, wakes being what that does to the wait queue.
GiveBack(t, wakes) ==
  /\ Calls(t)
  /\ depth' = depth - 1
  /\ holds' = [holds EXCEPT ![t] = @ - 1]
  /\ IF depth = 1
     THEN owner' = NoThread /\ at' \in wakes
     ELSE UNCHANGED <<owner, at>>
  /\ UNCHANGED <<recursion, live, until, signals>>

\* Mutants: every acquisition is given back at once; nobody is notified.
UnlockWhole(t) ==
  /\ depth > 0 /\ owner = t /\ Calls(t)
  /\ owner' = NoThread /\ depth' = 0 /\ holds' = [holds EXCEPT ![t] = 0]
  /\ at' \in NotifyOne(at)
  /\ UNCHANGED <<recursion, live, until, signals>>
UnlockSilently(t) == depth > 0 /\ owner = t /\ GiveBack(t, {at})

Unlock(t) == depth > 0 /\ owner = t /\ GiveBack(t, NotifyOne(at))

\* An unlock by a thread that does not hold it is refused.
UnlockRefused(t) ==
  /\ Calls(t)
  /\ depth = 0 \/ owner # t
  /\ UNCHANGED vars

-----------------------------------------------------------------------------
(* The guest's calls *)

Lock(t) == Acquire(t, "Forever")
Trylock(t) == Acquire(t, "Never")
Timedlock(t) == Acquire(t, "Until")

Step(t) ==
  \/ Lock(t) \/ Trylock(t) \/ Timedlock(t)
  \/ Resume(t) \/ HandlerTakes(t) \/ Handled(t)
  \/ Unlock(t) \/ UnlockRefused(t)
  \/ Elsewhere(t) /\ UNCHANGED lock

Next == (\E t \in Threads : Step(t)) \/ (Nudge /\ UNCHANGED lock)

Spec == Init /\ [][Next]_vars

\* A thread out of the wait queue gets the host mutex and goes on, a handler
\* returns, and a raise finishes its nudge.  Nothing is assumed of the guest's
\* own calls, nor of the host's timers and spurious wakes.
Fairness ==
  /\ \A t \in Threads : WF_vars(Resume(t)) /\ WF_vars(Handled(t))
  /\ WF_vars(Nudge /\ UNCHANGED lock)

FairSpec == Spec /\ Fairness

-----------------------------------------------------------------------------
(* Properties *)

\* Mutual exclusion as the guest sees it: no two threads hold acquisitions that
\* were answered Locked and not yet released, through timeouts, signal handlers
\* that take the same lock, and a destroy under waiters (sync.rs, acquire and
\* unlock).
MutualExclusion ==
  \A t, u \in Threads : holds[t] > 0 /\ holds[u] > 0 => t = u

\* A release wakes a single sleeper (notify_one), yet no wake is lost: while the
\* lock is free and a thread sleeps on it, another is already out of the queue
\* and on its way to the lock (sync.rs, unlock).
NoLostWakeup ==
  depth = 0 /\ Sleepers(at) # {} => \E t \in Threads : at[t] \in {"awake", "expired"}

\* A wait without a deadline never answers Busy: a thread that leaves it holds
\* the lock (lib.rs, pthread_mutex_lock: Busy can only be the self-relock).
ForeverReturnsHolding ==
  [][\A t \in Threads :
       at[t] \in {"awake", "expired"} /\ until[t] = "Forever" /\ at'[t] = "run"
         => holds'[t] = holds[t] + 1]_vars

\* A free lock somebody sleeps on is taken, whoever gets it.
FreeLockIsTaken == (depth = 0 /\ Sleepers(at) # {}) ~> depth > 0

\* What the fields of the lock say each thread holds.
Held == [t \in Threads |-> IF owner = t THEN depth ELSE 0]

\* The lock's own fields keep the promise of LockSpec: an acquisition is only
\* granted while no other thread holds one (sync.rs, acquire and unlock).
Abstract == INSTANCE LockSpec WITH holds <- Held
ImplementsLock == Abstract!Spec
=============================================================================
