------------------------------ MODULE GuestCond ------------------------------
(***************************************************************************)
(* One guest condition variable: GuestCond of orbistoun-kernel/src/sync.rs *)
(* with cond_wait, cond_signal, cond_broadcast and cond_destroy.  The      *)
(* guest mutex around the wait is added by CondMonitor.                    *)
(*                                                                         *)
(* owed and waiting are the fields of CondState.  recipients is history:   *)
(* the threads inside cond_wait at the last broadcast that have not left   *)
(* since.                                                                  *)
(***************************************************************************)
EXTENDS BlockingCall, FiniteSets

CONSTANT MaxOwed        \* bound on wakes owed when a signal is sent

ASSUME OwedAssumption == MaxOwed \in Nat \ {0}
ASSUME FiniteThreads == IsFiniteSet(Threads)

VARIABLES owed, waiting, recipients

cond == <<owed, waiting, recipients>>
vars == <<cond, waits>>

\* Threads inside cond_wait.
Inside == {t \in Threads : at[t] # "run"}

TypeOK ==
  /\ WaitsTypeOK
  /\ owed \in Nat
  /\ waiting \in Nat
  /\ recipients \subseteq Threads

Init ==
  /\ WaitsInit
  /\ owed = 0
  /\ waiting = 0
  /\ recipients = {}

-----------------------------------------------------------------------------
(* cond_wait: with a timeout or without one *)

BeginWait(t, u) ==
  /\ Enter(t, u)
  /\ waiting' = waiting + 1
  /\ UNCHANGED <<owed, recipients>>

\* The thread leaves the wait.
Leave(t) ==
  /\ Return(t)
  /\ waiting' = waiting - 1
  /\ recipients' = recipients \ {t}

\* Mutant: a thread that is woken forgets it no longer waits.
TakeUncounted(t) ==
  /\ owed > 0
  /\ owed' = owed - 1
  /\ Return(t)
  /\ recipients' = recipients \ {t}
  /\ UNCHANGED waiting

\* A wake owed is looked at first: it ends the wait whatever else happened.
TakeWake(t) == owed > 0 /\ owed' = owed - 1 /\ Leave(t)

\* A timeout the host reports ends it too, with no second look at the clock.
TimeOut(t) == at[t] = "expired" /\ owed = 0 /\ Leave(t) /\ UNCHANGED owed

Deliver(t) == at[t] = "awake" /\ owed = 0 /\ Interrupt(t) /\ UNCHANGED cond

Sleep(t) ==
  /\ at[t] = "awake" /\ owed = 0 /\ ~pending[t]
  /\ FallAsleep(t)
  /\ UNCHANGED cond

Resume(t) == Turn(t) /\ (TakeWake(t) \/ TimeOut(t) \/ Deliver(t) \/ Sleep(t))

Handled(t) == HandlerReturn(t) /\ UNCHANGED cond

-----------------------------------------------------------------------------
(* cond_signal and cond_broadcast *)

\* Mutants: the wake is recorded and nobody is told; it is only recorded when
\* somebody is inside to take it.
SignalSilently(t) ==
  /\ Calls(t) /\ owed < MaxOwed
  /\ owed' = owed + 1
  /\ UNCHANGED <<waiting, recipients, waits>>

SignalForgotten(t) ==
  /\ Calls(t) /\ owed < MaxOwed
  /\ owed' = IF waiting > 0 THEN owed + 1 ELSE owed
  /\ at' \in NotifyOne(at)
  /\ UNCHANGED <<waiting, recipients, live, until, signals>>

Signal(t) ==
  /\ Calls(t) /\ owed < MaxOwed
  /\ owed' = owed + 1
  /\ at' \in NotifyOne(at)
  /\ UNCHANGED <<waiting, recipients, live, until, signals>>

Larger(a, b) == IF a > b THEN a ELSE b

\* One wake for each thread waiting now, or one for a waiter still to come.
Broadcast(t) ==
  /\ Calls(t)
  /\ owed' = Larger(owed, Larger(waiting, 1))
  /\ at' = NotifyAll(at)
  /\ recipients' = Inside
  /\ UNCHANGED <<waiting, live, until, signals>>

CondWait(t) == BeginWait(t, "Forever")
CondTimedwait(t) == BeginWait(t, "Until")

Step(t) ==
  \/ CondWait(t) \/ CondTimedwait(t)
  \/ Resume(t) \/ Handled(t)
  \/ Signal(t) \/ Broadcast(t)
  \/ Elsewhere(t) /\ UNCHANGED cond

Next == (\E t \in Threads : Step(t)) \/ (Nudge /\ UNCHANGED cond)

Spec == Init /\ [][Next]_vars

\* As for the mutex: threads out of the queue go on, handlers return, raises
\* finish their nudge.
Fairness ==
  /\ \A t \in Threads : WF_vars(Resume(t)) /\ WF_vars(Handled(t))
  /\ WF_vars(Nudge /\ UNCHANGED cond)

FairSpec == Spec /\ Fairness

-----------------------------------------------------------------------------
(* Properties *)

\* The count a broadcast pays out by is the number of threads in the wait,
\* whichever way the others left it: woken, timed out, or out for a handler
\* (sync.rs, cond_wait and cond_broadcast).
WaitingIsExact == waiting = Cardinality(Inside)

\* A signal notifies one sleeper, and any waiter may take the wake it owes; yet
\* while wakes are owed and threads sleep, there are as many threads on their
\* way to them as there are wakes (sync.rs, cond_signal).
NoStrandedWake ==
  Sleepers(at) # {} => owed <= Cardinality({t \in Threads : Turn(t)})

\* Owed wakes do not lie beside sleeping threads: they are spent, or nobody
\* sleeps.
WakesAreSpent == (owed > 0 /\ Sleepers(at) # {}) ~> (owed = 0 \/ Sleepers(at) = {})

\* What the comment on cond_broadcast says: it wakes every waiter, so nobody
\* who was waiting goes back to sleep (sync.rs, cond_broadcast).
BroadcastWakesAll == recipients \cap Sleepers(at) = {}
=============================================================================
