---------------------------- MODULE GuestSemaphore ----------------------------
(***************************************************************************)
(* One guest semaphore: GuestSemaphore of orbistoun-kernel/src/sync.rs,    *)
(* under sceKernelWaitSema, PollSema and SignalSema and POSIX sem_*.       *)
(*                                                                         *)
(* count and ceiling are its fields; need[t] is what thread t asked for    *)
(* when it entered take.  A ceiling is at most u32::MAX, so a sum that     *)
(* overflows a u32 is above it: the checked_add of signal and its ceiling  *)
(* test are one guard.                                                     *)
(***************************************************************************)
EXTENDS BlockingCall

CONSTANTS
  MaxCount,     \* bound on initial counts and ceilings
  MaxNeed       \* bound on what one take asks for and one signal gives

ASSUME CountAssumption == MaxCount \in Nat /\ MaxNeed \in Nat \ {0}

VARIABLES count, ceiling, need

vars == <<count, ceiling, need, waits>>

TypeOK ==
  /\ WaitsTypeOK
  /\ ceiling \in 0..MaxCount
  /\ count \in 0..ceiling
  /\ need \in [Threads -> 1..MaxNeed]

\* sceKernelCreateSema raises the ceiling to the initial count.
Init ==
  /\ WaitsInit
  /\ \E initial, asked \in 0..MaxCount :
       /\ count = initial
       /\ ceiling = IF asked < initial THEN initial ELSE asked
  /\ need = [t \in Threads |-> 1]

-----------------------------------------------------------------------------
(* GuestSemaphore::take *)

\* The predicate take sleeps on.
Blocked(t) == count < need[t] /\ ~pending[t]

\* A request for none is refused before the semaphore is reached.
BeginTake(t, u, n) ==
  /\ Enter(t, u)
  /\ need' = [need EXCEPT ![t] = n]
  /\ UNCHANGED <<count, ceiling>>

\* All or nothing, and only once no signal waits to run.
Take(t) ==
  /\ count >= need[t] /\ ~pending[t]
  /\ count' = count - need[t]
  /\ Return(t)
  /\ UNCHANGED <<ceiling, need>>

\* The signal first, even when the count would do.
Deliver(t) == Interrupt(t) /\ UNCHANGED <<count, ceiling, need>>

Sleep(t) == Blocked(t) /\ FallAsleep(t) /\ UNCHANGED <<count, ceiling, need>>

\* Mutant: a wake without the count is a refusal.
GiveUpEarly(t) == Blocked(t) /\ Return(t) /\ UNCHANGED <<count, ceiling, need>>

GiveUp(t) ==
  /\ Blocked(t) /\ OutOfPatience(t)
  /\ Return(t)
  /\ UNCHANGED <<count, ceiling, need>>

Resume(t) == Turn(t) /\ (Take(t) \/ Deliver(t) \/ Sleep(t) \/ GiveUp(t))

\* A handler that polls this very semaphore and is granted n.
HandlerTakes(t, n) ==
  /\ at[t] = "handler" /\ live /\ count >= n
  /\ count' = count - n
  /\ UNCHANGED <<ceiling, need, waits>>

Handled(t) == HandlerReturn(t) /\ UNCHANGED <<count, ceiling, need>>

-----------------------------------------------------------------------------
(* GuestSemaphore::signal *)

\* Mutant: one sleeper is notified, who may need more than there is.
SignalOne(t, n) ==
  /\ Calls(t) /\ count + n <= ceiling
  /\ count' = count + n
  /\ at' \in NotifyOne(at)
  /\ UNCHANGED <<ceiling, need, live, until, signals>>

Signal(t, n) ==
  /\ Calls(t) /\ count + n <= ceiling
  /\ count' = count + n
  /\ at' = NotifyAll(at)
  /\ UNCHANGED <<ceiling, need, live, until, signals>>

\* Past the ceiling: refused rather than clamped.
SignalRefused(t, n) ==
  /\ Calls(t) /\ count + n > ceiling
  /\ UNCHANGED vars

-----------------------------------------------------------------------------
(* The guest's calls: the vendor's wait has no timeout, POSIX takes one at a   *)
(* time.                                                                       *)

WaitSema(t, n) == BeginTake(t, "Forever", n)
PollSema(t, n) == BeginTake(t, "Never", n)
SemTimedwait(t) == BeginTake(t, "Until", 1)

Step(t) ==
  \/ \E n \in 1..MaxNeed : WaitSema(t, n) \/ PollSema(t, n)
  \/ SemTimedwait(t)
  \/ Resume(t) \/ Handled(t)
  \/ \E n \in 1..MaxNeed : HandlerTakes(t, n)
  \/ \E n \in 0..MaxNeed : Signal(t, n) \/ SignalRefused(t, n)
  \/ Elsewhere(t) /\ UNCHANGED <<count, ceiling, need>>

Next == (\E t \in Threads : Step(t)) \/ (Nudge /\ UNCHANGED <<count, ceiling, need>>)

Spec == Init /\ [][Next]_vars

\* As for the mutex: threads out of the queue go on, handlers return, raises
\* finish their nudge.
Fairness ==
  /\ \A t \in Threads : WF_vars(Resume(t)) /\ WF_vars(Handled(t))
  /\ WF_vars(Nudge /\ UNCHANGED <<count, ceiling, need>>)

FairSpec == Spec /\ Fairness

-----------------------------------------------------------------------------
(* Properties *)

\* Waiters ask for different amounts, and a release wakes them all to look
\* again: nobody is left asleep while the count covers what they asked for
\* (sync.rs, signal).
NoCoveredSleeper ==
  \A t \in Threads : at[t] = "sleep" => count < need[t]

\* A take without a deadline is never refused: a thread leaves it with all it
\* asked for, whatever signals, spurious wakes and competing takers it met
\* (sync.rs, take: the refusal after its loop is never reached).
ForeverReturnsServed ==
  [][\A t \in Threads :
       Turn(t) /\ until[t] = "Forever" /\ at'[t] = "run"
         => count' = count - need[t]]_vars

\* A thread whose request stays covered does not stay in the call, however many
\* others wait for more than there is.
CoveredIsServed ==
  \A t \in Threads :
    <>[](at[t] # "run" => count >= need[t]) => []<>(at[t] = "run")
=============================================================================
