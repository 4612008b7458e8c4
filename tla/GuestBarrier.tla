----------------------------- MODULE GuestBarrier -----------------------------
(***************************************************************************)
(* One guest barrier: GuestBarrier of orbistoun-kernel/src/sync.rs with    *)
(* create_barrier, barrier_wait and barrier_destroy.  The wait has no      *)
(* deadline and delivers no signals.                                       *)
(*                                                                         *)
(* arrived and round are the barrier's pair, round wrapping as its u64     *)
(* does, and mine[t] the local round of barrier_wait.  done, entered and   *)
(* laps are history: rounds completed, their number when t arrived, and    *)
(* calls t has come back from.                                             *)
(***************************************************************************)
EXTENDS BlockingCall, FiniteSets

CONSTANTS
  Counts,       \* the counts a guest asks for
  CountLimit,   \* the largest count a u32 holds
  RoundModulus, \* rounds are counted modulo this
  MaxLaps       \* bound on the calls a thread makes

BarrierAssumption ==
  /\ IsFiniteSet(Threads)
  /\ Counts \subseteq Nat
  /\ CountLimit \in Nat
  /\ RoundModulus \in Nat \ {0, 1}
  /\ MaxLaps \in Nat

VARIABLES needed, arrived, round, mine, done, entered, laps

history == <<done, entered, laps>>
barrier == <<needed, arrived, round, mine, history>>
vars == <<barrier, waits>>

TypeOK ==
  /\ WaitsTypeOK
  /\ needed \in Nat \ {0}
  /\ arrived \in 0..(needed - 1)
  /\ round \in 0..(RoundModulus - 1)
  /\ mine \in [Threads -> 0..(RoundModulus - 1)]
  /\ done \in Nat
  /\ entered \in [Threads -> Nat]
  /\ laps \in [Threads -> 0..MaxLaps]

\* A count that does not fit is one, and a barrier of none is a barrier of one.
NeededFor(count) == IF count = 0 \/ count > CountLimit THEN 1 ELSE count

Init ==
  /\ WaitsInit
  /\ needed \in {NeededFor(c) : c \in Counts}
  /\ arrived = 0
  /\ round = 0
  /\ mine = [t \in Threads |-> 0]
  /\ done = 0
  /\ entered = [t \in Threads |-> 0]
  /\ laps = [t \in Threads |-> 0]

-----------------------------------------------------------------------------
(* barrier_wait *)

\* One more call of t comes back.
Lap(t) == laps' = [laps EXCEPT ![t] = @ + 1]

\* Mutants: the arrivals are not counted anew; the last to arrive wakes one.
CompleteUnreset(t) ==
  /\ at[t] = "run" /\ live /\ laps[t] < MaxLaps
  /\ arrived + 1 >= needed
  /\ round' = (round + 1) % RoundModulus
  /\ at' = NotifyAll(at)
  /\ done' = done + 1
  /\ Lap(t)
  /\ UNCHANGED <<needed, arrived, mine, entered, live, until, signals>>
CompleteForOne(t) ==
  /\ at[t] = "run" /\ live /\ laps[t] < MaxLaps
  /\ arrived + 1 >= needed
  /\ arrived' = 0
  /\ round' = (round + 1) % RoundModulus
  /\ at' \in NotifyOne(at)
  /\ done' = done + 1
  /\ Lap(t)
  /\ UNCHANGED <<needed, mine, entered, live, until, signals>>

\* The last to arrive starts the next round, wakes the others and leaves.
Complete(t) ==
  /\ at[t] = "run" /\ live /\ laps[t] < MaxLaps
  /\ arrived + 1 >= needed
  /\ arrived' = 0
  /\ round' = (round + 1) % RoundModulus
  /\ at' = NotifyAll(at)
  /\ done' = done + 1
  /\ Lap(t)
  /\ UNCHANGED <<needed, mine, entered, live, until, signals>>

\* Any other notes the round and goes to look at it.
Arrive(t) ==
  /\ laps[t] < MaxLaps
  /\ arrived + 1 < needed
  /\ Enter(t, "Forever")
  /\ arrived' = arrived + 1
  /\ mine' = [mine EXCEPT ![t] = round]
  /\ entered' = [entered EXCEPT ![t] = done]
  /\ UNCHANGED <<needed, round, done, laps>>

\* Mutant: any wake ends the wait.
LeaveWoken(t) ==
  /\ Return(t)
  /\ Lap(t)
  /\ UNCHANGED <<needed, arrived, round, mine, done, entered>>

Leave(t) ==
  /\ round # mine[t]
  /\ Return(t)
  /\ Lap(t)
  /\ UNCHANGED <<needed, arrived, round, mine, done, entered>>

Sleep(t) == round = mine[t] /\ FallAsleep(t) /\ UNCHANGED barrier

Resume(t) == Turn(t) /\ (Leave(t) \/ Sleep(t))

Forget(t) == (Destroy(t) \/ Miss(t) \/ Spurious(t)) /\ UNCHANGED barrier

Step(t) == Complete(t) \/ Arrive(t) \/ Resume(t) \/ Forget(t)

Next == \E t \in Threads : Step(t)

Spec == Init /\ [][Next]_vars

\* A thread out of the wait queue takes its next turn.
Fairness == \A t \in Threads : WF_vars(Resume(t))

FairSpec == Spec /\ Fairness

-----------------------------------------------------------------------------
(* Properties *)

\* Arrivals are those of this round and no other: a fast thread that comes back
\* is not counted with the slow ones still leaving (sync.rs, GuestBarrier).
ArrivedIsExact ==
  arrived = Cardinality({t \in Threads : at[t] # "run" /\ entered[t] = done})

\* Nobody is left asleep by a round that is over (sync.rs, barrier_wait).
NoReleasedSleeper == \A t \in Threads : at[t] = "sleep" => entered[t] = done

\* What a barrier is for: when it is made for all the threads, none is ever two
\* rounds ahead of another (sync.rs, barrier_wait).
LockStep ==
  needed = Cardinality(Threads) =>
    \A t, o \in Threads : laps[t] <= laps[o] + 1

\* A thread whose round is over comes back.
ReleasedLeave ==
  \A t \in Threads : (at[t] # "run" /\ entered[t] < done) ~> at[t] = "run"
=============================================================================
