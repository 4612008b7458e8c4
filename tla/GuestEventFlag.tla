---------------------------- MODULE GuestEventFlag ----------------------------
(***************************************************************************)
(* One guest event flag: GuestEventFlag of orbistoun-kernel/src/sync.rs    *)
(* with event_flag_wait, _set, _clear, _cancel and _destroy.               *)
(*                                                                         *)
(* bits is the set of bits that are set.  waiting and cancels are atomics  *)
(* beside it: waiting goes up under the lock of the bits and comes down    *)
(* after that lock is released, so a thread in leaving has its answer and  *)
(* is still counted.  want[t] is what t waits for and seen[t] the cancels  *)
(* it started from.                                                        *)
(***************************************************************************)
EXTENDS BlockingCall, FiniteSets

CONSTANTS
  Bits,         \* the bits of the flag
  Requests,     \* what guests wait for
  MaxCancels    \* bound on cancels

FlagAssumption ==
  /\ IsFiniteSet(Threads)
  /\ Requests # {}
  /\ Requests \subseteq [pattern : SUBSET Bits, all : BOOLEAN,
                         clear : {"nothing", "all", "pattern"}]
  /\ MaxCancels \in Nat

VARIABLES bits, waiting, cancels, leaving, want, seen

flag == <<bits, waiting, cancels, leaving, want, seen>>
vars == <<flag, waits>>

TypeOK ==
  /\ WaitsTypeOK
  /\ bits \subseteq Bits
  /\ waiting \in Nat
  /\ cancels \in 0..MaxCancels
  /\ leaving \subseteq Threads
  /\ want \in [Threads -> Requests]
  /\ seen \in [Threads -> 0..MaxCancels]

Init ==
  /\ WaitsInit
  /\ bits \in SUBSET Bits
  /\ waiting = 0
  /\ cancels = 0
  /\ leaving = {}
  /\ want = [t \in Threads |-> CHOOSE r \in Requests : TRUE]
  /\ seen = [t \in Threads |-> 0]

-----------------------------------------------------------------------------
(* event_flag_wait *)

\* AND wants every bit of a pattern that is not empty, OR any of them.
Matches(r) ==
  IF r.all THEN r.pattern # {} /\ r.pattern \subseteq bits
           ELSE r.pattern \cap bits # {}

Cleared(r) ==
  CASE r.clear = "all"     -> {}
    [] r.clear = "pattern" -> bits \ r.pattern
    [] r.clear = "nothing" -> bits

BeginWait(t, u, r) ==
  /\ Enter(t, u)
  /\ waiting' = waiting + 1
  /\ want' = [want EXCEPT ![t] = r]
  /\ seen' = [seen EXCEPT ![t] = cancels]
  /\ UNCHANGED <<bits, cancels, leaving>>

\* The answer is known and the lock of the bits is released.
Answer(t) ==
  /\ Return(t)
  /\ leaving' = leaving \cup {t}
  /\ UNCHANGED <<waiting, cancels, want, seen>>

Cancelled(t) == seen[t] # cancels

Withdraw(t) == Cancelled(t) /\ Answer(t) /\ UNCHANGED bits

Find(t) ==
  /\ ~Cancelled(t) /\ Matches(want[t])
  /\ bits' = Cleared(want[t])
  /\ Answer(t)

\* Nothing to return with yet.
Empty(t) == ~Cancelled(t) /\ ~Matches(want[t])

Deliver(t) == at[t] = "awake" /\ Empty(t) /\ Interrupt(t) /\ UNCHANGED flag

\* Mutant: the signal slot is not looked at before sleeping.
SleepDeaf(t) == at[t] = "awake" /\ Empty(t) /\ FallAsleep(t) /\ UNCHANGED flag

Sleep(t) ==
  /\ at[t] = "awake" /\ Empty(t) /\ ~pending[t]
  /\ FallAsleep(t)
  /\ UNCHANGED flag

\* The deadline has passed: the host says so, or the clock at the next turn.
GiveUp(t) ==
  /\ until[t] = "Until" /\ Empty(t)
  /\ at[t] = "awake" => ~pending[t]
  /\ Answer(t)
  /\ UNCHANGED bits

Resume(t) ==
  Turn(t) /\ (Withdraw(t) \/ Find(t) \/ Deliver(t) \/ Sleep(t) \/ GiveUp(t))

Handled(t) == HandlerReturn(t) /\ UNCHANGED flag

\* Mutant: the count is not taken down.
LeaveCounted(t) ==
  /\ t \in leaving
  /\ leaving' = leaving \ {t}
  /\ UNCHANGED <<waiting, bits, cancels, want, seen, waits>>

Leave(t) ==
  /\ t \in leaving
  /\ leaving' = leaving \ {t}
  /\ waiting' = waiting - 1
  /\ UNCHANGED <<bits, cancels, want, seen, waits>>

-----------------------------------------------------------------------------
(* event_flag_set, event_flag_clear and event_flag_cancel *)

\* Mutant: one waiter is told.
SetForOne(t, pattern) ==
  /\ Calls(t)
  /\ bits' = bits \cup pattern
  /\ at' \in NotifyOne(at)
  /\ UNCHANGED <<waiting, cancels, leaving, want, seen, live, until, signals>>

Set(t, pattern) ==
  /\ Calls(t)
  /\ bits' = bits \cup pattern
  /\ at' = NotifyAll(at)
  /\ UNCHANGED <<waiting, cancels, leaving, want, seen, live, until, signals>>

\* Clears every bit outside the pattern.
Clear(t, pattern) ==
  /\ Calls(t)
  /\ bits' = bits \cap pattern
  /\ UNCHANGED <<waiting, cancels, leaving, want, seen, waits>>

\* Answers waiting, read under the lock of the bits.
Cancel(t, pattern) ==
  /\ Calls(t) /\ cancels < MaxCancels
  /\ bits' = pattern
  /\ cancels' = cancels + 1
  /\ at' = NotifyAll(at)
  /\ UNCHANGED <<waiting, leaving, want, seen, live, until, signals>>

\* A thread still leaving its wait calls nothing.
\* A null timeout waits for ever.
WaitEventFlag(t, r) == \E u \in {"Forever", "Until"} : BeginWait(t, u, r)

Step(t) ==
  \/ Leave(t)
  \/ /\ t \notin leaving
     /\ \/ \E r \in Requests : WaitEventFlag(t, r)
        \/ \E pattern \in SUBSET Bits :
             Set(t, pattern) \/ Clear(t, pattern) \/ Cancel(t, pattern)
        \/ Outside(t) /\ UNCHANGED flag
  \/ Resume(t) \/ Handled(t)
  \/ Raise(t) /\ UNCHANGED flag

Next == (\E t \in Threads : Step(t)) \/ (Nudge /\ UNCHANGED flag)

Spec == Init /\ [][Next]_vars

\* As for the mutex: threads out of the queue go on, handlers return, raises
\* finish their nudge.
Fairness ==
  /\ \A t \in Threads : WF_vars(Resume(t)) /\ WF_vars(Handled(t)) /\ WF_vars(Leave(t))
  /\ WF_vars(Nudge /\ UNCHANGED flag)

FairSpec == Spec /\ Fairness

-----------------------------------------------------------------------------
(* Properties *)

\* Threads inside event_flag_wait without an answer.
Inside == {t \in Threads : at[t] # "run"}

\* waiting counts the calls of event_flag_wait, however each ends: found, timed
\* out, cancelled (sync.rs, event_flag_wait).
WaitingIsExact == waiting = Cardinality(Inside \cup leaving)

\* Set wakes everybody, whose patterns differ, and so does a cancel: nobody is
\* left asleep with the pattern there or the flag cancelled (sync.rs,
\* event_flag_set and event_flag_cancel).
NoReleasedSleeper == \A t \in Threads : at[t] = "sleep" => Empty(t)

\* A cancelled wait ends, whatever is set or cleared meanwhile (sync.rs,
\* event_flag_cancel).
CancelReleases ==
  \A t \in Threads : (t \in Inside /\ Cancelled(t)) ~> at[t] = "run"

\* What the comment in event_flag_wait says: a cancel counts exactly the threads
\* it releases, those inside that no earlier cancel released.
CancelCountsReleased ==
  waiting = Cardinality({t \in Inside : ~Cancelled(t)})
=============================================================================
