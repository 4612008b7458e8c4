------------------------- MODULE GuestSemaphoreProofs -------------------------
(***************************************************************************)
(* Proofs about GuestSemaphore, for every set of threads and every bound.  *)
(***************************************************************************)
EXTENDS GuestSemaphore, BlockingCallProofs

counts == <<count, ceiling, need>>

CountTypeOK ==
  /\ ceiling \in 0..MaxCount
  /\ count \in 0..ceiling
  /\ need \in [Threads -> 1..MaxNeed]

IInv == WaitInv /\ CountTypeOK /\ NoCoveredSleeper

\* The invariant gives the properties.
LEMMA IInvImplies == IInv => TypeOK /\ NoCoveredSleeper /\ SignalNotMissed
  BY DEF IInv, WaitInv, CountTypeOK, TypeOK

\* The initial state satisfies the invariant.
LEMMA InitIInv == Init => IInv
<1> SUFFICES ASSUME Init PROVE IInv
  OBVIOUS
<1>1. WaitInv
  BY WaitInvInit DEF Init
<1>2. CountTypeOK
  BY CountAssumption DEF Init, CountTypeOK
<1>3. NoCoveredSleeper
  BY DEF Init, WaitsInit, NoCoveredSleeper
<1> QED BY <1>1, <1>2, <1>3 DEF IInv

\* Steps that put nobody to sleep keep every sleeper uncovered as long as the
\* count does not rise and no sleeper's request changes.
LEMMA NobodySleepsIInv ==
  ASSUME IInv, WaitInv', CountTypeOK', count' <= count,
         \A x \in Threads : at'[x] = "sleep" => at[x] = "sleep" /\ need'[x] = need[x]
  PROVE  IInv'
<1>1. count \in Nat /\ count' \in Nat /\ need \in [Threads -> Nat]
  BY CountAssumption DEF IInv, CountTypeOK
<1>2. NoCoveredSleeper'
  BY <1>1 DEF IInv, NoCoveredSleeper
<1> QED BY <1>2 DEF IInv

\* BeginTake preserves the invariant.
LEMMA BeginTakeIInv ==
  ASSUME IInv, NEW t \in Threads, NEW u \in Blocking, NEW n \in 1..MaxNeed, BeginTake(t, u, n)
  PROVE  IInv'
<1>1. WaitInv'
  BY TurnInv DEF BeginTake, IInv
<1>2. CountTypeOK'
  BY DEF BeginTake, IInv, CountTypeOK
<1>3. count' <= count
  BY CountAssumption DEF BeginTake, IInv, CountTypeOK
<1> QED BY <1>1, <1>2, <1>3, NobodySleepsIInv
        DEF BeginTake, Enter, IInv, WaitInv, WaitsTypeOK, CountTypeOK

\* Resume preserves the invariant.
LEMMA ResumeIInv ==
  ASSUME IInv, NEW t \in Threads, Resume(t)
  PROVE  IInv'
<1> USE DEF IInv
<1>1. CASE Take(t)
  <2>1. WaitInv'
    BY <1>1, TurnInv DEF Take
  <2>2. CountTypeOK' /\ count' <= count
    BY <1>1, CountAssumption DEF Take, CountTypeOK
  <2> QED BY <1>1, <2>1, <2>2, NobodySleepsIInv DEF Take, Return, WaitInv, WaitsTypeOK
<1>2. CASE Deliver(t) \/ GiveUp(t)
  <2>1. WaitInv'
    BY <1>2, TurnInv DEF Deliver, GiveUp
  <2>2. CountTypeOK' /\ count' <= count
    BY <1>2, CountAssumption DEF Deliver, GiveUp, CountTypeOK
  <2> QED BY <1>2, <2>1, <2>2, NobodySleepsIInv
          DEF Deliver, GiveUp, Return, Interrupt, WaitInv, WaitsTypeOK
<1>3. CASE Sleep(t)
  <2>1. WaitInv'
    BY <1>3, TurnInv DEF Sleep, Blocked
  <2>2. CountTypeOK'
    BY <1>3 DEF Sleep, CountTypeOK
  <2>3. NoCoveredSleeper'
    BY <1>3 DEF Sleep, Blocked, FallAsleep, NoCoveredSleeper, WaitInv, WaitsTypeOK
  <2> QED BY <2>1, <2>2, <2>3
<1> QED BY <1>1, <1>2, <1>3 DEF Resume

\* Signal preserves the invariant.
LEMMA SignalIInv ==
  ASSUME IInv, NEW t \in Threads, NEW n \in 0..MaxNeed, Signal(t, n)
  PROVE  IInv'
<1>1. OnlyWakes(at, at') /\ \A x \in Threads : at'[x] # "sleep"
  BY NotifyAllEffect DEF Signal, IInv, WaitInv, WaitsTypeOK
<1>2. WaitInv'
  BY <1>1, WakeInv DEF Signal, IInv
<1>3. CountTypeOK'
  BY CountAssumption DEF Signal, IInv, CountTypeOK
<1>4. NoCoveredSleeper'
  BY <1>1 DEF NoCoveredSleeper
<1> QED BY <1>2, <1>3, <1>4 DEF IInv

\* A step that leaves the count alone and moves threads only out of the queue.
LEMMA WakingIInv ==
  ASSUME IInv, WaitInv', UNCHANGED counts,
         \A x \in Threads : at'[x] = "sleep" => at[x] = "sleep"
  PROVE  IInv'
<1>1. CountTypeOK' /\ count' <= count
  BY CountAssumption DEF IInv, CountTypeOK, counts
<1> QED BY <1>1, NobodySleepsIInv DEF counts

\* Every step of a thread preserves the invariant.
LEMMA StepIInv ==
  ASSUME IInv, NEW t \in Threads, Step(t)
  PROVE  IInv'
<1>1. ASSUME NEW u \in Blocking, NEW n \in 1..MaxNeed, BeginTake(t, u, n) PROVE IInv'
  BY <1>1, BeginTakeIInv
<1>2. CASE Resume(t)
  BY <1>2, ResumeIInv
<1>3. CASE Handled(t)
  <2>1. WaitInv'
    BY <1>3, TurnInv DEF Handled, IInv
  <2> QED BY <1>3, <2>1, WakingIInv
          DEF Handled, HandlerReturn, counts, IInv, WaitInv, WaitsTypeOK
<1>4. ASSUME NEW n \in 1..MaxNeed, HandlerTakes(t, n) PROVE IInv'
  <2>1. WaitInv'
    BY <1>4, IdleInv DEF HandlerTakes, IInv
  <2>2. CountTypeOK' /\ count' <= count
    BY <1>4, CountAssumption DEF HandlerTakes, IInv, CountTypeOK
  <2> QED BY <1>4, <2>1, <2>2, NobodySleepsIInv DEF HandlerTakes, waits
<1>5. ASSUME NEW n \in 0..MaxNeed, Signal(t, n) PROVE IInv'
  BY <1>5, SignalIInv
<1>6. ASSUME NEW n \in 0..MaxNeed, SignalRefused(t, n) PROVE IInv'
  BY <1>6, IdleInv, WakingIInv DEF SignalRefused, vars, waits, counts, IInv
<1>7. CASE Elsewhere(t) /\ UNCHANGED counts
  BY <1>7, ElsewhereInv, WakingIInv DEF IInv
<1> QED BY <1>1, <1>2, <1>3, <1>4, <1>5, <1>6, <1>7, CountAssumption
        DEF Step, WaitSema, PollSema, SemTimedwait, Blocking, counts

\* Every reachable state satisfies the inductive invariant.
THEOREM Inductive == Spec => []IInv
<1>1. IInv /\ [Next]_vars => IInv'
  <2> SUFFICES ASSUME IInv, [Next]_vars PROVE IInv'
    OBVIOUS
  <2>1. ASSUME NEW t \in Threads, Step(t) PROVE IInv'
    BY <2>1, StepIInv
  <2>2. CASE Nudge /\ UNCHANGED counts
    BY <2>2, NudgeInv, WakingIInv DEF IInv, OnlyWakes
  <2>3. CASE UNCHANGED vars
    BY <2>3, IdleInv, WakingIInv DEF vars, waits, counts, IInv
  <2> QED BY <2>1, <2>2, <2>3 DEF Next, counts
<1> QED BY InitIInv, <1>1, PTL DEF Spec

\* The variables keep their types: the count never underflows and never passes
\* the ceiling the semaphore was made with (take and signal).
THEOREM TypeCorrect == Spec => []TypeOK
  BY Inductive, IInvImplies, PTL

\* Nobody sleeps while the count covers what they asked for.
THEOREM SleepersUncovered == Spec => []NoCoveredSleeper
  BY Inductive, IInvImplies, PTL

\* No thread is left asleep with a signal once the raise has nudged the
\* semaphore.
THEOREM SignalsNotMissed == Spec => []SignalNotMissed
  BY Inductive, IInvImplies, PTL

\* A take without a deadline leaves with all it asked for: the refusal after
\* the loop of GuestSemaphore::take is unreachable.
THEOREM PatienceIsServed == Spec => ForeverReturnsServed
<1>1. IInv /\ [Next]_vars =>
        [\A t \in Threads :
           Turn(t) /\ until[t] = "Forever" /\ at'[t] = "run" => count' = count - need[t]]_vars
  <2> SUFFICES ASSUME IInv, Next, NEW t \in Threads,
                      Turn(t), until[t] = "Forever", at'[t] = "run"
               PROVE  count' = count - need[t]
    BY DEF vars
  <2>1. ~Nudge
    BY NudgeInv DEF IInv, OnlyWakes, Turn
  <2>2. PICK x \in Threads : Step(x)
    BY <2>1 DEF Next
  <2> USE DEF Turn, IInv, WaitInv, WaitsTypeOK
  <2>3. ASSUME NEW u \in Blocking, NEW n \in 1..MaxNeed, BeginTake(x, u, n) PROVE FALSE
    BY <2>3 DEF BeginTake, Enter
  <2>4. ASSUME NEW n \in 0..MaxNeed, HandlerTakes(x, n) \/ SignalRefused(x, n) PROVE FALSE
    BY <2>4 DEF HandlerTakes, SignalRefused, waits, vars
  <2>5. ~Handled(x)
    BY DEF Handled, HandlerReturn
  <2>6. ASSUME NEW n \in 0..MaxNeed, Signal(x, n) PROVE FALSE
    BY <2>6, NotifyAllEffect DEF Signal
  <2>7. ~Elsewhere(x)
    BY ElsewhereInv
  <2>8. Resume(x)
    BY <2>2, <2>3, <2>4, <2>5, <2>6, <2>7, CountAssumption
       DEF Step, WaitSema, PollSema, SemTimedwait, Blocking
  <2>9. x = t /\ Take(t)
    BY <2>8 DEF Resume, Take, Deliver, Sleep, GiveUp, Return, Interrupt, FallAsleep,
                OutOfPatience, Blocked, OnlyDeadlinesExpire
  <2> QED BY <2>9 DEF Take
<1> QED BY <1>1, Inductive, PTL DEF Spec, ForeverReturnsServed
=============================================================================
