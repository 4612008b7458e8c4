-------------------------- MODULE BlockingCallProofs --------------------------
(***************************************************************************)
(* What every step of BlockingCall preserves, whatever object it is about: *)
(* the types of its variables and SignalNotMissed.  The proofs about the   *)
(* primitives cite these lemmas and add their own object's invariant.      *)
(***************************************************************************)
EXTENDS BlockingCall, TLAPS

\* Only a wait with a deadline times out.
OnlyDeadlinesExpire == \A t \in Threads : at[t] = "expired" => until[t] = "Until"

WaitInv == WaitsTypeOK /\ SignalNotMissed /\ OnlyDeadlinesExpire

\* A step that wakes sleepers and moves nobody else.
OnlyWakes(f, g) ==
  /\ g \in [Threads -> Places]
  /\ \A t \in Threads : g[t] = f[t] \/ (f[t] = "sleep" /\ g[t] = "awake")

\* Condvar::notify_one moves one thread from sleep to awake, and moves one
\* whenever somebody sleeps.
LEMMA NotifyOneEffect ==
  ASSUME NEW f \in [Threads -> Places], NEW g \in NotifyOne(f)
  PROVE  /\ OnlyWakes(f, g)
         /\ Sleepers(g) # {} => \E t \in Threads : g[t] = "awake"
  BY DEF NotifyOne, Sleepers, Places, OnlyWakes

\* Condvar::notify_all empties the wait queue and moves nobody else.
LEMMA NotifyAllEffect ==
  ASSUME NEW f \in [Threads -> Places]
  PROVE  /\ OnlyWakes(f, NotifyAll(f))
         /\ \A t \in Threads :
              NotifyAll(f)[t] = IF f[t] = "sleep" THEN "awake" ELSE f[t]
         /\ \A t \in Threads : NotifyAll(f)[t] # "sleep"
         /\ Sleepers(NotifyAll(f)) = {}
  BY DEF NotifyAll, Sleepers, Places, OnlyWakes

\* The waits begin in it.
LEMMA WaitInvInit == WaitsInit => WaitInv
  BY RaisesAssumption
     DEF WaitsInit, WaitInv, WaitsTypeOK, SignalNotMissed, OnlyDeadlinesExpire, Places, Blocking

\* Waking sleepers preserves the invariant of the waits.
LEMMA WakeInv ==
  ASSUME WaitInv, OnlyWakes(at, at'), UNCHANGED <<live, until, signals>>
  PROVE  WaitInv'
  BY DEF WaitInv, WaitsTypeOK, SignalNotMissed, OnlyDeadlinesExpire, OnlyWakes, signals

\* And so does leaving the waits alone.
LEMMA IdleInv == WaitInv /\ UNCHANGED waits => WaitInv'
  BY DEF WaitInv, WaitsTypeOK, SignalNotMissed, OnlyDeadlinesExpire, waits, signals

\* Every turn of a wait loop preserves it; a thread falls asleep only without a
\* signal pending.
LEMMA TurnInv ==
  ASSUME WaitInv, NEW t \in Threads,
         \/ \E u \in Blocking : Enter(t, u)
         \/ Return(t)
         \/ FallAsleep(t) /\ ~pending[t]
         \/ Interrupt(t)
         \/ HandlerReturn(t)
  PROVE  WaitInv'
<1> USE DEF WaitInv, WaitsTypeOK, SignalNotMissed, OnlyDeadlinesExpire, signals, Places
<1>1. ASSUME NEW u \in Blocking, Enter(t, u) PROVE WaitInv'
  BY <1>1 DEF Enter
<1>2. CASE Return(t)
  BY <1>2 DEF Return
<1>3. CASE FallAsleep(t) /\ ~pending[t]
  BY <1>3 DEF FallAsleep
<1>4. CASE Interrupt(t)
  BY <1>4 DEF Interrupt
<1>5. CASE HandlerReturn(t)
  BY <1>5 DEF HandlerReturn
<1> QED BY <1>1, <1>2, <1>3, <1>4, <1>5

\* So does what happens elsewhere, and it moves a thread only out of the queue.
LEMMA ElsewhereInv ==
  ASSUME WaitInv, NEW t \in Threads, Elsewhere(t)
  PROVE  /\ WaitInv'
         /\ \A x \in Threads :
              at'[x] = at[x] \/ (at[x] = "sleep" /\ at'[x] \in {"awake", "expired"})
<1> USE DEF WaitInv, WaitsTypeOK, SignalNotMissed, OnlyDeadlinesExpire, signals, Places
<1>1. CASE Destroy(t)
  BY <1>1 DEF Destroy
<1>2. CASE Miss(t)
  BY <1>2 DEF Miss, waits
<1>3. CASE Timeout(t)
  BY <1>3 DEF Timeout
<1>4. CASE Spurious(t)
  BY <1>4 DEF Spurious
<1>5. CASE Raise(t)
  BY <1>5, RaisesAssumption DEF Raise
<1> QED BY <1>1, <1>2, <1>3, <1>4, <1>5 DEF Elsewhere, Outside

\* And so does the nudge that follows a raise.
LEMMA NudgeInv ==
  ASSUME WaitInv, Nudge
  PROVE  WaitInv' /\ OnlyWakes(at, at')
<1>1. OnlyWakes(at, at') /\ (live => \A t \in Threads : at'[t] # "sleep")
  BY NotifyAllEffect DEF WaitInv, WaitsTypeOK, Nudge, OnlyWakes
<1>2. WaitInv'
  BY <1>1, RaisesAssumption
     DEF WaitInv, WaitsTypeOK, SignalNotMissed, OnlyDeadlinesExpire, Nudge, OnlyWakes
<1> QED BY <1>1, <1>2
=============================================================================
