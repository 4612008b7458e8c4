----------------------------- MODULE CondMonitor -----------------------------
(***************************************************************************)
(* A monitor a guest builds from a mutex and a condition variable:         *)
(* pthread_cond_wait and cond_timedwait of orbistoun-kernel/src/lib.rs     *)
(* around GuestCond.  The two objects are independent, so the shim         *)
(* releases the mutex, waits, and takes the mutex again in three steps;    *)
(* "gap" is the place between the first two and "back" between the last.   *)
(*                                                                         *)
(* The guest is the usual one: takers wait in a loop while there are no    *)
(* items, makers add an item and signal or broadcast under the mutex.      *)
(* The mutex is the one LockSpec promises, owned by holder or by nobody.   *)
(***************************************************************************)
EXTENDS GuestCond

CONSTANTS
  NoThread,     \* the holder of a free mutex
  MaxItems,     \* bound on items made and not yet taken
  Announcements \* how makers tell takers: "signal", "broadcast" or either

ASSUME MonitorAssumption ==
  /\ NoThread \notin Threads
  /\ MaxItems \in Nat \ {0}
  /\ Announcements \subseteq {"signal", "broadcast"}

VARIABLES pc, holder, items

monitor == <<pc, holder, items>>
allvars == <<vars, monitor>>

MonitorTypeOK ==
  /\ TypeOK
  /\ pc \in [Threads -> {"out", "check", "make", "made", "gap", "in", "back"}]
  /\ holder \in Threads \cup {NoThread}
  /\ items \in 0..MaxItems

MonitorInit ==
  /\ Init
  /\ pc = [t \in Threads |-> "out"]
  /\ holder = NoThread
  /\ items = 0

Goto(t, place) == pc' = [pc EXCEPT ![t] = place]

-----------------------------------------------------------------------------
(* The guest's own steps under the mutex *)

Lock(t, place) ==
  /\ pc[t] = "out" /\ holder = NoThread
  /\ holder' = t
  /\ Goto(t, place)
  /\ UNCHANGED <<items, vars>>

Unlock(t) ==
  /\ pc[t] \in {"make", "made"} \/ (pc[t] = "check" /\ items = 0)
  /\ holder' = NoThread
  /\ Goto(t, "out")
  /\ UNCHANGED <<items, vars>>

Make(t) ==
  /\ pc[t] = "make" /\ items < MaxItems
  /\ items' = items + 1
  /\ \/ "signal" \in Announcements /\ Signal(t)
     \/ "broadcast" \in Announcements /\ Broadcast(t)
     \/ ~live /\ UNCHANGED vars
  /\ Goto(t, "made")
  /\ UNCHANGED holder

TakeItem(t) ==
  /\ pc[t] = "check" /\ items > 0
  /\ items' = items - 1
  /\ holder' = NoThread
  /\ Goto(t, "out")
  /\ UNCHANGED vars

-----------------------------------------------------------------------------
(* pthread_cond_wait *)

\* sync::unlock, before the condition variable is reached.
ReleaseMutex(t) ==
  /\ pc[t] = "check" /\ items = 0
  /\ holder' = NoThread
  /\ Goto(t, "gap")
  /\ UNCHANGED <<items, vars>>

\* sync::cond_wait: a handle naming nothing is answered at once.
Wait(t) ==
  /\ pc[t] = "gap"
  /\ \/ (CondWait(t) \/ CondTimedwait(t)) /\ Goto(t, "in")
     \/ ~live /\ Goto(t, "back") /\ UNCHANGED vars
  /\ UNCHANGED <<holder, items>>

Waiting(t) ==
  /\ pc[t] = "in"
  /\ Resume(t)
  /\ IF at'[t] = "run" THEN Goto(t, "back") ELSE UNCHANGED pc
  /\ UNCHANGED <<holder, items>>

\* sync::acquire(Forever), whatever the wait answered; the guest then looks at
\* its items again.
TakeMutexBack(t) ==
  /\ pc[t] = "back" /\ holder = NoThread
  /\ holder' = t
  /\ Goto(t, "check")
  /\ UNCHANGED <<items, vars>>

\* The host's timers and spurious wakes.
Disturb(t) == (Timeout(t) \/ Spurious(t)) /\ UNCHANGED <<cond, monitor>>

\* A thread outside the monitor destroys the condition variable.
DestroyCond(t) == pc[t] = "out" /\ Destroy(t) /\ UNCHANGED <<cond, monitor>>

MonitorStep(t) ==
  \/ Lock(t, "check") \/ Lock(t, "make") \/ Unlock(t) \/ Make(t) \/ TakeItem(t)
  \/ ReleaseMutex(t) \/ Wait(t) \/ Waiting(t) \/ TakeMutexBack(t)
  \/ Disturb(t) \/ DestroyCond(t)

MonitorNext == \E t \in Threads : MonitorStep(t)

MonitorSpec == MonitorInit /\ [][MonitorNext]_allvars

-----------------------------------------------------------------------------
(* Properties *)

\* The wait is not atomic with the release of the mutex, and any waiter may take
\* a wake meant for another, but no item is forgotten: while the condition
\* variable exists, an item is there and a taker sleeps, some thread is on its
\* way to look (lib.rs, pthread_cond_wait; sync.rs, cond_signal keeps a wake
\* nobody waits for yet).  It holds when makers signal, or when there is at most
\* one item: a broadcast counts threads inside the wait and not those in the gap.
NoForgottenItem ==
  live /\ items > 0 /\ Sleepers(at) # {} =>
    \E t \in Threads : Turn(t) \/ pc[t] \in {"gap", "back", "check", "made"}

\* What the comments on cond_wait and pthread_cond_wait say: a signal arriving
\* in the gap is lost, so a wake sent while the only takers are in the gap
\* leaves nothing owed.
GapSignalIsLost ==
  (\E t \in Threads : pc[t] = "gap") /\ Inside = {} => owed = 0
=============================================================================
