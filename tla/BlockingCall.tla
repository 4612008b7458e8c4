----------------------------- MODULE BlockingCall -----------------------------
(***************************************************************************)
(* What the blocking calls of orbistoun-kernel/src/sync.rs have in common: *)
(* guest threads that enter a call on one object, sleep on its host        *)
(* condition variable, run out of patience, are interrupted by a signal,   *)
(* and find the object's handle gone.  Each primitive extends this module  *)
(* with its own state and says when a thread may leave.                    *)
(*                                                                         *)
(* live says the table still names the object.  at[t] is where thread t is *)
(* in the call and until[t] how patient it is; "run" is guest code,        *)
(* "handler" the guest signal handler that runs in the middle of a call.   *)
(* pending[t] is the thread's one signal slot, raises counts the raises    *)
(* (a bound) and nudges those whose nudge_waiters has not reached this     *)
(* object yet.                                                             *)
(***************************************************************************)
EXTENDS Naturals, HostCondvar

CONSTANTS
  Threads,      \* guest threads
  MaxRaises     \* bound on signals raised

ASSUME RaisesAssumption == MaxRaises \in Nat

VARIABLES live, at, until, pending, raises, nudges

signals == <<pending, raises, nudges>>
waits == <<live, at, until, signals>>

Places == {"run", "sleep", "awake", "expired", "handler"}

WaitsTypeOK ==
  /\ live \in BOOLEAN
  /\ at \in [Threads -> Places]
  /\ until \in [Threads -> Blocking]
  /\ pending \in [Threads -> BOOLEAN]
  /\ raises \in 0..MaxRaises
  /\ nudges \in 0..raises

WaitsInit ==
  /\ live = TRUE
  /\ at = [t \in Threads |-> "run"]
  /\ until = [t \in Threads |-> "Never"]
  /\ pending = [t \in Threads |-> FALSE]
  /\ raises = 0
  /\ nudges = 0

-----------------------------------------------------------------------------
(* The turns of a wait loop *)

\* Guest code that may call into the object: the thread's own, or its handler.
Calls(t) == at[t] \in {"run", "handler"} /\ live

\* A call on an object the table names; the table is released before it waits.
Enter(t, u) ==
  /\ at[t] = "run" /\ live
  /\ at' = [at EXCEPT ![t] = "awake"]
  /\ until' = [until EXCEPT ![t] = u]
  /\ UNCHANGED <<live, signals>>

\* Out of the wait queue, holding the object's host mutex.
Turn(t) == at[t] \in {"awake", "expired"}

Return(t) ==
  /\ at' = [at EXCEPT ![t] = "run"]
  /\ UNCHANGED <<live, until, signals>>

FallAsleep(t) ==
  /\ until[t] # "Never"
  /\ at' = [at EXCEPT ![t] = "sleep"]
  /\ UNCHANGED <<live, until, signals>>

\* Patience is over: a call that would not wait, or a timeout reported by the
\* host.  The report may come before the deadline, and then the wait goes on.
OutOfPatience(t) == until[t] = "Never" \/ at[t] = "expired"

\* deliver_signal: the host mutex is dropped and the handler runs.
Interrupt(t) ==
  /\ pending[t]
  /\ pending' = [pending EXCEPT ![t] = FALSE]
  /\ at' = [at EXCEPT ![t] = "handler"]
  /\ UNCHANGED <<live, until, raises, nudges>>

\* The handler returns and the host mutex is taken again.
HandlerReturn(t) ==
  /\ at[t] = "handler"
  /\ at' = [at EXCEPT ![t] = "awake"]
  /\ UNCHANGED <<live, until, signals>>

-----------------------------------------------------------------------------
(* The host, the table and the other threads *)

Timeout(t) ==
  /\ at[t] = "sleep" /\ until[t] = "Until"
  /\ at' = [at EXCEPT ![t] = "expired"]
  /\ UNCHANGED <<live, until, signals>>

Spurious(t) ==
  /\ at[t] = "sleep"
  /\ at' = [at EXCEPT ![t] = "awake"]
  /\ UNCHANGED <<live, until, signals>>

\* sceKernelRaiseException on another thread fills its one signal slot...
Raise(t) ==
  /\ raises < MaxRaises
  /\ pending' = [pending EXCEPT ![t] = TRUE]
  /\ raises' = raises + 1
  /\ nudges' = nudges + 1
  /\ UNCHANGED <<live, at, until>>

\* ... and then nudge_waiters notifies every object still in its table.
Nudge ==
  /\ nudges > 0
  /\ nudges' = nudges - 1
  /\ at' = IF live THEN NotifyAll(at) ELSE at
  /\ UNCHANGED <<live, until, pending, raises>>

\* The table forgets the handle; threads inside keep their Arc.
Destroy(t) ==
  /\ Calls(t)
  /\ live' = FALSE
  /\ UNCHANGED <<at, until, signals>>

\* Any call on a destroyed handle misses the table.
Miss(t) ==
  /\ at[t] \in {"run", "handler"} /\ ~live
  /\ UNCHANGED waits

\* What happens to a thread without the object's state changing: in a wait that
\* does not deliver signals, and in one that does.
Outside(t) == Destroy(t) \/ Miss(t) \/ Timeout(t) \/ Spurious(t)

Elsewhere(t) == Outside(t) \/ Raise(t)

-----------------------------------------------------------------------------
(* Properties of every object whose waits deliver signals *)

\* A raise sets the slot and only then notifies, under the lock the sleeper
\* tests its predicate with, so no thread sleeps with a signal pending once the
\* nudges are done (sync.rs, nudge_waiters).
SignalNotMissed ==
  \A t \in Threads : at[t] = "sleep" /\ pending[t] => nudges > 0 \/ ~live

\* A signal raised on a thread asleep on an object the table names ends the
\* sleep (sync.rs, nudge_waiters).
SignalEndsSleep ==
  \A t \in Threads :
    (at[t] = "sleep" /\ pending[t] /\ live) ~> (at[t] # "sleep" \/ ~live)
=============================================================================
