----------------------------- MODULE GuestRwlock -----------------------------
(***************************************************************************)
(* One guest read/write lock: GuestRwlock of orbistoun-kernel/src/sync.rs  *)
(* with rwlock_read, rwlock_write, rwlock_unlock and rwlock_destroy, each  *)
(* wait a wait_while.  These waits deliver no signals and nudge_waiters    *)
(* does not visit them, so the signal variables of BlockingCall rest.      *)
(*                                                                         *)
(* readers and writer are the fields of RwState: the lock does not know    *)
(* who holds it.  holds is history: what each thread was granted and has   *)
(* not released.  wants is the predicate the thread waits with.            *)
(***************************************************************************)
EXTENDS BlockingCall, FiniteSets

CONSTANT Disciplined    \* guests release only what they hold

GuestsAssumption == Disciplined \in BOOLEAN /\ IsFiniteSet(Threads)

VARIABLES readers, writer, wants, holds

rwlock == <<readers, writer, wants, holds>>
vars == <<rwlock, waits>>

HoldersOf(mode) == {t \in Threads : holds[t] = mode}

TypeOK ==
  /\ WaitsTypeOK
  /\ readers \in Nat
  /\ writer \in BOOLEAN
  /\ wants \in [Threads -> {"read", "write"}]
  /\ holds \in [Threads -> {"nothing", "read", "write"}]

Init ==
  /\ WaitsInit
  /\ readers = 0
  /\ writer = FALSE
  /\ wants = [t \in Threads |-> "read"]
  /\ holds = [t \in Threads |-> "nothing"]

-----------------------------------------------------------------------------
(* rwlock_read and rwlock_write *)

\* A thread asks for one hold at a time.
Begin(t, u, mode) ==
  /\ holds[t] = "nothing"
  /\ Enter(t, u)
  /\ wants' = [wants EXCEPT ![t] = mode]
  /\ UNCHANGED <<readers, writer, holds>>

\* Mutant: a writer does not wait for the readers.
BlockedByWriter(t) == writer

Blocked(t) == writer \/ (wants[t] = "write" /\ readers > 0)

Take(t) ==
  /\ ~Blocked(t)
  /\ IF wants[t] = "read" THEN readers' = readers + 1 /\ UNCHANGED writer
                          ELSE writer' = TRUE /\ UNCHANGED readers
  /\ holds' = [holds EXCEPT ![t] = wants[t]]
  /\ Return(t)
  /\ UNCHANGED wants

Sleep(t) == Blocked(t) /\ FallAsleep(t) /\ UNCHANGED rwlock

GiveUp(t) == Blocked(t) /\ OutOfPatience(t) /\ Return(t) /\ UNCHANGED rwlock

Resume(t) == Turn(t) /\ (Take(t) \/ Sleep(t) \/ GiveUp(t))

-----------------------------------------------------------------------------
(* rwlock_unlock: one call for both holds *)

\* The caller's hold ends, if it had one.
Forget(t) == holds' = [holds EXCEPT ![t] = "nothing"]

\* Mutant: one waiter is notified.
UnlockOne(t) ==
  /\ Calls(t) /\ (Disciplined => holds[t] # "nothing")
  /\ \/ writer /\ writer' = FALSE /\ UNCHANGED readers
     \/ ~writer /\ readers > 0 /\ readers' = readers - 1 /\ UNCHANGED writer
  /\ Forget(t)
  /\ at' \in NotifyOne(at)
  /\ UNCHANGED <<wants, live, until, signals>>

Unlock(t) ==
  /\ Calls(t) /\ (Disciplined => holds[t] # "nothing")
  /\ \/ writer /\ writer' = FALSE /\ UNCHANGED readers
     \/ ~writer /\ readers > 0 /\ readers' = readers - 1 /\ UNCHANGED writer
  /\ Forget(t)
  /\ at' = NotifyAll(at)
  /\ UNCHANGED <<wants, live, until, signals>>

\* Nobody holds it: refused.
UnlockRefused(t) == Calls(t) /\ ~writer /\ readers = 0 /\ UNCHANGED vars

-----------------------------------------------------------------------------
(* The guest's calls *)

Rdlock(t) == Begin(t, "Forever", "read")
Tryrdlock(t) == Begin(t, "Never", "read")
Timedrdlock(t) == Begin(t, "Until", "read")
Wrlock(t) == Begin(t, "Forever", "write")
Trywrlock(t) == Begin(t, "Never", "write")
Timedwrlock(t) == Begin(t, "Until", "write")

Step(t) ==
  \/ Rdlock(t) \/ Tryrdlock(t) \/ Timedrdlock(t)
  \/ Wrlock(t) \/ Trywrlock(t) \/ Timedwrlock(t)
  \/ Resume(t)
  \/ Unlock(t) \/ UnlockRefused(t)
  \/ Outside(t) /\ UNCHANGED rwlock

Next == \E t \in Threads : Step(t)

Spec == Init /\ [][Next]_vars

\* A thread out of the wait queue takes its next turn.
Fairness == \A t \in Threads : WF_vars(Resume(t))

FairSpec == Spec /\ Fairness

-----------------------------------------------------------------------------
(* Properties *)

\* The lock keeps a count and a flag, not its holders; while guests release what
\* they hold the two agree, whatever the order of grants, refusals and releases
\* (sync.rs, rwlock_unlock infers the hold from the flag).
HoldsAreKept ==
  /\ readers = Cardinality(HoldersOf("read"))
  /\ writer <=> HoldersOf("write") # {}

\* A writer is alone (sync.rs, rwlock_read and rwlock_write).
WriterAlone ==
  \A t \in HoldersOf("write") : \A o \in Threads \ {t} : holds[o] = "nothing"

\* A release wakes every waiter, since readers and writers wait for different
\* things: nobody is left asleep when the lock is free for what they want
\* (sync.rs, rwlock_unlock).
NoGrantableSleeper == \A t \in Threads : at[t] = "sleep" => Blocked(t)

\* While the lock is free and somebody is in a call for it, it is taken or they
\* all leave.
FreeLockIsTaken ==
  (~writer /\ readers = 0 /\ \E t \in Threads : at[t] # "run")
    ~> (writer \/ readers > 0 \/ \A t \in Threads : at[t] = "run")
=============================================================================
