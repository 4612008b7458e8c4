----------------------------- MODULE GuestThreads -----------------------------
(***************************************************************************)
(* Guest threads from creation to join: spawn, join, adopt and the exit    *)
(* values of orbistoun-kernel/src/thread.rs, with pthread_create,          *)
(* pthread_join and pthread_exit of lib.rs above them.                     *)
(*                                                                         *)
(* A spawned thread is named by its handle.  Main is the process's first   *)
(* thread, which runs guest code without having been spawned and has no    *)
(* handle until something adopts it.                                       *)
(*                                                                         *)
(* joiners and exits are the tables of thread.rs, finished the flag of     *)
(* each record.  body[h] is how far the host thread behind h has come:     *)
(* "dtors" and "value" are between the guest entry's return and the end.   *)
(* creating[t] and joining[t] are the handles t is in the middle of a call *)
(* with.  Histories: returned are the threads whose entry returned,        *)
(* collected those whose value a join handed over, refused those some join *)
(* was refused while they had not ended and nobody had joined them, and    *)
(* exiter the thread that ended the program.                               *)
(***************************************************************************)
EXTENDS Naturals, FiniteSets

CONSTANTS
  Handles,      \* handles to give out, one per thread spawned
  Main,         \* the first thread
  Nobody        \* no thread

ASSUME ThreadNames == Main \notin Handles /\ Nobody \notin Handles \cup {Main}

Threads == Handles \cup {Main}

VARIABLES body, adopted, joiners, exits, finished, creating, joining, stopped,
          returned, collected, refused, exiter

history == <<returned, collected, refused, exiter>>
tables == <<joiners, exits, finished>>
vars == <<body, adopted, tables, creating, joining, stopped, history>>

Bodies == {"none", "failed", "starting", "run", "dtors", "value", "over", "parked"}

TypeOK ==
  /\ body \in [Threads -> Bodies]
  /\ adopted \in BOOLEAN
  /\ joiners \subseteq Handles
  /\ exits \subseteq Handles
  /\ finished \subseteq Handles
  /\ creating \in [Threads -> Handles \cup {Nobody}]
  /\ joining \in [Threads -> Handles \cup {Nobody}]
  /\ stopped \in BOOLEAN
  /\ returned \subseteq Handles /\ collected \subseteq Handles
  /\ refused \subseteq Handles
  /\ exiter \in Threads \cup {Nobody}

Init ==
  /\ body = [t \in Threads |-> IF t = Main THEN "run" ELSE "none"]
  /\ adopted = FALSE
  /\ joiners = {} /\ exits = {} /\ finished = {}
  /\ creating = [t \in Threads |-> Nobody]
  /\ joining = [t \in Threads |-> Nobody]
  /\ stopped = FALSE
  /\ returned = {} /\ collected = {} /\ refused = {}
  /\ exiter = Nobody

\* A thread that runs guest code and is in no call.
Free(t) ==
  ~stopped /\ body[t] = "run" /\ creating[t] = Nobody /\ joining[t] = Nobody

\* thread::current() is not zero: spawned threads become their handle before
\* any guest code runs, the first thread when something adopts it.
HasHandle(t) == t # Main \/ adopted

-----------------------------------------------------------------------------
(* spawn *)

\* Registered, and the host thread started: it may run before the creator goes
\* on.
Launch(t, h) ==
  /\ Free(t) /\ body[h] = "none"
  /\ body' = [body EXCEPT ![h] = "starting"]
  /\ creating' = [creating EXCEPT ![t] = h]
  /\ UNCHANGED <<adopted, tables, joining, stopped, history>>

\* Registered, and the host refuses.
LaunchRefused(t, h) ==
  /\ Free(t) /\ body[h] = "none"
  /\ body' = [body EXCEPT ![h] = "failed"]
  /\ UNCHANGED <<adopted, tables, creating, joining, stopped, history>>

\* The creator puts the host thread where a join finds it and returns the handle.
Publish(t) ==
  /\ ~stopped /\ creating[t] # Nobody
  /\ joiners' = joiners \cup {creating[t]}
  /\ creating' = [creating EXCEPT ![t] = Nobody]
  /\ UNCHANGED <<body, adopted, exits, finished, joining, stopped, history>>

\* become_thread, a stack, and the guest's entry; or no stack, and the thread is
\* over before it ran.
Begin(h) ==
  /\ ~stopped /\ body[h] = "starting"
  /\ body' = [body EXCEPT ![h] = "run"]
  /\ UNCHANGED <<adopted, tables, creating, joining, stopped, history>>

NoStack(h) ==
  /\ ~stopped /\ body[h] = "starting"
  /\ body' = [body EXCEPT ![h] = "over"]
  /\ finished' = finished \cup {h}
  /\ UNCHANGED <<adopted, joiners, exits, creating, joining, stopped, history>>

-----------------------------------------------------------------------------
(* The end of a thread *)

\* The entry returns and run_thread_dtors begins.
Return(h) ==
  /\ h # Main /\ Free(h)
  /\ body' = [body EXCEPT ![h] = "dtors"]
  /\ returned' = returned \cup {h}
  /\ UNCHANGED <<adopted, tables, creating, joining, stopped, collected, refused, exiter>>

\* Mutant: the thread ends and leaves its value to be set by nobody.
SetExitValueNever(h) ==
  /\ ~stopped /\ body[h] = "dtors"
  /\ body' = [body EXCEPT ![h] = "value"]
  /\ UNCHANGED <<adopted, tables, creating, joining, stopped, history>>

SetExitValue(h) ==
  /\ ~stopped /\ body[h] = "dtors"
  /\ body' = [body EXCEPT ![h] = "value"]
  /\ exits' = exits \cup {h}
  /\ UNCHANGED <<adopted, joiners, finished, creating, joining, stopped, history>>

\* Mutant: the thread parks instead of ending.
FinishParked(h) ==
  /\ ~stopped /\ body[h] = "value"
  /\ body' = [body EXCEPT ![h] = "parked"]
  /\ finished' = finished \cup {h}
  /\ UNCHANGED <<adopted, joiners, exits, creating, joining, stopped, history>>

Finish(h) ==
  /\ ~stopped /\ body[h] = "value"
  /\ body' = [body EXCEPT ![h] = "over"]
  /\ finished' = finished \cup {h}
  /\ UNCHANGED <<adopted, joiners, exits, creating, joining, stopped, history>>

\* pthread_exit: current() is read, then adopt answers the handle there is or
\* makes one; equal ends the program, different parks the thread for good.
Exit(t) ==
  /\ Free(t)
  /\ IF HasHandle(t)
     THEN stopped' = TRUE /\ exiter' = t /\ UNCHANGED <<body, adopted>>
     ELSE /\ adopted' = TRUE
          /\ body' = [body EXCEPT ![t] = "parked"]
          /\ UNCHANGED <<stopped, exiter>>
  /\ UNCHANGED <<tables, creating, joining, returned, collected, refused>>

\* Any call that asks who is calling.
Adopt ==
  /\ Free(Main) /\ ~adopted
  /\ adopted' = TRUE
  /\ UNCHANGED <<body, tables, creating, joining, stopped, history>>

-----------------------------------------------------------------------------
(* join; nobody joins itself *)

\* Mutant: the table keeps the host thread.
JoinKeeping(t, h) ==
  /\ Free(t) /\ t # h /\ h \in joiners
  /\ joining' = [joining EXCEPT ![t] = h]
  /\ UNCHANGED <<body, adopted, tables, creating, stopped, history>>

Join(t, h) ==
  /\ Free(t) /\ t # h /\ h \in joiners
  /\ joiners' = joiners \ {h}
  /\ joining' = [joining EXCEPT ![t] = h]
  /\ UNCHANGED <<body, adopted, exits, finished, creating, stopped, history>>

\* An issued handle that is not in the table: nothing to wait for.
JoinRefused(t, h) ==
  /\ Free(t) /\ t # h /\ body[h] # "none" /\ h \notin joiners
  /\ refused' = IF /\ body[h] \in {"run", "dtors", "value"}
                   /\ \A o \in Threads : joining[o] # h
                THEN refused \cup {h} ELSE refused
  /\ UNCHANGED <<body, adopted, tables, creating, joining, stopped, returned, collected, exiter>>

\* The host thread has ended: its value is taken out of the table.
JoinDone(t) ==
  /\ ~stopped /\ joining[t] # Nobody /\ body[joining[t]] = "over"
  /\ exits' = exits \ {joining[t]}
  /\ collected' = IF joining[t] \in exits THEN collected \cup {joining[t]} ELSE collected
  /\ joining' = [joining EXCEPT ![t] = Nobody]
  /\ UNCHANGED <<body, adopted, joiners, finished, creating, stopped, returned, refused, exiter>>

\* The process is gone.
Ended == stopped /\ UNCHANGED vars

Next ==
  \/ \E t \in Threads :
       \/ \E h \in Handles :
            Launch(t, h) \/ LaunchRefused(t, h) \/ Join(t, h) \/ JoinRefused(t, h)
       \/ Publish(t) \/ JoinDone(t) \/ Exit(t)
  \/ \E h \in Handles : Begin(h) \/ NoStack(h) \/ Return(h) \/ SetExitValue(h) \/ Finish(h)
  \/ Adopt \/ Ended

Spec == Init /\ [][Next]_vars

\* The host runs its threads: a thread started begins, one whose entry returned
\* ends, a creator and a joiner go on.
Fairness ==
  /\ \A h \in Handles :
       WF_vars(Begin(h) \/ NoStack(h)) /\ WF_vars(SetExitValue(h)) /\ WF_vars(Finish(h))
  /\ \A t \in Threads : WF_vars(Publish(t)) /\ WF_vars(JoinDone(t))

FairSpec == Spec /\ Fairness

-----------------------------------------------------------------------------
(* Properties *)

\* One join per thread: a handle is in the table, or with the one join that took
\* it out, or with nobody (thread.rs, join: a second join does not block).
JoinedOnce ==
  \A t \in Threads : joining[t] # Nobody =>
    /\ joining[t] \notin joiners
    /\ \A o \in Threads \ {t} : joining[o] # joining[t]

\* The value of a thread whose entry returned is there when its host thread
\* ends, and stays until a join has handed it over (thread.rs, exit_values).
ValueIsKept ==
  \A h \in returned : body[h] = "over" => h \in exits \cup collected

\* A join on a thread whose entry has returned comes back, unless the program
\* ends first.
JoinReturns ==
  \A t \in Threads, h \in Handles :
    (joining[t] = h /\ h \in returned) ~> (joining[t] = Nobody \/ stopped)

\* What the comment on join says: it returns whether there was anything to wait
\* for, so a thread that has not ended and that nobody joined is waited for.
JoinFindsThread == refused = {}

\* What the comment on pthread_exit says: on any thread but the main one it ends
\* only that thread.
ExitEndsOneThread == exiter \in {Nobody, Main}
=============================================================================
