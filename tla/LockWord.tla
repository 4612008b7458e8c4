------------------------------- MODULE LockWord -------------------------------
(***************************************************************************)
(* The guest word that names a lock: mutex_or_static, pthread_mutex_init   *)
(* and pthread_mutex_destroy of orbistoun-kernel/src/lib.rs, over the      *)
(* create and destroy of sync.rs.  cond_or_static is the same algorithm    *)
(* for condition variables.                                                *)
(*                                                                         *)
(* The word holds a static initialiser, the mark of a destroyed lock, or a *)
(* handle.  A thread that finds an initialiser makes the lock under one    *)
(* host mutex, MAKING, and looks again under it; a thread that destroys    *)
(* takes the lock out of the table and marks the word in two steps.        *)
(*                                                                         *)
(* pc[t] is where t is: "see" has read the word without MAKING, "make" has *)
(* MAKING, "write" has created the lock in got[t], "use" is in a call on   *)
(* got[t], "remove" and "mark" are the steps of a destroy.                 *)
(***************************************************************************)
EXTENDS Naturals

CONSTANTS
  Threads,
  NoThread,     \* nobody has MAKING
  Statics,      \* words that mean a lock nobody has made
  Destroyed,    \* the word of a destroyed lock
  MaxHandles    \* bound on locks created

ASSUME WordAssumption ==
  /\ NoThread \notin Threads
  /\ Destroyed \notin Statics
  /\ MaxHandles \in Nat
  /\ (Statics \cup {Destroyed}) \cap (0..MaxHandles) = {}

Handles == 1..MaxHandles
Marks == Statics \cup {Destroyed}

VARIABLES word, table, issued, making, pc, got

vars == <<word, table, issued, making, pc, got>>

TypeOK ==
  /\ word \in Marks \cup Handles
  /\ table \subseteq Handles
  /\ issued \in 0..MaxHandles
  /\ making \in Threads \cup {NoThread}
  /\ pc \in [Threads -> {"idle", "see", "make", "write", "use", "remove", "mark"}]
  /\ got \in [Threads -> 0..MaxHandles]

Init ==
  /\ word \in Statics
  /\ table = {}
  /\ issued = 0
  /\ making = NoThread
  /\ pc = [t \in Threads |-> "idle"]
  /\ got = [t \in Threads |-> 0]

Goto(t, place) == pc' = [pc EXCEPT ![t] = place]

\* sync::create: a handle never given out before.
Create ==
  /\ issued < MaxHandles
  /\ issued' = issued + 1
  /\ table' = table \cup {issued + 1}

-----------------------------------------------------------------------------
(* mutex_or_static *)

\* A handle is used as it is; a static word has to be looked at again.
Read(t) ==
  /\ pc[t] = "idle" /\ word # Destroyed
  /\ IF word \in Statics THEN Goto(t, "see") /\ UNCHANGED got
                         ELSE Goto(t, "use") /\ got' = [got EXCEPT ![t] = word]
  /\ UNCHANGED <<word, table, issued, making>>

TakeMaking(t) ==
  /\ pc[t] = "see" /\ making = NoThread
  /\ making' = t
  /\ Goto(t, "make")
  /\ UNCHANGED <<word, table, issued, got>>

\* Mutant: what was read before MAKING is still believed.
RereadNever(t) ==
  /\ pc[t] = "make"
  /\ Create
  /\ got' = [got EXCEPT ![t] = issued + 1]
  /\ Goto(t, "write")
  /\ UNCHANGED <<word, making>>

\* Under MAKING: still static, so the lock is created; already made, or gone.
Reread(t) ==
  /\ pc[t] = "make"
  /\ \/ /\ word \in Statics
        /\ Create
        /\ got' = [got EXCEPT ![t] = issued + 1]
        /\ Goto(t, "write")
        /\ UNCHANGED making
     \/ /\ word \in Handles
        /\ got' = [got EXCEPT ![t] = word]
        /\ making' = NoThread
        /\ Goto(t, "use")
        /\ UNCHANGED <<table, issued>>
     \/ /\ word = Destroyed
        /\ making' = NoThread
        /\ Goto(t, "idle")
        /\ UNCHANGED <<table, issued, got>>
  /\ UNCHANGED word

\* The handle is written, and MAKING released.
Write(t) ==
  /\ pc[t] = "write"
  /\ word' = got[t]
  /\ making' = NoThread
  /\ Goto(t, "use")
  /\ UNCHANGED <<table, issued, got>>

\* The call on the lock ends.
Done(t) ==
  /\ pc[t] = "use"
  /\ Goto(t, "idle")
  /\ UNCHANGED <<word, table, issued, making, got>>

-----------------------------------------------------------------------------
(* pthread_mutex_destroy and pthread_mutex_init *)

\* mutex_at takes any word but the plain initialiser for a handle; the table
\* refuses what is not one.
ReadToDestroy(t) ==
  /\ pc[t] = "idle" /\ word \in Handles
  /\ got' = [got EXCEPT ![t] = word]
  /\ Goto(t, "remove")
  /\ UNCHANGED <<word, table, issued, making>>

\* Mutant: the lock stays in the table.
RemoveNever(t) ==
  /\ pc[t] = "remove"
  /\ Goto(t, "mark")
  /\ UNCHANGED <<word, table, issued, making, got>>

Remove(t) ==
  /\ pc[t] = "remove"
  /\ Goto(t, IF got[t] \in table THEN "mark" ELSE "idle")
  /\ table' = table \ {got[t]}
  /\ UNCHANGED <<word, issued, making, got>>

Mark(t) ==
  /\ pc[t] = "mark"
  /\ word' = Destroyed
  /\ Goto(t, "idle")
  /\ UNCHANGED <<table, issued, making, got>>

\* A guest makes a lock again only where nobody is in a call on it.
InitLock(t) ==
  /\ \A o \in Threads : pc[o] = "idle"
  /\ word \notin Handles
  /\ Create
  /\ word' = issued + 1
  /\ UNCHANGED <<making, pc, got>>

\* A destroyed lock is refused.
Refused(t) == pc[t] = "idle" /\ word = Destroyed /\ UNCHANGED vars

Step(t) ==
  \/ Read(t) \/ TakeMaking(t) \/ Reread(t) \/ Write(t) \/ Done(t)
  \/ ReadToDestroy(t) \/ Remove(t) \/ Mark(t) \/ InitLock(t) \/ Refused(t)

Next == \E t \in Threads : Step(t)

Spec == Init /\ [][Next]_vars

-----------------------------------------------------------------------------
(* Properties *)

\* Threads that take the same static lock first make one lock between them:
\* two in a call on the word are in a call on the same lock (lib.rs,
\* mutex_or_static).
SameLock ==
  \A t, o \in Threads : pc[t] = "use" /\ pc[o] = "use" => got[t] = got[o]

\* No lock is left in the table without a word that names it, or a thread about
\* to write one (lib.rs, mutex_or_static and pthread_mutex_destroy).
NoLeak ==
  \A h \in table : word = h \/ \E t \in Threads : pc[t] = "write" /\ got[t] = h

\* A destroyed lock does not come back by itself: the word only leaves its mark
\* when the guest makes the lock anew, with nobody in a call (lib.rs,
\* pthread_mutex_destroy, D766).
DestroyedStays ==
  [][word = Destroyed /\ word' # word => \A t \in Threads : pc[t] = "idle"]_vars
=============================================================================
