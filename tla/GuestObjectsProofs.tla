-------------------------- MODULE GuestObjectsProofs --------------------------
(***************************************************************************)
(* Theorems about the objects of GuestObjects, for every finite set of     *)
(* threads: the word of a lock, the read-write lock, the barrier, the      *)
(* event flag and the address queue.  The steps are in GuestObjectsSteps.  *)
(***************************************************************************)
EXTENDS GuestObjectsSteps, FiniteSetTheorems

\* Finitely many threads are counted as one expects.
LEMMA ThreadsAreCounted == CountsThreads
<1>1. IsFiniteSet(Threads)
  <2>1. \A S : RW!IsFiniteSet(S) <=> IsFiniteSet(S)
    BY DEF RW!IsFiniteSet, IsFiniteSet
  <2> QED BY <2>1, ObjectsAssumption DEF RW!GuestsAssumption
<1>2. ASSUME NEW S \in SUBSET Threads
      PROVE  /\ IsFiniteSet(S) /\ Cardinality(S) \in Nat
             /\ Cardinality(S) = 0 <=> S = {}
             /\ \A t \in Threads \ S : Cardinality(S \cup {t}) = Cardinality(S) + 1
             /\ \A t \in S : Cardinality(S \ {t}) = Cardinality(S) - 1
  <2>1. IsFiniteSet(S)
    BY <1>1, FS_Subset
  <2> QED BY <2>1, FS_CardinalityType, FS_AddElement, FS_RemoveElement, FS_EmptySet
<1>3. ASSUME NEW S \in SUBSET Threads, NEW T \in SUBSET Threads, T \subseteq S
      PROVE  Cardinality(T) <= Cardinality(S) /\ (Cardinality(T) = Cardinality(S) => T = S)
  BY <1>2, <1>3, FS_Subset
<1> QED BY <1>2, <1>3 DEF CountsThreads

-----------------------------------------------------------------------------
(* The word of a lock *)

\* Every reachable state satisfies the inductive invariant.
THEOREM WordInvHolds == Spec => []WordInv
BY InitWordInv, NextWordInv, PTL DEF Spec

\* Threads that take the same static lock first make one lock between them,
\* however many they are and whoever destroys it (lib.rs, mutex_or_static).
THEOREM OneLockBetweenThem == Spec => []SameLock
<1>1. WordInv => SameLock
  BY DEF WordInv, HeldAgree, Holding, SameLock
<1> QED BY <1>1, WordInvHolds, PTL

\* No lock is left in the table that no word names (lib.rs, mutex_or_static and
\* pthread_mutex_destroy).
THEOREM NothingLeaks == Spec => []NoLeak
<1>1. WordInv => NoLeak
  BY DEF WordInv
<1> QED BY <1>1, WordInvHolds, PTL

\* The mark of a destroyed lock only goes when the guest makes the lock anew
\* (lib.rs, pthread_mutex_destroy).
THEOREM DestroyedIsKept == Spec => DestroyedStays
<1>1. ASSUME WordInv, [Next]_vars
      PROVE  [word = Destroyed /\ word' # word => \A t \in Threads : pc[t] = "idle"]_vars
  <2>1. CASE UNCHANGED vars
    BY <2>1 DEF vars
  <2>2. ASSUME NEW t \in Threads, Step(t), word = Destroyed, word' # word
        PROVE  \A o \in Threads : pc[o] = "idle"
    BY <1>1, <2>2, WordsDiffer
       DEF Step, Read, TakeMaking, Reread, Write, Done, ReadToDestroy, Remove, Mark,
           InitLock, Refused, vars, WordInv, WriterSeesStatic
  <2> QED BY <1>1, <2>1, <2>2 DEF Next
<1> QED BY <1>1, WordInvHolds, PTL DEF Spec, DestroyedStays

-----------------------------------------------------------------------------
(* The objects that wait *)

\* Every reachable state of the objects satisfies the invariant.
THEOREM ObjectsInductive == ObjectsSpec => []ObjectsInv
  BY ObjectsInvInit, ObjectsInvNext, ThreadsAreCounted, PTL DEF ObjectsSpec, objects

\* While no thread is left behind for a whole turn of the round counter, nobody
\* sleeps in vain: not on a read-write lock it could have, in a round that is
\* over, on a flag that matches or was cancelled, or beside a wake (rwlock_unlock,
\* barrier_wait, event_flag_set and event_flag_cancel, wake_on_address).
THEOREM SleepersHaveReason == ObjectsSpec /\ []RoundsApart => []NobodySleepsInVain
<1>1. ObjectsInit => (object = "barrier" => BaRounds)
  BY ObjectsInvInit, ThreadsAreCounted
<1>2. /\ ObjectsInv /\ (object = "barrier" => BaRounds) /\ RoundsApart'
      /\ [ObjectsNext]_objects
      => (object = "barrier" => BaRounds)'
  BY ObjectsInvNext, ThreadsAreCounted
<1>3. ObjectsInv /\ (object = "barrier" => BaRounds) => NobodySleepsInVain
  BY DEF ObjectsInv, NobodySleepsInVain, RwInv, BaRounds, EfInv, AwInv
<1> QED BY <1>1, <1>2, <1>3, ObjectsInductive, PTL DEF ObjectsSpec, objects

\* With guests that release only what they hold, every count is exact: the holds
\* of a read-write lock, whose writer is alone, the arrivals of a round, the
\* waits on a flag, and the wakes of an address (rwlock_unlock, barrier_wait,
\* event_flag_wait, wait_on_address).
THEOREM CountsAgree ==
  ASSUME Disciplined = TRUE
  PROVE  ObjectsSpec => []CountsAreExact
<1>1. ObjectsInv => CountsAreExact
  BY SameCounts
     DEF ObjectsInv, CountsAreExact, RwInv, BaInv, EfInv, AwInv, BA!ArrivedIsExact, Arrivals,
         EF!WaitingIsExact, Waiters, AW!NoStrayToken
<1> QED BY <1>1, ObjectsInductive, PTL

\* No thread is left asleep on a flag or an address with a signal once the raise
\* has nudged it (nudge_waiters).
THEOREM SignalsAreHeard == ObjectsSpec => []SleepersHearSignals
<1>1. ObjectsInv => SleepersHearSignals
  BY DEF ObjectsInv, SleepersHearSignals, EfInv, AwInv, W!WaitInv, W!SignalNotMissed,
         EF!SignalNotMissed, AW!SignalNotMissed
<1> QED BY <1>1, ObjectsInductive, PTL

\* A barrier made for all the threads lets none get two rounds ahead of another,
\* even when the round counter wraps (barrier_wait).
THEOREM KeepsStep == ObjectsSpec => []LockStep
<1>1. ObjectsInv => LockStep
  BY SameCounts DEF ObjectsInv, LockStep, BA!LockStep, BaInv, InStep
<1> QED BY <1>1, ObjectsInductive, PTL

\* Once a store was followed by a wake for everybody, nobody sleeps on the old
\* value, while guests never store a value others wait on (wait_on_address,
\* wake_on_address).
THEOREM AnnouncementsReachAll ==
  ASSUME Stores \cap Expected = {}
  PROVE  ObjectsSpec => []AnnouncedWakesAll
<1>1. ASSUME AwInv, announced, NEW t \in Threads, at[t] = "sleep" PROVE expected[t] = cell
  <2>1. t \in AW!Inside /\ tokens = 0
    BY <1>1 DEF AwInv, AW!Inside, AW!NoTokenSleeper
  <2>2. Cardinality(AW!Inside) # 0
    BY <1>1, <2>1, AwCounted, Counting, ThreadsAreCounted
  <2>3. queued # 0
    BY <1>1, <2>2, AwCounted, ThreadsAreCounted DEF AwInv
  <2> QED BY <1>1, <2>1, <2>3 DEF AwInv, WakesForAll
<1>2. ObjectsInv => AnnouncedWakesAll
  BY <1>1 DEF ObjectsInv, AnnouncedWakesAll, AW!AnnouncedWakesAll
<1> QED BY <1>2, ObjectsInductive, PTL
=============================================================================
