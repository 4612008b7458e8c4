-------------------------- MODULE GuestObjectsSteps --------------------------
(***************************************************************************)
(* The steps of the guest objects: the word of a lock, the read-write      *)
(* lock, the barrier, the event flag and the address queue.  Each has an   *)
(* inductive invariant of its own; the steps of the waits are those of     *)
(* BlockingCall, whose lemmas W! names.  What counting threads gives is a  *)
(* hypothesis here, CountsThreads, which GuestObjectsProofs discharges.    *)
(***************************************************************************)
EXTENDS GuestObjects, FiniteSets, TLAPS

W == INSTANCE BlockingCallProofs

-----------------------------------------------------------------------------
(* LockWord: who has MAKING, that the word is still an initialiser while   *)
(* its lock is being written, that threads in a call or in a destroy agree *)
(* on the lock, and that a lock about to be marked is out of the table.    *)

\* Exactly the thread between its second look and its write has MAKING.
MakingIsExact == \A t \in Threads : pc[t] \in {"make", "write"} <=> making = t

\* Nobody changes the word between the second look and the write.
WriterSeesStatic == \A t \in Threads : pc[t] = "write" => word \in Statics /\ got[t] \in Handles

\* A thread with a handle has the one in the word, or the lock was destroyed.
Holding == {"use", "remove", "mark"}
HeldIsNamed ==
  \A t \in Threads : pc[t] \in Holding => got[t] \in Handles /\ word \in {got[t], Destroyed}

HeldAgree ==
  \A t, o \in Threads : pc[t] \in Holding /\ pc[o] \in Holding => got[t] = got[o]

\* One destroy removes the lock, and then marks the word.
MarkedIsGone == \A t \in Threads : pc[t] = "mark" => got[t] \notin table

WordInv ==
  TypeOK /\ MakingIsExact /\ WriterSeesStatic /\ HeldIsNamed /\ HeldAgree /\ MarkedIsGone /\ NoLeak

\* Handles, initialisers and the mark are told apart.
LEMMA WordsDiffer ==
  /\ Handles \subseteq 0..MaxHandles
  /\ Statics \cap Handles = {} /\ Destroyed \notin Handles /\ Destroyed \notin Statics
  /\ NoThread \notin Threads
BY WordAssumption DEF Handles

\* The initial state satisfies the invariant.
LEMMA InitWordInv == Init => WordInv
BY WordsDiffer, WordAssumption
   DEF Init, WordInv, TypeOK, MakingIsExact, WriterSeesStatic, HeldIsNamed, HeldAgree,
       MarkedIsGone, NoLeak, Holding, Marks

\* A new handle is a handle.
LEMMA CreateFresh ==
  ASSUME TypeOK, Create
  PROVE  /\ issued + 1 \in Handles /\ issued' \in 0..MaxHandles
         /\ table' \subseteq Handles
BY WordAssumption DEF TypeOK, Create, Handles

USE DEF Goto

\* Read preserves the invariant.
LEMMA ReadWordInv == ASSUME WordInv, NEW t \in Threads, Read(t) PROVE WordInv'
<1> USE WordsDiffer DEF WordInv, Read
<1>1. TypeOK'
  BY DEF TypeOK, Marks
<1>2. MakingIsExact'
  BY DEF TypeOK, MakingIsExact
<1>3. WriterSeesStatic'
  BY DEF TypeOK, WriterSeesStatic
<1>4. HeldIsNamed' /\ HeldAgree'
  BY DEF TypeOK, HeldIsNamed, HeldAgree, Holding, Marks
<1>5. MarkedIsGone' /\ NoLeak'
  BY DEF TypeOK, MarkedIsGone, NoLeak
<1> QED BY <1>1, <1>2, <1>3, <1>4, <1>5

\* TakeMaking preserves the invariant.
LEMMA TakeMakingWordInv == ASSUME WordInv, NEW t \in Threads, TakeMaking(t) PROVE WordInv'
BY WordsDiffer
   DEF WordInv, TakeMaking, TypeOK, MakingIsExact, WriterSeesStatic, HeldIsNamed, HeldAgree,
       MarkedIsGone, NoLeak, Holding

\* Reread preserves the invariant.
LEMMA RereadWordInv == ASSUME WordInv, NEW t \in Threads, Reread(t) PROVE WordInv'
<1> USE WordsDiffer DEF WordInv
<1>1. CASE word \in Statics /\ Create /\ got' = [got EXCEPT ![t] = issued + 1]
           /\ Goto(t, "write") /\ UNCHANGED <<making, word>>
  <2>1. issued + 1 \in Handles /\ issued' \in 0..MaxHandles /\ table' \subseteq Handles
    BY <1>1, CreateFresh
  <2>2. \A o \in Threads : pc[o] \notin Holding
    BY <1>1 DEF TypeOK, HeldIsNamed
  <2>3. TypeOK'
    BY <1>1, <2>1 DEF TypeOK
  <2>4. MakingIsExact'
    BY <1>1 DEF Reread, TypeOK, MakingIsExact
  <2>5. WriterSeesStatic'
    BY <1>1, <2>1 DEF TypeOK, WriterSeesStatic
  <2>6. HeldIsNamed' /\ HeldAgree' /\ MarkedIsGone'
    BY <1>1, <2>2 DEF TypeOK, HeldIsNamed, HeldAgree, MarkedIsGone, Holding
  <2>7. \A o \in Threads : pc[o] = "write" => FALSE
    BY DEF Reread, TypeOK, MakingIsExact
  <2>8. NoLeak'
    BY <1>1, <2>7 DEF TypeOK, NoLeak, Create
  <2> QED BY <2>3, <2>4, <2>5, <2>6, <2>8
<1>2. CASE /\ word \in Handles \/ word = Destroyed
           /\ making' = NoThread
           /\ \/ word \in Handles /\ got' = [got EXCEPT ![t] = word] /\ Goto(t, "use")
              \/ word = Destroyed /\ Goto(t, "idle") /\ UNCHANGED got
           /\ UNCHANGED <<table, issued, word>>
  <2>1. TypeOK'
    BY <1>2 DEF TypeOK
  <2>2. MakingIsExact'
    BY <1>2 DEF Reread, TypeOK, MakingIsExact
  <2>3. WriterSeesStatic'
    BY <1>2 DEF TypeOK, WriterSeesStatic
  <2>4. HeldIsNamed' /\ HeldAgree'
    BY <1>2 DEF TypeOK, HeldIsNamed, HeldAgree, Holding
  <2>5. MarkedIsGone' /\ NoLeak'
    BY <1>2 DEF TypeOK, MarkedIsGone, NoLeak, WriterSeesStatic
  <2> QED BY <2>1, <2>2, <2>3, <2>4, <2>5
<1> QED BY <1>1, <1>2 DEF Reread

\* Write preserves the invariant.
LEMMA WriteWordInv == ASSUME WordInv, NEW t \in Threads, Write(t) PROVE WordInv'
<1> USE WordsDiffer DEF WordInv, Write
<1>1. \A o \in Threads : pc[o] \notin Holding
  BY DEF HeldIsNamed, WriterSeesStatic
<1>2. \A o \in Threads : pc[o] = "write" => o = t
  BY DEF MakingIsExact
<1>3. TypeOK'
  BY DEF TypeOK, WriterSeesStatic, Marks
<1>4. MakingIsExact' /\ WriterSeesStatic'
  BY <1>2 DEF TypeOK, MakingIsExact, WriterSeesStatic
<1>5. HeldIsNamed' /\ HeldAgree' /\ MarkedIsGone'
  BY <1>1 DEF TypeOK, HeldIsNamed, HeldAgree, MarkedIsGone, Holding, WriterSeesStatic
<1>6. NoLeak'
  BY <1>2 DEF TypeOK, NoLeak, WriterSeesStatic
<1> QED BY <1>3, <1>4, <1>5, <1>6

\* Done preserves the invariant.
LEMMA DoneWordInv == ASSUME WordInv, NEW t \in Threads, Done(t) PROVE WordInv'
BY DEF WordInv, Done, TypeOK, MakingIsExact, WriterSeesStatic, HeldIsNamed, HeldAgree,
       MarkedIsGone, NoLeak, Holding

\* ReadToDestroy preserves the invariant.
LEMMA ReadToDestroyWordInv == ASSUME WordInv, NEW t \in Threads, ReadToDestroy(t) PROVE WordInv'
<1> USE WordsDiffer DEF WordInv, ReadToDestroy
<1>1. TypeOK'
  BY DEF TypeOK
<1>2. MakingIsExact' /\ WriterSeesStatic'
  BY DEF TypeOK, MakingIsExact, WriterSeesStatic
<1>3. HeldIsNamed' /\ HeldAgree'
  BY DEF TypeOK, HeldIsNamed, HeldAgree, Holding
<1>4. MarkedIsGone' /\ NoLeak'
  BY DEF TypeOK, MarkedIsGone, NoLeak
<1> QED BY <1>1, <1>2, <1>3, <1>4

\* Remove preserves the invariant.
LEMMA RemoveWordInv == ASSUME WordInv, NEW t \in Threads, Remove(t) PROVE WordInv'
<1> USE WordsDiffer DEF WordInv, Remove
<1>1. TypeOK'
  BY DEF TypeOK
<1>2. MakingIsExact' /\ WriterSeesStatic'
  BY DEF TypeOK, MakingIsExact, WriterSeesStatic
<1>3. HeldIsNamed' /\ HeldAgree'
  BY DEF TypeOK, HeldIsNamed, HeldAgree, Holding
<1>4. MarkedIsGone' /\ NoLeak'
  BY DEF TypeOK, MarkedIsGone, NoLeak
<1> QED BY <1>1, <1>2, <1>3, <1>4

\* Mark preserves the invariant.
LEMMA MarkWordInv == ASSUME WordInv, NEW t \in Threads, Mark(t) PROVE WordInv'
<1> USE WordsDiffer DEF WordInv, Mark
<1>1. word \in Handles \cup {Destroyed} /\ word \in {got[t], Destroyed}
  BY DEF HeldIsNamed, Holding
<1>2. \A o \in Threads : pc[o] # "write"
  BY <1>1 DEF WriterSeesStatic
<1>3. table = {}
  BY <1>1, <1>2 DEF NoLeak, MarkedIsGone, TypeOK
<1>4. TypeOK'
  BY DEF TypeOK, Marks
<1>5. MakingIsExact' /\ WriterSeesStatic'
  BY <1>2 DEF TypeOK, MakingIsExact, WriterSeesStatic
<1>6. HeldIsNamed' /\ HeldAgree'
  BY DEF TypeOK, HeldIsNamed, HeldAgree, Holding
<1>7. MarkedIsGone' /\ NoLeak'
  BY <1>3 DEF TypeOK, MarkedIsGone, NoLeak
<1> QED BY <1>4, <1>5, <1>6, <1>7

\* InitLock preserves the invariant.
LEMMA InitLockWordInv == ASSUME WordInv, NEW t \in Threads, InitLock(t) PROVE WordInv'
<1> USE WordsDiffer DEF WordInv, InitLock
<1>1. issued + 1 \in Handles /\ issued' \in 0..MaxHandles /\ table' \subseteq Handles
  BY CreateFresh
<1>2. table = {}
  BY DEF NoLeak, TypeOK
<1>3. TypeOK'
  BY <1>1 DEF TypeOK, Marks
<1>4. MakingIsExact' /\ WriterSeesStatic' /\ HeldIsNamed' /\ HeldAgree' /\ MarkedIsGone'
  BY DEF MakingIsExact, WriterSeesStatic, HeldIsNamed, HeldAgree, MarkedIsGone, Holding
<1>5. NoLeak'
  BY <1>2 DEF NoLeak, Create
<1> QED BY <1>3, <1>4, <1>5

\* Every step preserves the invariant.
LEMMA NextWordInv == WordInv /\ [Next]_vars => WordInv'
<1> SUFFICES ASSUME WordInv, [Next]_vars PROVE WordInv'
  OBVIOUS
<1>1. CASE UNCHANGED vars
  BY <1>1 DEF vars, WordInv, TypeOK, MakingIsExact, WriterSeesStatic, HeldIsNamed, HeldAgree,
              MarkedIsGone, NoLeak
<1>2. ASSUME NEW t \in Threads, Step(t) PROVE WordInv'
  <2>1. CASE Refused(t)
    BY <1>1, <2>1 DEF Refused
  <2> QED BY <1>2, <2>1, ReadWordInv, TakeMakingWordInv, RereadWordInv, WriteWordInv, DoneWordInv,
             ReadToDestroyWordInv, RemoveWordInv, MarkWordInv, InitLockWordInv DEF Step
<1> QED BY <1>1, <1>2 DEF Next

HIDE DEF Goto

-----------------------------------------------------------------------------
(* Counting *)

\* Every object counts in the same way.
LEMMA SameCounts ==
  \A S : /\ RW!Cardinality(S) = Cardinality(S)
         /\ BA!Cardinality(S) = Cardinality(S)
         /\ EF!Cardinality(S) = Cardinality(S)
         /\ AW!Cardinality(S) = Cardinality(S)
<1>1. \A S : RW!Cardinality(S) = Cardinality(S)
  BY DEF RW!Cardinality, Cardinality
<1>2. \A S : BA!Cardinality(S) = Cardinality(S)
  BY DEF BA!Cardinality, Cardinality
<1>3. \A S : EF!Cardinality(S) = Cardinality(S)
  BY DEF EF!Cardinality, Cardinality
<1>4. \A S : AW!Cardinality(S) = Cardinality(S)
  BY DEF AW!Cardinality, Cardinality
<1> QED BY <1>1, <1>2, <1>3, <1>4

\* What the lemmas of BlockingCallProofs ask for.
LEMMA Constants == MaxRaises \in Nat
  BY ObjectsAssumption

\* Counting threads: none, one more, one less, all of them.  GuestObjectsProofs shows it
\* of any finite set of threads.
CountsThreads ==
  \A S \in SUBSET Threads :
    /\ Cardinality(S) \in Nat
    /\ Cardinality(S) = 0 <=> S = {}
    /\ \A t \in Threads \ S : Cardinality(S \cup {t}) = Cardinality(S) + 1
    /\ \A t \in S : Cardinality(S \ {t}) = Cardinality(S) - 1
    /\ \A T \in SUBSET Threads :
         T \subseteq S => /\ Cardinality(T) <= Cardinality(S)
                          /\ Cardinality(T) = Cardinality(S) => T = S

\* What the proofs use of it, for one set.
LEMMA Counting ==
  ASSUME CountsThreads, NEW S \in SUBSET Threads
  PROVE  /\ Cardinality(S) \in Nat
         /\ \A t \in Threads \ S : Cardinality(S \cup {t}) = Cardinality(S) + 1
         /\ \A t \in S : Cardinality(S \ {t}) = Cardinality(S) - 1
         /\ Cardinality(S) = 0 <=> S = {}
  BY DEF CountsThreads

\* No thread counts as zero.
LEMMA CountsNone == ASSUME CountsThreads PROVE Cardinality({}) = 0
  BY DEF CountsThreads

\* A part of a set of threads counts no more than the set, and as many only
\* when it is the whole of it.
LEMMA CountsPart ==
  ASSUME CountsThreads, NEW S \in SUBSET Threads, NEW T \in SUBSET Threads, T \subseteq S
  PROVE  /\ Cardinality(T) <= Cardinality(S)
         /\ Cardinality(T) = Cardinality(S) => T = S
  BY DEF CountsThreads

\* Without raises no signal is ever pending.
NoSignals == \A t \in Threads : ~pending[t]

-----------------------------------------------------------------------------
(* GuestRwlock *)

\* A thread in a call holds nothing; whoever sleeps is blocked; and with guests
\* that release what they hold, the count and the flag are the holds.
RwInv ==
  /\ W!WaitInv /\ NoSignals
  /\ readers \in Nat
  /\ writer \in BOOLEAN
  /\ wants \in [Threads -> {"read", "write"}]
  /\ holds \in [Threads -> {"nothing", "read", "write"}]
  /\ \A t \in Threads : at[t] # "run" => holds[t] = "nothing"
  /\ RW!NoGrantableSleeper
  /\ Disciplined => RW!HoldsAreKept /\ RW!WriterAlone

\* The waits of a read-write lock are those of BlockingCall.
LEMMA RwWaits ==
  ASSUME NEW t \in Threads
  PROVE  /\ RW!WaitsInit <=> W!WaitsInit
         /\ \A u \in {"Never", "Forever", "Until"} : RW!Enter(t, u) <=> W!Enter(t, u)
         /\ RW!Return(t) <=> W!Return(t)
         /\ RW!FallAsleep(t) <=> W!FallAsleep(t)
         /\ RW!Outside(t) => W!Elsewhere(t)
         /\ RW!NotifyAll(at) = W!NotifyAll(at)
         /\ RW!signals = W!signals
  BY DEF RW!WaitsInit, W!WaitsInit, RW!Enter, W!Enter, RW!Return, W!Return,
         RW!FallAsleep, W!FallAsleep, RW!Outside, W!Elsewhere, W!Outside, RW!Destroy, W!Destroy,
         RW!Calls, W!Calls, RW!Miss, W!Miss, RW!Timeout, W!Timeout, RW!Spurious, W!Spurious,
         RW!NotifyAll, W!NotifyAll, RW!signals, W!signals, RW!waits, W!waits

\* The lock begins in its invariant.
LEMMA RwInit == ASSUME CountsThreads, RW!Init PROVE RwInv
<1>1. W!WaitInv
  BY Constants, W!WaitInvInit DEF RW!Init, RW!WaitsInit, W!WaitsInit
<1>2. RW!HoldersOf("read") = {} /\ RW!HoldersOf("write") = {}
  BY DEF RW!Init, RW!HoldersOf
<1>3. Cardinality({}) = 0
  BY CountsNone
<1> QED BY <1>1, <1>2, <1>3, SameCounts
        DEF RW!Init, RW!WaitsInit, RwInv, NoSignals, RW!NoGrantableSleeper, RW!HoldsAreKept,
            RW!WriterAlone

\* The calls enter with what they want.
LEMMA RwBegin ==
  ASSUME RwInv, NEW t \in Threads, NEW u \in {"Never", "Forever", "Until"},
         NEW mode \in {"read", "write"}, RW!Begin(t, u, mode)
  PROVE  RwInv'
<1> USE DEF RwInv
<1>1. W!WaitInv'
  BY RwWaits, Constants, W!TurnInv DEF RW!Begin, W!Blocking
<1>2. RW!NoGrantableSleeper'
  BY DEF RW!NoGrantableSleeper, RW!Blocked, RW!Begin, RW!Enter, W!WaitInv, W!WaitsTypeOK
<1>3. (RW!HoldsAreKept /\ RW!WriterAlone) => (RW!HoldsAreKept /\ RW!WriterAlone)'
  BY DEF RW!HoldsAreKept, RW!WriterAlone, RW!HoldersOf, RW!Begin
<1>4. NoSignals' /\ \A x \in Threads : at'[x] # "run" => holds'[x] = "nothing"
  BY DEF NoSignals, RW!Begin, RW!Enter, RW!signals, W!WaitInv, W!WaitsTypeOK
<1> QED BY <1>1, <1>2, <1>3, <1>4 DEF RW!Begin

\* A thread is granted what it wants.
LEMMA RwTake ==
  ASSUME CountsThreads, RwInv, NEW t \in Threads, W!Turn(t), RW!Take(t)
  PROVE  RwInv'
<1> USE DEF RwInv
<1>1. W!WaitInv'
  BY RwWaits, Constants, W!TurnInv DEF RW!Take
<1>2. RW!NoGrantableSleeper'
  BY DEF RW!NoGrantableSleeper, RW!Blocked, RW!Take, RW!Return, W!WaitInv, W!WaitsTypeOK
<1>3. NoSignals' /\ \A x \in Threads : at'[x] # "run" => holds'[x] = "nothing"
  BY DEF NoSignals, RW!Take, RW!Return, RW!signals, W!WaitInv, W!WaitsTypeOK
<1>4. ASSUME RW!HoldsAreKept, RW!WriterAlone
      PROVE  RW!HoldsAreKept' /\ RW!WriterAlone'
  <2>1. holds[t] = "nothing" /\ ~writer /\ (wants[t] = "write" => readers = 0)
    BY DEF W!Turn, RW!Take, RW!Blocked
  <2>2. RW!HoldersOf("write") = {} /\ \A x \in Threads : holds[x] # "write"
    BY <1>4, <2>1 DEF RW!HoldsAreKept, RW!HoldersOf
  <2>3. /\ RW!HoldersOf("read") \in SUBSET Threads
        /\ readers = Cardinality(RW!HoldersOf("read"))
        /\ t \in Threads \ RW!HoldersOf("read")
    BY <1>4, <2>1, SameCounts DEF RW!HoldsAreKept, RW!HoldersOf
  <2>4. CASE wants[t] = "read"
    <3>1. /\ RW!HoldersOf("read")' = RW!HoldersOf("read") \cup {t}
          /\ RW!HoldersOf("write")' = {}
      BY <2>1, <2>2, <2>4 DEF RW!HoldersOf, RW!Take
    <3>2. readers' = Cardinality(RW!HoldersOf("read")')
      BY <2>3, <2>4, <3>1, Counting DEF RW!Take
    <3> QED BY <2>1, <2>4, <3>1, <3>2, SameCounts DEF RW!HoldsAreKept, RW!WriterAlone, RW!Take
  <2>5. CASE wants[t] = "write"
    <3>1. RW!HoldersOf("read") = {}
      BY <2>1, <2>3, <2>5, Counting
    <3>2. /\ RW!HoldersOf("read")' = {}
          /\ RW!HoldersOf("write")' = {t}
          /\ \A x \in Threads \ {t} : holds'[x] = "nothing"
      BY <2>1, <2>2, <2>5, <3>1 DEF RW!HoldersOf, RW!Take
    <3>3. readers' = Cardinality(RW!HoldersOf("read")') /\ writer'
      BY <2>3, <2>5, <3>1, <3>2 DEF RW!Take
    <3> QED BY <3>2, <3>3, SameCounts DEF RW!HoldsAreKept, RW!WriterAlone
  <2> QED BY <2>4, <2>5
<1>5. writer' \in BOOLEAN
  BY Zenon DEF RW!Take
<1>6. /\ readers' \in Nat /\ wants' = wants
      /\ holds' \in [Threads -> {"nothing", "read", "write"}]
  BY DEF RW!Take
<1> QED BY <1>1, <1>2, <1>3, <1>4, <1>5, <1>6

\* Everybody wakes when a hold ends.
LEMMA RwUnlock ==
  ASSUME CountsThreads, RwInv, NEW t \in Threads, RW!Unlock(t)
  PROVE  RwInv'
<1> USE DEF RwInv
<1>1. /\ W!OnlyWakes(at, at') /\ \A x \in Threads : at'[x] # "sleep"
      /\ at \in [Threads -> W!Places]
  BY RwWaits, Constants, W!NotifyAllEffect DEF RW!Unlock, W!WaitInv, W!WaitsTypeOK
<1>2. W!WaitInv'
  BY <1>1, Constants, W!WakeInv DEF RW!Unlock, RW!signals, W!signals
<1>3. NoSignals' /\ RW!NoGrantableSleeper'
  BY <1>1 DEF RW!NoGrantableSleeper, NoSignals, RW!Unlock, RW!signals
<1>4. \A x \in Threads : at'[x] # "run" => holds'[x] = "nothing"
  BY <1>1 DEF W!OnlyWakes, RW!Unlock, RW!Forget
<1>5. writer' \in BOOLEAN
  BY Zenon DEF RW!Unlock
<1>6. /\ readers' \in Nat /\ wants' = wants
      /\ holds' \in [Threads -> {"nothing", "read", "write"}]
  BY DEF RW!Unlock, RW!Forget
<1>7. ASSUME Disciplined, RW!HoldsAreKept, RW!WriterAlone
      PROVE  RW!HoldsAreKept' /\ RW!WriterAlone'
  <2>1. holds[t] # "nothing" /\ holds' = [holds EXCEPT ![t] = "nothing"]
    BY <1>7 DEF RW!Unlock, RW!Forget
  <2>2. /\ RW!HoldersOf("read") \in SUBSET Threads
        /\ readers = Cardinality(RW!HoldersOf("read"))
    BY <1>7, SameCounts DEF RW!HoldsAreKept, RW!HoldersOf
  <2>3. RW!WriterAlone'
    BY <1>7, <2>1 DEF RW!WriterAlone, RW!HoldersOf
  <2>4. CASE writer
    <3>1. PICK w \in Threads : holds[w] = "write"
      BY <1>7, <2>4 DEF RW!HoldsAreKept, RW!HoldersOf
    <3>2. w = t
      BY <1>7, <2>1, <3>1 DEF RW!WriterAlone, RW!HoldersOf
    <3>3. \A x \in Threads \ {t} : holds[x] = "nothing"
      BY <1>7, <3>1, <3>2 DEF RW!WriterAlone, RW!HoldersOf
    <3>4. RW!HoldersOf("write")' = {} /\ RW!HoldersOf("read")' = RW!HoldersOf("read")
      BY <2>1, <3>1, <3>2, <3>3 DEF RW!HoldersOf
    <3>5. ~writer' /\ readers' = readers
      BY <2>4 DEF RW!Unlock
    <3> QED BY <2>2, <2>3, <3>4, <3>5, SameCounts DEF RW!HoldsAreKept
  <2>5. CASE ~writer
    <3>1. \A x \in Threads : holds[x] # "write"
      BY <1>7, <2>5 DEF RW!HoldsAreKept, RW!HoldersOf
    <3>2. /\ t \in RW!HoldersOf("read")
          /\ RW!HoldersOf("read")' = RW!HoldersOf("read") \ {t}
          /\ RW!HoldersOf("write")' = {}
      BY <2>1, <3>1 DEF RW!HoldersOf
    <3>3. readers' = readers - 1 /\ ~writer'
      BY <2>5 DEF RW!Unlock
    <3>4. readers' = Cardinality(RW!HoldersOf("read")')
      BY <2>2, <3>2, <3>3, Counting
    <3> QED BY <2>3, <3>2, <3>3, <3>4, SameCounts DEF RW!HoldsAreKept
  <2> QED BY <2>4, <2>5
<1> QED BY <1>2, <1>3, <1>4, <1>5, <1>6, <1>7

\* A step that leaves the lock alone, puts only blocked threads to sleep and
\* lets nobody enter.
LEMMA RwMoves ==
  ASSUME RwInv, UNCHANGED rwlock, W!WaitInv', NoSignals',
         \A x \in Threads : /\ at'[x] # "run" => at[x] # "run"
                            /\ at'[x] = "sleep" => at[x] = "sleep" \/ RW!Blocked(x)
  PROVE  RwInv'
<1> USE DEF RwInv
<1>1. RW!NoGrantableSleeper'
  BY DEF RW!NoGrantableSleeper, RW!Blocked, rwlock
<1>2. (RW!HoldsAreKept /\ RW!WriterAlone) => (RW!HoldsAreKept /\ RW!WriterAlone)'
  BY DEF RW!HoldsAreKept, RW!WriterAlone, RW!HoldersOf, rwlock
<1> QED BY <1>1, <1>2 DEF rwlock

\* Every step of the lock preserves its invariant.
LEMMA RwNext == ASSUME CountsThreads, RwInv, RW!Next PROVE RwInv'
<1>1. PICK t \in Threads : RW!Step(t)
  BY DEF RW!Next
<1>2. CASE \/ RW!Rdlock(t) \/ RW!Tryrdlock(t) \/ RW!Timedrdlock(t)
           \/ RW!Wrlock(t) \/ RW!Trywrlock(t) \/ RW!Timedwrlock(t)
  BY <1>2, RwBegin DEF RW!Rdlock, RW!Tryrdlock, RW!Timedrdlock, RW!Wrlock, RW!Trywrlock,
                       RW!Timedwrlock
<1>3. CASE RW!Resume(t)
  <2>1. W!Turn(t)
    BY <1>3 DEF RW!Resume, RW!Turn, W!Turn
  <2>2. CASE RW!Take(t)
    BY <2>1, <2>2, RwTake
  <2>3. CASE RW!Sleep(t)
    <3>1. W!WaitInv'
      BY Zenon, <2>3, RwWaits, Constants, W!TurnInv DEF RW!Sleep, RwInv, NoSignals
    <3> QED BY <2>1, <2>3, <3>1, RwMoves
            DEF RW!Sleep, RW!FallAsleep, RW!rwlock, rwlock, RwInv, NoSignals, RW!signals, W!Turn,
                W!WaitInv, W!WaitsTypeOK
  <2>4. CASE RW!GiveUp(t)
    <3>1. W!WaitInv'
      BY Zenon, <2>4, RwWaits, Constants, W!TurnInv DEF RW!GiveUp, RwInv
    <3> QED BY Zenon, <2>4, <3>1, RwMoves
            DEF RW!GiveUp, RW!Return, RW!rwlock, rwlock, RwInv, NoSignals, RW!signals,
                W!WaitInv, W!WaitsTypeOK
  <2> QED BY <1>3, <2>2, <2>3, <2>4 DEF RW!Resume
<1>4. CASE RW!Unlock(t)
  BY <1>4, RwUnlock
<1>5. CASE RW!UnlockRefused(t)
  <2>1. W!WaitInv'
    BY <1>5, Constants, W!IdleInv DEF RW!UnlockRefused, RW!vars, RW!waits, W!waits, RwInv,
                                      RW!signals, W!signals
  <2> QED BY Zenon, <1>5, <2>1, RwMoves
          DEF RW!UnlockRefused, RW!vars, RW!waits, RW!signals, RW!rwlock, rwlock, RwInv, NoSignals
<1>6. CASE RW!Outside(t) /\ UNCHANGED RW!rwlock
  <2>1. /\ W!WaitInv' /\ pending' = pending
        /\ \A x \in Threads :
             at'[x] = at[x] \/ (at[x] = "sleep" /\ at'[x] \in {"awake", "expired"})
    BY Zenon, <1>6, RwWaits, Constants, W!ElsewhereInv
       DEF RwInv, RW!Outside, RW!Destroy, RW!Miss, RW!Timeout, RW!Spurious, RW!signals, RW!waits
  <2> QED BY Zenon, <1>6, <2>1, RwMoves DEF RW!rwlock, rwlock, RwInv, NoSignals
<1> QED BY <1>1, <1>2, <1>3, <1>4, <1>5, <1>6 DEF RW!Step

-----------------------------------------------------------------------------
(* GuestBarrier *)

Arrivals == {t \in Threads : at[t] # "run" /\ entered[t] = done}

\* A barrier for everybody: whoever is out has made every round, and whoever is
\* in has made all but the last.
InStep ==
  \A t \in Threads : IF at[t] = "run" THEN laps[t] = done
                     ELSE laps[t] = entered[t] /\ done <= entered[t] + 1

BaInv ==
  /\ W!WaitInv /\ NoSignals
  /\ needed \in Nat
  /\ round \in 0..(RoundModulus - 1)
  /\ mine \in [Threads -> 0..(RoundModulus - 1)]
  /\ done \in Nat
  /\ entered \in [Threads -> Nat]
  /\ laps \in [Threads -> Nat]
  /\ arrived = Cardinality(Arrivals)
  /\ \A t \in Threads : at[t] # "run" =>
       entered[t] <= done /\ (entered[t] = done => mine[t] = round)
  /\ needed = Cardinality(Threads) => InStep

\* No thread is left behind while the round wraps, that is for 2^64 rounds.
RoundsApart ==
  object = "barrier" =>
    \A t \in Threads : at[t] # "run" => done - entered[t] < RoundModulus

\* While that is so, the rounds since a thread arrived are those from its own
\* to the barrier's, and only the threads of this round sleep.
BaRounds ==
  /\ BA!NoReleasedSleeper
  /\ \A t \in Threads : at[t] # "run" =>
       done - entered[t] = IF round >= mine[t] THEN round - mine[t]
                           ELSE round - mine[t] + RoundModulus

\* The waits of a barrier are those of BlockingCall.
LEMMA BaWaits ==
  ASSUME NEW t \in Threads
  PROVE  /\ BA!Enter(t, "Forever") <=> W!Enter(t, "Forever")
         /\ BA!Return(t) <=> W!Return(t)
         /\ BA!FallAsleep(t) <=> W!FallAsleep(t)
         /\ BA!Destroy(t) \/ BA!Miss(t) \/ BA!Spurious(t) => W!Elsewhere(t) /\ pending' = pending
         /\ BA!NotifyAll(at) = W!NotifyAll(at)
  BY DEF BA!Enter, W!Enter, BA!Return, W!Return, BA!FallAsleep, W!FallAsleep, W!Elsewhere,
         W!Outside, BA!Destroy, W!Destroy, BA!Calls, W!Calls, BA!Miss, W!Miss, BA!Spurious,
         W!Spurious, BA!NotifyAll, W!NotifyAll, BA!signals, W!signals, BA!waits, W!waits

\* The barrier begins in its invariant.
LEMMA BaInit == ASSUME CountsThreads, BA!Init PROVE BaInv /\ BaRounds
<1>1. W!WaitInv
  BY Constants, W!WaitInvInit DEF BA!Init, BA!WaitsInit, W!WaitsInit
<1>2. Cardinality(Arrivals) = 0
  BY CountsNone DEF BA!Init, BA!WaitsInit, Arrivals
<1>3. needed \in Nat /\ RoundModulus \in Nat \ {0, 1}
  BY ObjectsAssumption DEF BA!Init, BA!NeededFor, BA!BarrierAssumption
<1> QED BY <1>1, <1>2, <1>3
        DEF BA!Init, BA!WaitsInit, BaInv, BaRounds, NoSignals, InStep, BA!NoReleasedSleeper

\* The next round, without the remainder.
LEMMA NextRound ==
  ASSUME NEW m \in Nat \ {0, 1}, NEW r \in 0..(m - 1)
  PROVE  (r + 1) % m = IF r + 1 = m THEN 0 ELSE r + 1
  OBVIOUS

\* From a thread's own round k to the next round s is one more than to round r.
LEMMA OneRoundMore ==
  ASSUME NEW m \in Nat \ {0, 1}, NEW r \in 0..(m - 1), NEW k \in 0..(m - 1), NEW d \in Nat,
         NEW s \in Nat, s = IF r + 1 = m THEN 0 ELSE r + 1,
         d = IF r >= k THEN r - k ELSE r - k + m, d + 1 < m
  PROVE  d + 1 = IF s >= k THEN s - k ELSE s - k + m
  OBVIOUS

\* The last thread to arrive completes the round.
LEMMA BaComplete ==
  ASSUME CountsThreads, BaInv, NEW t \in Threads, BA!Complete(t)
  PROVE  BaInv' /\ (BaRounds /\ RoundsApart' /\ object' = "barrier" => BaRounds')
<1>1. /\ W!OnlyWakes(at, at') /\ \A x \in Threads : at'[x] # "sleep"
      /\ at[t] = "run" /\ done' = done + 1 /\ arrived' = 0 /\ needed' = needed
      /\ laps' = [laps EXCEPT ![t] = @ + 1] /\ entered' = entered /\ mine' = mine
      /\ arrived + 1 >= needed /\ round' = (round + 1) % RoundModulus
  BY Zenon, BaWaits, Constants, W!NotifyAllEffect
     DEF BA!Complete, BA!Lap, W!WaitInv, W!WaitsTypeOK, BaInv
<1>2. W!WaitInv' /\ NoSignals'
  BY Zenon, <1>1, Constants, W!WakeInv DEF BA!Complete, BA!signals, W!signals, NoSignals, BaInv
<1>3. /\ needed \in Nat /\ done \in Nat /\ round \in 0..(RoundModulus - 1)
      /\ mine \in [Threads -> 0..(RoundModulus - 1)]
      /\ entered \in [Threads -> Nat] /\ laps \in [Threads -> Nat]
      /\ arrived = Cardinality(Arrivals)
      /\ \A x \in Threads : at[x] # "run" => entered[x] <= done
      /\ needed = Cardinality(Threads) => InStep
  BY DEF BaInv
<1>4. RoundModulus \in Nat \ {0, 1}
  BY ObjectsAssumption DEF BA!BarrierAssumption
<1>5. round' = IF round + 1 = RoundModulus THEN 0 ELSE round + 1
  BY Zenon, <1>1, <1>3, <1>4, NextRound
<1>6. round' \in 0..(RoundModulus - 1)
  BY <1>3, <1>4, <1>5
<1>7. \A x \in Threads : at'[x] = "run" <=> at[x] = "run"
  BY <1>1 DEF W!OnlyWakes
<1>8. arrived' = Cardinality(Arrivals')
  <2>1. Arrivals' = {}
    BY <1>1, <1>3, <1>7 DEF Arrivals
  <2> QED BY <1>1, <2>1, CountsNone
<1>9. ASSUME needed = Cardinality(Threads) PROVE InStep'
  <2>1. Arrivals \in SUBSET (Threads \ {t})
    BY <1>1 DEF Arrivals
  <2>2. /\ Cardinality(Threads \ {t}) = Cardinality(Threads) - 1
        /\ Cardinality(Threads) \in Nat /\ Cardinality(Arrivals) \in Nat
    BY <2>1, Counting
  <2>3. /\ Cardinality(Arrivals) <= Cardinality(Threads \ {t})
        /\ Cardinality(Arrivals) = Cardinality(Threads \ {t}) => Arrivals = Threads \ {t}
    <3>1. /\ Threads \ {t} \in SUBSET Threads /\ Arrivals \in SUBSET Threads
          /\ Arrivals \subseteq Threads \ {t}
      BY <2>1
    <3> QED BY <3>1, CountsPart
  <2>4. Arrivals = Threads \ {t}
    BY <1>1, <1>3, <1>9, <2>2, <2>3
  <2>5. \A x \in Threads \ {t} : at[x] # "run" /\ entered[x] = done
    BY <2>4 DEF Arrivals
  <2> QED BY <1>1, <1>3, <1>7, <1>9, <2>5 DEF InStep
<1>10. ASSUME BaRounds, RoundsApart', object' = "barrier" PROVE BaRounds'
  <2>1. BA!NoReleasedSleeper'
    BY <1>1 DEF BA!NoReleasedSleeper
  <2>2. ASSUME NEW x \in Threads, at'[x] # "run"
        PROVE  done' - entered'[x] = IF round' >= mine'[x] THEN round' - mine'[x]
                                     ELSE round' - mine'[x] + RoundModulus
    <3>1. /\ done - entered[x] = IF round >= mine[x] THEN round - mine[x]
                                 ELSE round - mine[x] + RoundModulus
          /\ (done + 1) - entered[x] < RoundModulus
      BY <1>1, <1>7, <1>10, <2>2 DEF BaRounds, RoundsApart
    <3>2. mine[x] \in 0..(RoundModulus - 1) /\ entered[x] \in Nat
      BY <1>3
    <3>3. (done - entered[x]) + 1 = (done + 1) - entered[x] /\ done - entered[x] \in Nat
      BY <1>3, <1>7, <2>2, <3>2
    <3>4. (done - entered[x]) + 1 = IF round' >= mine[x] THEN round' - mine[x]
                                    ELSE round' - mine[x] + RoundModulus
      BY <1>3, <1>4, <1>5, <1>6, <3>1, <3>2, <3>3, OneRoundMore
    <3> QED BY <1>1, <3>3, <3>4
  <2> QED BY <2>1, <2>2 DEF BaRounds
<1>11. \A x \in Threads : at'[x] # "run" => entered'[x] <= done' /\ entered'[x] # done'
  BY <1>1, <1>3, <1>7
<1>12. laps' \in [Threads -> Nat] /\ done' \in Nat
  BY <1>1, <1>3
<1>13. BaInv'
  BY Zenon, <1>1, <1>2, <1>3, <1>6, <1>8, <1>9, <1>11, <1>12 DEF BaInv
<1> QED BY <1>10, <1>13

\* The others arrive and wait.
LEMMA BaArrive ==
  ASSUME CountsThreads, BaInv, NEW t \in Threads, BA!Arrive(t)
  PROVE  BaInv' /\ (BaRounds => BaRounds')
<1> USE DEF BaInv
<1>1. W!WaitInv' /\ NoSignals'
  BY BaWaits, Constants, W!TurnInv DEF BA!Arrive, W!Blocking, W!Enter, W!signals, NoSignals
<1>2. /\ at[t] = "run" /\ at' = [at EXCEPT ![t] = "awake"] /\ at \in [Threads -> W!Places]
      /\ arrived' = arrived + 1
      /\ mine' = [mine EXCEPT ![t] = round] /\ entered' = [entered EXCEPT ![t] = done]
      /\ UNCHANGED <<needed, round, done, laps>>
  BY DEF BA!Arrive, BA!Enter, W!WaitInv, W!WaitsTypeOK
<1>3. Arrivals' = Arrivals \cup {t} /\ t \in Threads \ Arrivals /\ Arrivals \in SUBSET Threads
  BY <1>2 DEF Arrivals
<1>4. arrived' = Cardinality(Arrivals')
  BY <1>2, <1>3, Counting
<1>5. BaRounds => BaRounds'
  BY <1>2 DEF BaRounds, BA!NoReleasedSleeper
<1>6. InStep => InStep'
  BY <1>2 DEF InStep
<1> QED BY <1>1, <1>2, <1>4, <1>5, <1>6

\* A thread comes back once the round is over, and sleeps until then.
LEMMA BaResume ==
  ASSUME BaInv, NEW t \in Threads, BA!Resume(t)
  PROVE  BaInv' /\ (BaRounds => BaRounds')
<1> USE DEF BaInv
<1>1. at[t] \in {"awake", "expired"} /\ at \in [Threads -> W!Places]
  BY DEF BA!Resume, BA!Turn, W!WaitInv, W!WaitsTypeOK
<1>2. W!WaitInv' /\ NoSignals'
  BY Zenon, BaWaits, Constants, W!TurnInv
     DEF BA!Resume, BA!Leave, BA!Sleep, BA!Return, BA!FallAsleep, BA!signals, NoSignals
<1>3. UNCHANGED <<needed, arrived, round, mine, done, entered>>
  BY DEF BA!Resume, BA!Leave, BA!Sleep, BA!barrier, BA!history
<1>4. CASE BA!Leave(t)
  <2>1. /\ at' = [at EXCEPT ![t] = "run"] /\ laps' = [laps EXCEPT ![t] = @ + 1]
        /\ entered[t] < done
    BY <1>1, <1>4 DEF BA!Leave, BA!Return, BA!Lap
  <2>2. Arrivals' = Arrivals
    BY <1>1, <1>3, <2>1 DEF Arrivals
  <2>3. InStep => InStep'
    BY <1>1, <1>3, <2>1 DEF InStep
  <2>4. BaRounds => BaRounds'
    BY <1>1, <1>3, <2>1 DEF BaRounds, BA!NoReleasedSleeper
  <2> QED BY <1>1, <1>2, <1>3, <2>1, <2>2, <2>3, <2>4
<1>5. CASE BA!Sleep(t)
  <2>1. at' = [at EXCEPT ![t] = "sleep"] /\ laps' = laps /\ round = mine[t]
    BY <1>5 DEF BA!Sleep, BA!FallAsleep, BA!barrier, BA!history
  <2>2. Arrivals' = Arrivals
    BY <1>1, <1>3, <2>1 DEF Arrivals
  <2>3. InStep => InStep'
    BY <1>1, <1>3, <2>1 DEF InStep
  <2>4. ASSUME BaRounds PROVE BaRounds'
    <3>1. done - entered[t] = 0 /\ entered[t] \in Nat /\ mine[t] \in Nat
      BY <1>1, <2>1, <2>4 DEF BaRounds
    <3>2. entered[t] = done
      BY <3>1
    <3> QED BY <1>1, <1>3, <2>1, <2>4, <3>2 DEF BaRounds, BA!NoReleasedSleeper
  <2> QED BY <1>1, <1>2, <1>3, <2>1, <2>2, <2>3, <2>4
<1> QED BY <1>4, <1>5 DEF BA!Resume

\* Every step of the barrier preserves its invariant.
LEMMA BaNext ==
  ASSUME CountsThreads, BaInv, BA!Next
  PROVE  BaInv' /\ (BaRounds /\ RoundsApart' /\ object' = "barrier" => BaRounds')
<1>1. PICK t \in Threads : BA!Step(t)
  BY DEF BA!Next
<1>2. CASE BA!Forget(t)
  <2>1. /\ W!WaitInv' /\ pending' = pending /\ UNCHANGED barrier
        /\ \A x \in Threads :
             at'[x] = at[x] \/ (at[x] = "sleep" /\ at'[x] \in {"awake", "expired"})
    BY Zenon, <1>2, BaWaits, Constants, W!ElsewhereInv DEF BaInv, BA!Forget, BA!barrier, BA!history, barrier
  <2>2. Arrivals' = Arrivals /\ (InStep => InStep') /\ (BaRounds => BaRounds')
    BY <2>1 DEF Arrivals, InStep, BaRounds, BA!NoReleasedSleeper, barrier
  <2> QED BY <2>1, <2>2 DEF BaInv, NoSignals, barrier
<1> QED BY <1>1, <1>2, BaComplete, BaArrive, BaResume DEF BA!Step

-----------------------------------------------------------------------------
(* GuestEventFlag *)

\* The calls of event_flag_wait, those with an answer included.
Waiters == EF!Inside \cup leaving

EfInv ==
  /\ W!WaitInv
  /\ bits \subseteq Bits
  /\ leaving \subseteq Threads
  /\ want \in [Threads -> Requests]
  /\ seen \in [Threads -> Nat]
  /\ cancels \in Nat
  /\ \A t \in leaving : at[t] = "run"
  /\ waiting = Cardinality(Waiters)
  /\ EF!NoReleasedSleeper

\* The waits of an event flag are those of BlockingCall.
LEMMA EfWaits ==
  ASSUME NEW t \in Threads
  PROVE  /\ \A u \in {"Forever", "Until"} : EF!Enter(t, u) <=> W!Enter(t, u)
         /\ EF!Return(t) <=> W!Return(t)
         /\ EF!FallAsleep(t) <=> W!FallAsleep(t)
         /\ EF!Interrupt(t) <=> W!Interrupt(t)
         /\ EF!HandlerReturn(t) <=> W!HandlerReturn(t)
         /\ EF!Outside(t) \/ EF!Raise(t) => W!Elsewhere(t)
         /\ EF!Nudge <=> W!Nudge
         /\ EF!NotifyAll(at) = W!NotifyAll(at)
  BY DEF EF!Enter, W!Enter, EF!Return, W!Return, EF!FallAsleep, W!FallAsleep, EF!Interrupt,
         W!Interrupt, EF!HandlerReturn, W!HandlerReturn, W!Elsewhere, EF!Outside, W!Outside,
         EF!Destroy, W!Destroy, EF!Calls, W!Calls, EF!Miss, W!Miss, EF!Timeout, W!Timeout,
         EF!Spurious, W!Spurious, EF!Raise, W!Raise, EF!Nudge, W!Nudge, EF!NotifyAll,
         W!NotifyAll, EF!signals, W!signals, EF!waits, W!waits

\* The flag begins in its invariant.
LEMMA EfInit == ASSUME CountsThreads, EF!Init PROVE EfInv
<1>1. W!WaitInv
  BY Constants, W!WaitInvInit DEF EF!Init, EF!WaitsInit, W!WaitsInit
<1>2. Cardinality(Waiters) = 0
  BY CountsNone DEF EF!Init, EF!WaitsInit, Waiters, EF!Inside
<1>3. (CHOOSE r \in Requests : TRUE) \in Requests
  BY ObjectsAssumption DEF EF!FlagAssumption
<1> QED BY <1>1, <1>2, <1>3 DEF EF!Init, EF!WaitsInit, EfInv, EF!NoReleasedSleeper

\* Fewer bits match no more.
LEMMA EfFewerBits ==
  ASSUME bits' \subseteq bits, UNCHANGED <<want, seen, cancels>>,
         NEW t \in Threads, EF!Empty(t)
  PROVE  EF!Empty(t)'
  BY DEF EF!Empty, EF!Matches, EF!Cancelled

\* A step that leaves the calls counted as they are and puts to sleep only
\* threads with nothing to return with.
LEMMA EfMoves ==
  ASSUME EfInv, W!WaitInv', bits' \subseteq bits, Waiters' = Waiters, leaving' \subseteq Threads,
         UNCHANGED <<waiting, cancels, want, seen>>,
         \A x \in leaving' : at'[x] = "run",
         \A x \in Threads : at'[x] = "sleep" => at[x] = "sleep" \/ EF!Empty(x)
  PROVE  EfInv'
  BY Zenon, EfFewerBits DEF EfInv, EF!NoReleasedSleeper

\* A thread begins to wait.
LEMMA EfBegin ==
  ASSUME CountsThreads, EfInv, NEW t \in Threads, NEW u \in {"Forever", "Until"}, NEW r \in Requests,
         t \notin leaving, EF!BeginWait(t, u, r)
  PROVE  EfInv'
<1> USE DEF EfInv
<1>1. W!WaitInv'
  BY Zenon, EfWaits, Constants, W!TurnInv DEF EF!BeginWait, W!Blocking
<1>2. /\ at[t] = "run" /\ at' = [at EXCEPT ![t] = "awake"] /\ at \in [Threads -> W!Places]
      /\ waiting' = waiting + 1 /\ want' = [want EXCEPT ![t] = r]
      /\ seen' = [seen EXCEPT ![t] = cancels] /\ UNCHANGED <<bits, cancels, leaving>>
  BY DEF EF!BeginWait, EF!Enter, W!WaitInv, W!WaitsTypeOK
<1>3. Waiters \in SUBSET Threads /\ t \in Threads \ Waiters /\ Waiters' = Waiters \cup {t}
  BY <1>2 DEF Waiters, EF!Inside
<1>4. waiting' = Cardinality(Waiters')
  BY <1>2, <1>3, Counting
<1>5. EF!NoReleasedSleeper'
  BY <1>2 DEF EF!NoReleasedSleeper, EF!Empty, EF!Cancelled, EF!Matches
<1> QED BY <1>1, <1>2, <1>4, <1>5

\* A turn of the wait loop.
LEMMA EfResume ==
  ASSUME EfInv, NEW t \in Threads, EF!Resume(t)
  PROVE  EfInv'
<1>1. at[t] \in {"awake", "expired"} /\ at \in [Threads -> W!Places]
  BY DEF EF!Resume, EF!Turn, EfInv, W!WaitInv, W!WaitsTypeOK
<1>2. W!WaitInv'
  BY Zenon, EfWaits, Constants, W!TurnInv
     DEF EF!Resume, EF!Withdraw, EF!Find, EF!Deliver, EF!Sleep, EF!GiveUp, EF!Answer, EfInv
<1>3. CASE EF!Answer(t) /\ bits' \subseteq bits
  BY <1>1, <1>2, <1>3, EfMoves DEF EF!Answer, EF!Return, EfInv, Waiters, EF!Inside
<1>4. CASE EF!Deliver(t) \/ EF!Sleep(t)
  BY <1>1, <1>2, <1>4, EfMoves
     DEF EF!Deliver, EF!Sleep, EF!Interrupt, EF!FallAsleep, EF!flag, EfInv, Waiters, EF!Inside
<1>5. EF!Cleared(want[t]) \subseteq bits
  BY ObjectsAssumption DEF EF!Cleared, EfInv, EF!FlagAssumption
<1> QED BY <1>3, <1>4, <1>5 DEF EF!Resume, EF!Withdraw, EF!Find, EF!GiveUp

\* Set and cancel wake everybody.
LEMMA EfWake ==
  ASSUME EfInv, NEW t \in Threads, NEW pattern \in SUBSET Bits,
         EF!Set(t, pattern) \/ EF!Cancel(t, pattern)
  PROVE  EfInv'
<1>1. W!OnlyWakes(at, at') /\ \A x \in Threads : at'[x] # "sleep"
  BY EfWaits, Constants, W!NotifyAllEffect DEF EF!Set, EF!Cancel, EfInv, W!WaitInv, W!WaitsTypeOK
<1>2. W!WaitInv'
  BY Zenon, <1>1, Constants, W!WakeInv DEF EF!Set, EF!Cancel, EF!signals, W!signals, EfInv
<1>3. UNCHANGED <<waiting, leaving, want, seen>> /\ cancels' \in Nat /\ bits' \subseteq Bits
  BY DEF EF!Set, EF!Cancel, EfInv
<1>4. Waiters' = Waiters
  BY <1>1, <1>3 DEF Waiters, EF!Inside, W!OnlyWakes
<1> QED BY <1>1, <1>2, <1>3, <1>4 DEF EfInv, EF!NoReleasedSleeper, W!OnlyWakes

\* A thread with its answer is no longer counted.
LEMMA EfLeave ==
  ASSUME CountsThreads, EfInv, NEW t \in Threads, EF!Leave(t)
  PROVE  EfInv'
<1>1. W!WaitInv'
  BY Constants, W!IdleInv DEF EF!Leave, EfInv, EF!waits, W!waits, EF!signals, W!signals
<1>2. /\ UNCHANGED <<at, bits, cancels, want, seen>>
      /\ leaving' = leaving \ {t} /\ waiting' = waiting - 1
  BY DEF EF!Leave, EF!waits
<1>3. Waiters \in SUBSET Threads /\ t \in Waiters /\ Waiters' = Waiters \ {t}
  BY <1>2 DEF EF!Leave, EfInv, Waiters, EF!Inside
<1>4. waiting' = Cardinality(Waiters')
  BY <1>2, <1>3, Counting DEF EfInv
<1> QED BY Zenon, <1>1, <1>2, <1>4
        DEF EfInv, EF!NoReleasedSleeper, EF!Empty, EF!Cancelled, EF!Matches

\* Every step of the flag preserves its invariant.
LEMMA EfNext == ASSUME CountsThreads, EfInv, EF!Next PROVE EfInv'
<1>1. ASSUME NEW t \in Threads, NEW r \in Requests, t \notin leaving, EF!WaitEventFlag(t, r)
      PROVE  EfInv'
  BY <1>1, EfBegin DEF EF!WaitEventFlag
<1>2. ASSUME NEW t \in Threads, NEW pattern \in SUBSET Bits, EF!Clear(t, pattern)
      PROVE  EfInv'
  <2>1. W!WaitInv'
    BY <1>2, Constants, W!IdleInv DEF EF!Clear, EfInv, EF!waits, W!waits, EF!signals, W!signals
  <2> QED BY <1>2, <2>1, EfMoves DEF EF!Clear, EF!waits, EfInv, Waiters, EF!Inside
<1>3. ASSUME UNCHANGED flag, W!WaitInv',
             \A x \in Threads : /\ at'[x] = "run" <=> at[x] = "run"
                                /\ at'[x] = "sleep" => at[x] = "sleep"
      PROVE  EfInv'
  BY Zenon, <1>3, EfMoves DEF flag, EfInv, Waiters, EF!Inside
<1>4. ASSUME NEW t \in Threads, EF!Outside(t) \/ EF!Raise(t), UNCHANGED EF!flag
      PROVE  EfInv'
  <2>1. /\ W!WaitInv' /\ UNCHANGED flag
        /\ \A x \in Threads :
             at'[x] = at[x] \/ (at[x] = "sleep" /\ at'[x] \in {"awake", "expired"})
    BY Zenon, <1>4, EfWaits, Constants, W!ElsewhereInv DEF EfInv, EF!flag, flag
  <2> QED BY <1>3, <2>1
<1>5. ASSUME NEW t \in Threads, EF!Handled(t) PROVE EfInv'
  <2>1. W!WaitInv' /\ UNCHANGED flag
    BY Zenon, <1>5, EfWaits, Constants, W!TurnInv DEF EfInv, EF!Handled, EF!flag, flag
  <2> QED BY Zenon, <1>3, <1>5, <2>1
          DEF EF!Handled, EF!HandlerReturn, EfInv, W!WaitInv, W!WaitsTypeOK
<1>6. CASE EF!Nudge /\ UNCHANGED EF!flag
  <2>1. W!WaitInv' /\ W!OnlyWakes(at, at') /\ UNCHANGED flag
    BY <1>6, Constants, W!NudgeInv
       DEF EfInv, EF!flag, flag, EF!Nudge, W!Nudge, EF!NotifyAll, W!NotifyAll
  <2> QED BY <1>3, <2>1 DEF W!OnlyWakes
<1> QED BY <1>1, <1>2, <1>4, <1>5, <1>6, EfResume, EfWake, EfLeave DEF EF!Next, EF!Step

-----------------------------------------------------------------------------
(* AddressWait *)

\* While guests store no value that others wait on: before the store everybody
\* inside waits on the word as it is, and after a store that was announced there
\* is a wake for each of them.
WakesForAll ==
  Stores \cap Expected = {} =>
    /\ cell \in Expected => \A t \in Threads : at[t] # "run" => expected[t] = cell
    /\ announced /\ cell \notin Expected => tokens = queued

AwInv ==
  /\ W!WaitInv
  /\ queued \in Nat
  /\ tokens \in Nat
  /\ gap \subseteq Threads
  /\ expected \in [Threads -> Expected]
  /\ announced \in BOOLEAN
  /\ \A t \in gap : at[t] = "run"
  /\ tokens <= queued
  /\ queued = Cardinality(AW!Inside) + Cardinality(gap)
  /\ AW!NoTokenSleeper
  /\ WakesForAll

\* The waits on an address are those of BlockingCall.
LEMMA AwWaits ==
  ASSUME NEW t \in Threads
  PROVE  /\ \A u \in {"Forever", "Until"} : AW!Enter(t, u) <=> W!Enter(t, u)
         /\ AW!Return(t) <=> W!Return(t)
         /\ AW!FallAsleep(t) <=> W!FallAsleep(t)
         /\ AW!Interrupt(t) <=> W!Interrupt(t)
         /\ AW!HandlerReturn(t) <=> W!HandlerReturn(t)
         /\ AW!Timeout(t) \/ AW!Spurious(t) \/ AW!Raise(t) => W!Elsewhere(t)
         /\ AW!NotifyAll(at) = W!NotifyAll(at)
  BY DEF AW!Enter, W!Enter, AW!Return, W!Return, AW!FallAsleep, W!FallAsleep, AW!Interrupt,
         W!Interrupt, AW!HandlerReturn, W!HandlerReturn, W!Elsewhere, W!Outside, AW!Timeout,
         W!Timeout, AW!Spurious, W!Spurious, AW!Raise, W!Raise, AW!NotifyAll, W!NotifyAll,
         AW!signals, W!signals

\* Both sets of threads can be counted.
LEMMA AwCounted ==
  ASSUME CountsThreads, AwInv
  PROVE  /\ AW!Inside \in SUBSET Threads /\ gap \in SUBSET Threads
         /\ Cardinality(AW!Inside) \in Nat /\ Cardinality(gap) \in Nat
<1>1. AW!Inside \in SUBSET Threads /\ gap \in SUBSET Threads
  BY DEF AwInv, AW!Inside
<1> QED BY <1>1, Counting

\* The queue begins in its invariant.
LEMMA AwInit == ASSUME CountsThreads, AW!Init PROVE AwInv
<1>1. W!WaitInv
  BY Constants, W!WaitInvInit DEF AW!Init, AW!WaitsInit, W!WaitsInit
<1>2. AW!Inside = {} /\ gap = {} /\ Cardinality({}) = 0
  BY CountsNone DEF AW!Init, AW!WaitsInit, AW!Inside
<1>3. (CHOOSE v \in Expected : TRUE) \in Expected
  BY ObjectsAssumption DEF AW!WordAssumption
<1>4. /\ queued = 0 /\ tokens = 0 /\ ~announced /\ announced \in BOOLEAN
      /\ expected \in [Threads -> Expected] /\ at = [t \in Threads |-> "run"]
  BY <1>3 DEF AW!Init, AW!WaitsInit
<1>5. AW!NoTokenSleeper /\ WakesForAll
  BY <1>4 DEF AW!NoTokenSleeper, WakesForAll
<1> QED BY <1>1, <1>2, <1>4, <1>5 DEF AwInv

\* A thread finds the word it expects and waits.
LEMMA AwBegin ==
  ASSUME CountsThreads, AwInv, NEW t \in Threads, NEW u \in {"Forever", "Until"}, NEW v \in Expected,
         AW!Begin(t, u, v)
  PROVE  AwInv'
<1> USE DEF AwInv
<1>1. W!WaitInv'
  BY Zenon, AwWaits, Constants, W!TurnInv DEF AW!Begin, W!Blocking
<1>2. /\ at[t] = "run" /\ at' = [at EXCEPT ![t] = "awake"] /\ at \in [Threads -> W!Places]
      /\ t \notin gap /\ cell = v /\ queued' = queued + 1
      /\ expected' = [expected EXCEPT ![t] = v] /\ UNCHANGED <<cell, tokens, gap, announced>>
  BY DEF AW!Begin, AW!Enter, AW!history, W!WaitInv, W!WaitsTypeOK
<1>3. t \in Threads \ AW!Inside /\ AW!Inside' = AW!Inside \cup {t}
  BY <1>2 DEF AW!Inside
<1>4. Cardinality(AW!Inside') = Cardinality(AW!Inside) + 1
  BY <1>3, AwCounted, Counting
<1>5. queued' = Cardinality(AW!Inside') + Cardinality(gap')
  BY <1>2, <1>4, AwCounted
<1>6. AW!NoTokenSleeper' /\ WakesForAll'
  BY <1>2 DEF AW!NoTokenSleeper, WakesForAll
<1> QED BY <1>1, <1>2, <1>5, <1>6

\* A thread collects a wake.
LEMMA AwCollect ==
  ASSUME CountsThreads, AwInv, NEW t \in Threads, AW!Turn(t), AW!Collect(t)
  PROVE  AwInv'
<1>1. W!WaitInv'
  BY Zenon, AwWaits, Constants, W!TurnInv DEF AW!Collect, AwInv
<1>2. /\ at[t] # "run" /\ at' = [at EXCEPT ![t] = "run"] /\ at \in [Threads -> W!Places]
      /\ tokens > 0 /\ tokens' = tokens - 1 /\ queued' = queued - 1
      /\ UNCHANGED <<cell, gap, expected, announced>>
  BY DEF AW!Turn, AW!Collect, AW!Return, W!WaitInv, W!WaitsTypeOK, AwInv
<1>3. t \in AW!Inside /\ AW!Inside' = AW!Inside \ {t}
  BY <1>2 DEF AW!Inside
<1>4. Cardinality(AW!Inside') = Cardinality(AW!Inside) - 1
  BY <1>3, AwCounted, Counting
<1>5. queued' = Cardinality(AW!Inside') + Cardinality(gap')
  <2>1. queued = Cardinality(AW!Inside) + Cardinality(gap) /\ gap' = gap
    BY <1>2 DEF AwInv
  <2> QED BY <1>2, <1>4, <2>1, AwCounted
<1>6. AW!NoTokenSleeper'
  <2>1. \A x \in Threads : at[x] # "sleep"
    BY <1>2 DEF AwInv, AW!NoTokenSleeper
  <2> QED BY <1>2, <2>1 DEF AW!NoTokenSleeper
<1>7. WakesForAll'
  <2>1. /\ \A x \in Threads : at'[x] # "run" => at[x] # "run"
        /\ tokens = queued => tokens' = queued'
    BY <1>2
  <2> QED BY Zenon, <1>2, <2>1 DEF AwInv, WakesForAll
<1> QED BY <1>1, <1>2, <1>5, <1>6, <1>7 DEF AwInv

\* A thread gives up, and is counted with the threads in the gap.
LEMMA AwGiveUp ==
  ASSUME CountsThreads, AwInv, NEW t \in Threads, AW!Turn(t), AW!GiveUp(t)
  PROVE  AwInv'
<1>1. W!WaitInv'
  BY Zenon, AwWaits, Constants, W!TurnInv DEF AW!GiveUp, AwInv
<1>2. /\ at[t] # "run" /\ at' = [at EXCEPT ![t] = "run"] /\ at \in [Threads -> W!Places]
      /\ gap' = gap \cup {t} /\ UNCHANGED <<cell, queued, tokens, expected, announced>>
  BY DEF AW!Turn, AW!GiveUp, AW!Return, AW!history, W!WaitInv, W!WaitsTypeOK, AwInv
<1>3. t \in AW!Inside /\ AW!Inside' = AW!Inside \ {t} /\ t \in Threads \ gap
  BY <1>2 DEF AW!Inside, AwInv
<1>4. /\ Cardinality(AW!Inside') = Cardinality(AW!Inside) - 1
      /\ Cardinality(gap') = Cardinality(gap) + 1
  BY <1>2, <1>3, AwCounted, Counting
<1>5. queued' = Cardinality(AW!Inside') + Cardinality(gap')
  <2>1. queued = Cardinality(AW!Inside) + Cardinality(gap)
    BY DEF AwInv
  <2> QED BY <1>2, <1>4, <2>1, AwCounted
<1>6. AW!NoTokenSleeper' /\ WakesForAll'
  <2>1. \A x \in Threads : /\ at'[x] # "run" => at[x] # "run"
                           /\ at'[x] = "sleep" => at[x] = "sleep"
    BY <1>2
  <2> QED BY Zenon, <1>2, <2>1 DEF AwInv, AW!NoTokenSleeper, WakesForAll
<1> QED BY <1>1, <1>2, <1>5, <1>6 DEF AwInv

\* A thread in the gap leaves, with the wake that counted it if there was one.
LEMMA AwLeave ==
  ASSUME CountsThreads, AwInv, NEW t \in Threads, AW!Leave(t)
  PROVE  AwInv'
<1> USE DEF AwInv
<1>1. W!WaitInv'
  BY Constants, W!IdleInv DEF AW!Leave, AW!waits, W!waits, AW!signals, W!signals
<1>2. /\ t \in gap /\ gap' = gap \ {t} /\ queued' = queued - 1
      /\ tokens' = IF tokens > queued - 1 THEN tokens - 1 ELSE tokens
      /\ UNCHANGED <<at, cell, expected, announced>>
  BY DEF AW!Leave, AW!waits
<1>3. Cardinality(gap') = Cardinality(gap) - 1 /\ Cardinality(gap) # 0
  BY <1>2, AwCounted, Counting
<1>4. AW!Inside' = AW!Inside
  BY <1>2 DEF AW!Inside
<1>5. queued' = Cardinality(AW!Inside') + Cardinality(gap') /\ queued > 0
  BY <1>2, <1>3, <1>4, AwCounted
<1>6. (tokens = 0 => tokens' = 0) /\ (tokens = queued => tokens' = queued')
  BY <1>2, <1>5
<1>7. AW!NoTokenSleeper' /\ WakesForAll'
  BY Zenon, <1>2, <1>6 DEF AW!NoTokenSleeper, WakesForAll
<1> QED BY <1>1, <1>2, <1>5, <1>7

\* A wake that grants anything wakes every sleeper.
LEMMA AwWake ==
  ASSUME AwInv, NEW t \in Threads, NEW n \in WakeCounts, AW!Wake(t, n)
  PROVE  AwInv'
<1>1. n \in Nat
  BY ObjectsAssumption DEF AW!WordAssumption
<1>2. /\ AW!Granted(n) \in Nat /\ tokens + AW!Granted(n) <= queued
      /\ n >= queued => tokens + AW!Granted(n) = queued
      /\ tokens = queued => AW!Granted(n) = 0
  BY <1>1 DEF AW!Granted, AW!Smaller, AwInv
<1>3. /\ W!OnlyWakes(at, at')
      /\ AW!Granted(n) > 0 => \A x \in Threads : at'[x] # "sleep"
      /\ ~(AW!Granted(n) > 0) => at' = at
  <2>1. at \in [Threads -> W!Places]
    BY DEF W!WaitInv, W!WaitsTypeOK, AwInv
  <2>2. W!OnlyWakes(at, W!NotifyAll(at)) /\ \A x \in Threads : W!NotifyAll(at)[x] # "sleep"
    BY Zenon, <2>1, Constants, W!NotifyAllEffect
  <2>3. W!OnlyWakes(at, at)
    BY <2>1 DEF W!OnlyWakes
  <2>4. at' = IF AW!Granted(n) > 0 THEN W!NotifyAll(at) ELSE at
    BY Zenon, AwWaits DEF AW!Wake
  <2> QED BY Zenon, <2>2, <2>3, <2>4
<1>4. W!WaitInv'
  BY Zenon, <1>3, Constants, W!WakeInv DEF AW!Wake, AW!signals, W!signals, AwInv
<1>5. /\ tokens' = tokens + AW!Granted(n) /\ announced' = (announced \/ n >= queued)
      /\ UNCHANGED <<cell, queued, gap, expected>>
  BY Zenon DEF AW!Wake
<1>6. AW!Inside' = AW!Inside
  BY <1>3 DEF AW!Inside, W!OnlyWakes
<1>7. ~(AW!Granted(n) > 0) => tokens' = tokens /\ at' = at
  <2>1. tokens \in Nat
    BY DEF AwInv
  <2> QED BY <1>2, <1>3, <1>5, <2>1
<1>8. AW!NoTokenSleeper'
  BY Zenon, <1>3, <1>7 DEF AW!NoTokenSleeper, AwInv
<1>9. /\ \A x \in Threads : at'[x] # "run" => at[x] # "run"
      /\ n >= queued \/ tokens = queued => tokens' = queued
  <2>1. tokens \in Nat
    BY DEF AwInv
  <2> QED BY <1>2, <1>3, <1>5, <2>1 DEF W!OnlyWakes
<1>10. WakesForAll'
  BY Zenon, <1>5, <1>9 DEF WakesForAll, AwInv
<1>11. tokens' \in Nat /\ tokens' <= queued' /\ announced' \in BOOLEAN
  BY <1>2, <1>5 DEF AwInv
<1>12. \A x \in gap' : at'[x] = "run"
  BY <1>3, <1>5 DEF W!OnlyWakes, AwInv
<1> QED BY Zenon, <1>4, <1>5, <1>6, <1>8, <1>10, <1>11, <1>12 DEF AwInv

\* A guest stores to the word.
LEMMA AwStore ==
  ASSUME AwInv, NEW t \in Threads, NEW v \in Stores, AW!Store(t, v)
  PROVE  AwInv'
<1>1. W!WaitInv'
  BY Constants, W!IdleInv DEF AW!Store, AW!waits, W!waits, AW!signals, W!signals, AwInv
<1>2. AW!Inside' = AW!Inside
  BY DEF AW!Store, AW!waits, AW!Inside
<1> QED BY <1>1, <1>2 DEF AW!Store, AW!waits, AwInv, AW!NoTokenSleeper, WakesForAll

\* Every step of the queue preserves its invariant.
LEMMA AwNext == ASSUME CountsThreads, AwInv, AW!Next PROVE AwInv'
<1>1. ASSUME UNCHANGED queue, W!WaitInv',
             \A x \in Threads : /\ at'[x] = "run" <=> at[x] = "run"
                                /\ at'[x] = "sleep" => at[x] = "sleep" \/ tokens = 0
      PROVE  AwInv'
  <2>1. AW!Inside' = AW!Inside
    BY <1>1 DEF AW!Inside
  <2> QED BY <1>1, <2>1 DEF AwInv, queue, AW!NoTokenSleeper, WakesForAll
<1>2. ASSUME NEW t \in Threads, AW!Resume(t) PROVE AwInv'
  <2>1. CASE AW!Collect(t) \/ AW!GiveUp(t)
    BY <1>2, <2>1, AwCollect, AwGiveUp DEF AW!Resume
  <2>2. CASE AW!Deliver(t) \/ AW!Sleep(t)
    <3>1. W!WaitInv' /\ UNCHANGED queue
      BY Zenon, <2>2, AwWaits, Constants, W!TurnInv
         DEF AwInv, AW!Deliver, AW!Sleep, AW!Blocked, AW!queue, AW!history, queue
    <3> QED BY Zenon, <1>1, <1>2, <2>2, <3>1
            DEF AW!Resume, AW!Turn, AW!Deliver, AW!Sleep, AW!Interrupt, AW!FallAsleep,
                AW!Blocked, AwInv, W!WaitInv, W!WaitsTypeOK
  <2> QED BY <1>2, <2>1, <2>2 DEF AW!Resume
<1>3. ASSUME NEW t \in Threads, AW!Handled(t) PROVE AwInv'
  <2>1. W!WaitInv' /\ UNCHANGED queue
    BY Zenon, <1>3, AwWaits, Constants, W!TurnInv DEF AwInv, AW!Handled, AW!queue, AW!history, queue
  <2> QED BY Zenon, <1>1, <1>3, <2>1
          DEF AW!Handled, AW!HandlerReturn, AwInv, W!WaitInv, W!WaitsTypeOK
<1>4. ASSUME NEW t \in Threads, AW!Timeout(t) \/ AW!Spurious(t) \/ AW!Raise(t),
             UNCHANGED AW!queue
      PROVE  AwInv'
  <2>1. /\ W!WaitInv' /\ UNCHANGED queue
        /\ \A x \in Threads :
             at'[x] = at[x] \/ (at[x] = "sleep" /\ at'[x] \in {"awake", "expired"})
    BY Zenon, <1>4, AwWaits, Constants, W!ElsewhereInv DEF AwInv, AW!queue, AW!history, queue
  <2> QED BY Zenon, <1>1, <2>1
<1>5. CASE AW!Nudge /\ UNCHANGED AW!queue
  <2>1. W!WaitInv' /\ W!OnlyWakes(at, at') /\ UNCHANGED queue
    BY <1>5, Constants, W!NudgeInv
       DEF AwInv, AW!queue, AW!history, queue, AW!Nudge, W!Nudge, AW!NotifyAll, W!NotifyAll
  <2> QED BY <1>1, <2>1 DEF W!OnlyWakes
<1>6. ASSUME NEW t \in Threads, AW!Step(t) PROVE AwInv'
  BY <1>2, <1>3, <1>4, <1>6, AwBegin, AwLeave, AwWake, AwStore
     DEF AW!Step, AW!SyncOnAddressWait, AW!SyncOnAddressWake, AW!UmtxOp
<1> QED BY <1>5, <1>6 DEF AW!Next

-----------------------------------------------------------------------------
(* The objects together *)

ObjectsInv ==
  /\ object = "rwlock" => RwInv
  /\ object = "barrier" => BaInv
  /\ object = "flag" => EfInv
  /\ object = "queue" => AwInv

objects == <<object, waits, rwlock, barrier, flag, queue, vars>>

\* Whichever object was chosen begins in its invariant.
LEMMA ObjectsInvInit ==
  ASSUME CountsThreads, ObjectsInit
  PROVE  ObjectsInv /\ (object = "barrier" => BaRounds)
  BY RwInit, BaInit, EfInit, AwInit DEF ObjectsInit, ObjectsInv

\* An object whose variables stay as they are keeps its invariant.
LEMMA ObjectsStutter ==
  ASSUME ObjectsInv, UNCHANGED objects
  PROVE  ObjectsInv' /\ ((object = "barrier" => BaRounds) => (object = "barrier" => BaRounds)')
<1>1. W!WaitInv => W!WaitInv'
  BY Constants, W!IdleInv DEF objects, waits, W!waits, W!signals
<1>2. object = "rwlock" => RwInv'
  BY Zenon, <1>1, RwMoves DEF ObjectsInv, RwInv, objects, waits, rwlock, NoSignals
<1>3. object = "barrier" => BaInv'
  BY Zenon, <1>1 DEF ObjectsInv, BaInv, objects, waits, barrier, NoSignals, Arrivals, InStep
<1>4. object = "flag" => EfInv'
  BY <1>1, EfMoves DEF ObjectsInv, EfInv, objects, waits, flag, Waiters, EF!Inside
<1>5. object = "queue" => AwInv'
  BY <1>1 DEF ObjectsInv, AwInv, objects, waits, queue, AW!Inside, AW!NoTokenSleeper, WakesForAll
<1>6. BaRounds => BaRounds'
  BY Zenon DEF BaRounds, BA!NoReleasedSleeper, objects, waits, barrier
<1> QED BY <1>2, <1>3, <1>4, <1>5, <1>6 DEF ObjectsInv, objects

\* Every step of the objects preserves the invariant; while the rounds stay
\* apart, the barrier's too.
LEMMA ObjectsInvNext ==
  ASSUME CountsThreads, ObjectsInv, [ObjectsNext]_objects
  PROVE  /\ ObjectsInv'
         /\ (object = "barrier" => BaRounds) /\ RoundsApart' => (object = "barrier" => BaRounds)'
<1>1. CASE ObjectsNext
  BY <1>1, RwNext, BaNext, EfNext, AwNext DEF ObjectsNext, ObjectsInv
<1> QED BY <1>1, ObjectsStutter
=============================================================================
