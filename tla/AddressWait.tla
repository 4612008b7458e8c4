----------------------------- MODULE AddressWait -----------------------------
(***************************************************************************)
(* The wait queue of one guest address: wait_on_address and                *)
(* wake_on_address of orbistoun-kernel/src/sync.rs, the futex behind       *)
(* sceKernelSyncOnAddressWait and _umtx_op.  Entries of the table are      *)
(* never removed, so live rests at TRUE.                                   *)
(*                                                                         *)
(* word is the guest word, which guest code stores to without any lock;    *)
(* waiting and tokens are the fields of AddressQueue.  A thread in gap     *)
(* gave up and dropped the queue's lock, and is still counted.  Two        *)
(* histories: offered are the threads that were in the queue at some wake  *)
(* since they entered, and announced says that everybody was woken since   *)
(* the word changed last.                                                  *)
(***************************************************************************)
EXTENDS BlockingCall, FiniteSets

CONSTANTS
  Values,       \* what the word may hold; it starts as any of Expected
  Expected,     \* the values guests wait on
  Stores,       \* the values guests store
  WakeCounts    \* how many threads a wake asks for

WordAssumption ==
  /\ IsFiniteSet(Threads)
  /\ Expected # {} /\ Expected \subseteq Values /\ Stores \subseteq Values
  /\ WakeCounts \subseteq Nat

VARIABLES word, waiting, tokens, gap, expected, offered, announced

history == <<offered, announced>>
queue == <<word, waiting, tokens, gap, expected, history>>
vars == <<queue, waits>>

\* Threads inside wait_on_address with the queue's lock or asleep on it.
Inside == {t \in Threads : at[t] # "run"}

TypeOK ==
  /\ WaitsTypeOK
  /\ word \in Values
  /\ waiting \in Nat
  /\ tokens \in Nat
  /\ gap \subseteq Threads
  /\ expected \in [Threads -> Expected]
  /\ offered \subseteq Threads
  /\ announced \in BOOLEAN

Init ==
  /\ WaitsInit
  /\ word \in Expected
  /\ waiting = 0
  /\ tokens = 0
  /\ gap = {}
  /\ expected = [t \in Threads |-> CHOOSE v \in Expected : TRUE]
  /\ offered = {}
  /\ announced = FALSE

-----------------------------------------------------------------------------
(* wait_on_address *)

\* Mutant: the word is compared before the lock is taken, and may have changed.
BeginStale(t, u, v) ==
  /\ t \notin gap
  /\ Enter(t, u)
  /\ waiting' = waiting + 1
  /\ expected' = [expected EXCEPT ![t] = v]
  /\ UNCHANGED <<word, tokens, gap, history>>

\* Compared under the queue's lock; a word that differs already is answered at
\* once.
Begin(t, u, v) ==
  /\ t \notin gap
  /\ word = v
  /\ Enter(t, u)
  /\ waiting' = waiting + 1
  /\ expected' = [expected EXCEPT ![t] = v]
  /\ UNCHANGED <<word, tokens, gap, history>>

Blocked(t) == tokens = 0 /\ ~pending[t]

Collect(t) ==
  /\ ~pending[t] /\ tokens > 0
  /\ tokens' = tokens - 1
  /\ waiting' = waiting - 1
  /\ offered' = offered \ {t}
  /\ Return(t)
  /\ UNCHANGED <<word, gap, expected, announced>>

\* The signal first, even when a wake arrived with it.
Deliver(t) == Interrupt(t) /\ UNCHANGED queue

\* Mutant: the signal slot is not looked at before sleeping.
SleepDeaf(t) == tokens = 0 /\ FallAsleep(t) /\ UNCHANGED queue

Sleep(t) == Blocked(t) /\ FallAsleep(t) /\ UNCHANGED queue

\* wait_while gives up and drops the lock.
GiveUp(t) ==
  /\ Blocked(t) /\ OutOfPatience(t)
  /\ gap' = gap \cup {t}
  /\ Return(t)
  /\ UNCHANGED <<word, waiting, tokens, expected, history>>

Resume(t) == Turn(t) /\ (Collect(t) \/ Deliver(t) \/ Sleep(t) \/ GiveUp(t))

Handled(t) == HandlerReturn(t) /\ UNCHANGED queue

\* Mutant: a wake that landed in the gap is left behind.
LeaveBehind(t) ==
  /\ t \in gap
  /\ gap' = gap \ {t}
  /\ waiting' = waiting - 1
  /\ offered' = offered \ {t}
  /\ UNCHANGED <<word, tokens, expected, announced, waits>>

\* The lock again: a wake that landed in the gap counted this thread.
Leave(t) ==
  /\ t \in gap
  /\ gap' = gap \ {t}
  /\ waiting' = waiting - 1
  /\ tokens' = IF tokens > waiting - 1 THEN tokens - 1 ELSE tokens
  /\ offered' = offered \ {t}
  /\ UNCHANGED <<word, expected, announced, waits>>

-----------------------------------------------------------------------------
(* wake_on_address, and the guest's stores *)

Smaller(a, b) == IF a < b THEN a ELSE b

Granted(n) == Smaller(n, IF waiting > tokens THEN waiting - tokens ELSE 0)

\* Mutant: one sleeper is notified, whatever was granted.
WakeNotifyingOne(t, n) ==
  /\ Calls(t) /\ t \notin gap
  /\ tokens' = tokens + Granted(n)
  /\ IF Granted(n) > 0 THEN at' \in NotifyOne(at) ELSE UNCHANGED at
  /\ offered' = IF Granted(n) > 0 THEN Inside \cup gap ELSE offered
  /\ announced' = (announced \/ n >= waiting)
  /\ UNCHANGED <<word, waiting, gap, expected, live, until, signals>>

Wake(t, n) ==
  /\ Calls(t) /\ t \notin gap
  /\ tokens' = tokens + Granted(n)
  /\ at' = IF Granted(n) > 0 THEN NotifyAll(at) ELSE at
  /\ offered' = IF Granted(n) > 0 THEN Inside \cup gap ELSE offered
  /\ announced' = (announced \/ n >= waiting)
  /\ UNCHANGED <<word, waiting, gap, expected, live, until, signals>>

Store(t, v) ==
  /\ Calls(t) /\ t \notin gap /\ v # word
  /\ word' = v
  /\ announced' = FALSE
  /\ UNCHANGED <<waiting, tokens, gap, expected, offered, waits>>

-----------------------------------------------------------------------------
(* The guest's calls.  None of them passes a deadline today: a timed umtx wait *)
(* is refused.  wait_on_address takes one, and so does the model.              *)

SyncOnAddressWait(t, v) == Begin(t, "Forever", v)
SyncOnAddressWake(t, n) == Wake(t, n)
UmtxOp(t) ==
  (\E v \in Expected : Begin(t, "Forever", v)) \/ (\E n \in WakeCounts : Wake(t, n))

Step(t) ==
  \/ \E v \in Expected : SyncOnAddressWait(t, v) \/ Begin(t, "Until", v)
  \/ Resume(t) \/ Handled(t) \/ Leave(t)
  \/ \E n \in WakeCounts : SyncOnAddressWake(t, n)
  \/ UmtxOp(t)
  \/ \E v \in Stores : Store(t, v)
  \/ (Timeout(t) \/ Spurious(t) \/ Raise(t)) /\ UNCHANGED queue

Next == (\E t \in Threads : Step(t)) \/ (Nudge /\ UNCHANGED queue)

Spec == Init /\ [][Next]_vars

\* As for the mutex: threads out of the queue go on, handlers return, raises
\* finish their nudge; a thread that gave up takes the lock again.
Fairness ==
  /\ \A t \in Threads : WF_vars(Resume(t)) /\ WF_vars(Handled(t)) /\ WF_vars(Leave(t))
  /\ WF_vars(Nudge /\ UNCHANGED queue)

FairSpec == Spec /\ Fairness

-----------------------------------------------------------------------------
(* Properties *)

\* Never more wakes than threads to collect them, and the threads counted are
\* those inside the call, the ones between giving up and leaving included: a
\* stray token would wake an unrelated sleeper (sync.rs, AddressQueue).
NoStrayToken ==
  /\ tokens <= waiting
  /\ waiting = Cardinality(Inside) + Cardinality(gap)

\* Nobody sleeps beside a wake that is there to be collected (sync.rs,
\* wake_on_address).
NoTokenSleeper == \A t \in Threads : at[t] = "sleep" => tokens = 0

\* The word is compared under the lock a wake takes: once a store has been
\* followed by a wake for everybody, nobody sleeps on the old value (sync.rs,
\* wait_on_address).  It holds while guests never store a value others wait on;
\* otherwise a late waiter may collect an early one's token.
AnnouncedWakesAll ==
  announced => \A t \in Threads : at[t] = "sleep" => expected[t] = word

\* And such a wait ends.
AnnouncedLeave ==
  \A t \in Threads :
    (announced /\ t \in Inside /\ expected[t] # word) ~> (t \notin Inside \/ ~announced)

\* What the comment on AddressWait::Woken says: a wake on this address arrived
\* while the thread was in the queue.
WokenWhileAsleep ==
  [][\A t \in Threads : (Turn(t) /\ at'[t] = "run" /\ tokens' < tokens) => t \in offered]_vars
=============================================================================
