----------------------------- MODULE GuestObjects -----------------------------
(***************************************************************************)
(* The guest objects that share no state with one another: one of a        *)
(* read-write lock, a barrier, an event flag, an address queue and the     *)
(* word of a lock is chosen at the start and runs; the others stand still. *)
(* All but the last wait through the same host calls, so live .. nudges    *)
(* are the waits of whichever object runs.                                 *)
(***************************************************************************)
EXTENDS LockWord

CONSTANTS
  Off,                                          \* an object that does not run
  MaxRaises,                                    \* BlockingCall
  Disciplined,                                  \* GuestRwlock
  Counts, CountLimit, RoundModulus, MaxLaps,    \* GuestBarrier
  Bits, Requests, MaxCancels,                   \* GuestEventFlag
  Values, Expected, Stores, WakeCounts          \* AddressWait

VARIABLES
  object,                                                   \* which one runs
  live, at, until, pending, raises, nudges,                 \* BlockingCall
  readers, writer, wants, holds,                            \* GuestRwlock
  needed, arrived, round, mine, done, entered, laps,        \* GuestBarrier
  bits, waiting, cancels, leaving, want, seen,              \* GuestEventFlag
  cell, queued, tokens, gap, expected, offered, announced   \* AddressWait

rwlock == <<readers, writer, wants, holds>>
barrier == <<needed, arrived, round, mine, done, entered, laps>>
flag == <<bits, waiting, cancels, leaving, want, seen>>
queue == <<cell, queued, tokens, gap, expected, offered, announced>>
waits == <<live, at, until, pending, raises, nudges>>

RW == INSTANCE GuestRwlock
BA == INSTANCE GuestBarrier
EF == INSTANCE GuestEventFlag
AW == INSTANCE AddressWait WITH word <- cell, waiting <- queued

ASSUME ObjectsAssumption ==
  /\ MaxRaises \in Nat
  /\ RW!GuestsAssumption /\ BA!BarrierAssumption
  /\ EF!FlagAssumption /\ AW!WordAssumption

-----------------------------------------------------------------------------

RwlockOff == readers = Off /\ writer = Off /\ wants = Off /\ holds = Off

BarrierOff ==
  /\ needed = Off /\ arrived = Off /\ round = Off /\ mine = Off
  /\ done = Off /\ entered = Off /\ laps = Off

FlagOff ==
  /\ bits = Off /\ waiting = Off /\ cancels = Off
  /\ leaving = Off /\ want = Off /\ seen = Off

QueueOff ==
  /\ cell = Off /\ queued = Off /\ tokens = Off /\ gap = Off
  /\ expected = Off /\ offered = Off /\ announced = Off

WaitsOff ==
  /\ live = Off /\ at = Off /\ until = Off
  /\ pending = Off /\ raises = Off /\ nudges = Off

WordOff == Init /\ word = CHOOSE s \in Statics : TRUE

ObjectsInit ==
  \/ /\ object = "rwlock" /\ RW!Init
     /\ BarrierOff /\ FlagOff /\ QueueOff /\ WordOff
  \/ /\ object = "barrier" /\ BA!Init
     /\ RwlockOff /\ FlagOff /\ QueueOff /\ WordOff
  \/ /\ object = "flag" /\ EF!Init
     /\ RwlockOff /\ BarrierOff /\ QueueOff /\ WordOff
  \/ /\ object = "queue" /\ AW!Init
     /\ RwlockOff /\ BarrierOff /\ FlagOff /\ WordOff
  \/ /\ object = "word" /\ Init
     /\ RwlockOff /\ BarrierOff /\ FlagOff /\ QueueOff /\ WaitsOff

ObjectsNext ==
  /\ UNCHANGED object
  /\ \/ /\ object = "rwlock" /\ RW!Next
        /\ UNCHANGED <<barrier, flag, queue, vars>>
     \/ /\ object = "barrier" /\ BA!Next
        /\ UNCHANGED <<rwlock, flag, queue, vars>>
     \/ /\ object = "flag" /\ EF!Next
        /\ UNCHANGED <<rwlock, barrier, queue, vars>>
     \/ /\ object = "queue" /\ AW!Next
        /\ UNCHANGED <<rwlock, barrier, flag, vars>>
     \/ /\ object = "word" /\ Next
        /\ UNCHANGED <<rwlock, barrier, flag, queue, waits>>

ObjectsSpec ==
  ObjectsInit
    /\ [][ObjectsNext]_<<object, waits, rwlock, barrier, flag, queue, vars>>

-----------------------------------------------------------------------------
(* Properties *)

\* Nobody sleeps in vain: not on a read-write lock it could have, in a round of
\* a barrier that is over, on a flag whose bits are there or that cancelled it,
\* or beside a wake nobody collected (sync.rs: rwlock_unlock, barrier_wait,
\* event_flag_set and event_flag_cancel, wake_on_address).
NobodySleepsInVain ==
  /\ object = "rwlock" => RW!NoGrantableSleeper
  /\ object = "barrier" => BA!NoReleasedSleeper
  /\ object = "flag" => EF!NoReleasedSleeper
  /\ object = "queue" => AW!NoTokenSleeper

\* What an object counts is what its threads did: the holds of a read-write
\* lock, whose writer is alone, the arrivals of the round, the threads in a
\* wait on the flag, and no more wakes than threads to collect them (sync.rs:
\* rwlock_read and rwlock_write, barrier_wait, event_flag_wait,
\* wait_on_address).
CountsAreExact ==
  /\ object = "rwlock" => RW!HoldsAreKept /\ RW!WriterAlone
  /\ object = "barrier" => BA!ArrivedIsExact
  /\ object = "flag" => EF!WaitingIsExact
  /\ object = "queue" => AW!NoStrayToken

\* No thread sleeps on a flag or an address with a signal pending once the
\* nudges are done (sync.rs, nudge_waiters).
SleepersHearSignals ==
  /\ object = "flag" => EF!SignalNotMissed
  /\ object = "queue" => AW!SignalNotMissed

\* What a barrier is for: when it is made for all the threads, none is ever two
\* rounds ahead of another (sync.rs, barrier_wait).
LockStep == object = "barrier" => BA!LockStep

\* A store followed by a wake of everybody reaches everybody who slept on the
\* old value (sync.rs, wait_on_address and wake_on_address).
AnnouncedWakesAll == object = "queue" => AW!AnnouncedWakesAll
=============================================================================
