----------------------------- MODULE DeviceThread -----------------------------
(***************************************************************************)
(* The one host thread the graphics device is driven from, and the gate a  *)
(* caller that outpaces it waits at (orbistoun-worker/src/device_thread.rs).*)
(*                                                                         *)
(* queue is the channel, running the job the device thread is in, held     *)
(* what Gate counts.  Some callers hold a lock as they hand work over, and *)
(* the work they hand over needs it to run: command is who holds it.       *)
(* Work the device thread hands itself runs in place and is no step here.  *)
(***************************************************************************)
EXTENDS Integers, Sequences, FiniteSets, SequencesExt, FiniteSetsExt

CONSTANTS
  Callers, Nobody,
  Holders,      \* the callers that hold the command lock as they hand work over
  Sizes,        \* the bytes a hand-off may own
  MostJobs,     \* limits.0 of the gate
  MostBytes,    \* limits.1
  MaxCalls      \* bound: calls each caller makes

ASSUME GateAssumption ==
  /\ Nobody \notin Callers /\ Holders \subseteq Callers
  /\ Sizes \subseteq Nat
  /\ MostJobs \in Nat \ {0} /\ MostBytes \in Nat /\ MaxCalls \in Nat

VARIABLES
  reachable,  \* whether the device thread could be started
  queue, running, held, command, caller, calls

vars == <<reachable, queue, running, held, command, caller, calls>>

\* A job: who handed it over, the room it took (none for a call that is waited
\* for), whether it was admitted over the limits.
NoJob == [from |-> Nobody, room |-> FALSE, bytes |-> 0, over |-> FALSE]

Jobs == [from : Callers, room : BOOLEAN, bytes : Sizes \cup {0}, over : BOOLEAN]

\* A caller: "run" outside; "sleep" and "awake" in admit; "hand" with its room, about
\* to send; "await" an answer.
TypeOK ==
  /\ reachable \in BOOLEAN
  /\ \A i \in DOMAIN queue : queue[i] \in Jobs
  /\ running \in Jobs \cup {NoJob}
  /\ held \in [jobs : Nat, bytes : Nat]
  /\ command \in Callers \cup {Nobody}
  /\ caller \in [Callers -> [at : {"run", "sleep", "awake", "hand", "await"},
                             job : Jobs \cup {NoJob}]]
  /\ calls \in [Callers -> 0..MaxCalls]

Init ==
  /\ reachable \in BOOLEAN
  /\ queue = <<>> /\ running = NoJob
  /\ held = [jobs |-> 0, bytes |-> 0]
  /\ command = Nobody
  /\ caller = [c \in Callers |-> [at |-> "run", job |-> NoJob]]
  /\ calls = [c \in Callers |-> 0]

-----------------------------------------------------------------------------
(* The gate *)

\* Mutant: one job too many.
FitsOneMore(bytes) ==
  held.jobs = 0 \/ (held.jobs <= MostJobs /\ held.bytes + bytes <= MostBytes)

Fits(bytes) ==
  held.jobs = 0 \/ (held.jobs < MostJobs /\ held.bytes + bytes <= MostBytes)

\* admit: the room is taken.
Admit(c, job) ==
  /\ held' = [jobs |-> held.jobs + 1, bytes |-> held.bytes + job.bytes]
  /\ caller' = [caller EXCEPT ![c] = [at |-> "hand", job |-> job]]

\* Room's drop: given back, and everyone waiting is told.  others is the callers
\* as the step leaves them otherwise.
DropRoom(job, others) ==
  /\ held' = [jobs |-> held.jobs - 1, bytes |-> held.bytes - job.bytes]
  /\ caller' = [c \in Callers |->
       IF others[c].at = "sleep" THEN [others[c] EXCEPT !.at = "awake"] ELSE others[c]]

-----------------------------------------------------------------------------
(* The callers *)

Begin(c) ==
  /\ caller[c].at = "run" /\ calls[c] < MaxCalls
  /\ calls' = [calls EXCEPT ![c] = @ + 1]

\* on_device_later, by a holder with the command lock held.
OnDeviceLater(c, bytes) ==
  /\ Begin(c)
  /\ IF c \in Holders THEN command = Nobody /\ command' = c ELSE UNCHANGED command
  /\ LET job == [from |-> c, room |-> TRUE, bytes |-> bytes, over |-> FALSE]
     IN IF Fits(bytes)
        THEN Admit(c, job)
        ELSE caller' = [caller EXCEPT ![c] = [at |-> "sleep", job |-> job]] /\ UNCHANGED held
  /\ UNCHANGED <<reachable, queue, running>>

\* Told that room was given back, a waiting caller looks again...
LookAgain(c) ==
  /\ caller[c].at = "awake"
  /\ IF Fits(caller[c].job.bytes)
     THEN Admit(c, caller[c].job)
     ELSE caller' = [caller EXCEPT ![c].at = "sleep"] /\ UNCHANGED held
  /\ UNCHANGED <<reachable, queue, running, command, calls>>

\* ... and past ADMIT_WAIT is admitted whatever it finds.
\* Mutant: it waits on.
NeverExpires(c) ==
  /\ caller[c].at = "sleep"
  /\ IF Fits(caller[c].job.bytes) THEN Admit(c, caller[c].job) ELSE UNCHANGED <<held, caller>>
  /\ UNCHANGED <<reachable, queue, running, command, calls>>

Expire(c) ==
  /\ caller[c].at = "sleep"
  /\ Admit(c, [caller[c].job EXCEPT !.over = ~Fits(caller[c].job.bytes)])
  /\ UNCHANGED <<reachable, queue, running, command, calls>>

\* The job is sent, or dropped unrun where there is no thread, and the call returns;
\* the caller's lock goes with its own return.
Hand(c) ==
  /\ caller[c].at = "hand"
  /\ LET returned == [caller EXCEPT ![c] = [at |-> "run", job |-> NoJob]]
     IN IF reachable
        THEN /\ queue' = Append(queue, caller[c].job)
             /\ caller' = returned
             /\ UNCHANGED held
        ELSE DropRoom(caller[c].job, returned) /\ UNCHANGED queue
  /\ command' = IF command = c THEN Nobody ELSE command
  /\ UNCHANGED <<reachable, running, calls>>

\* on_device: sent, and waited for; answered at once where there is no thread.
\* Mutant: sent ahead of what was handed over.
OnDeviceAhead(c) ==
  /\ Begin(c)
  /\ reachable
  /\ queue' = <<[NoJob EXCEPT !.from = c]>> \o queue
  /\ caller' = [caller EXCEPT ![c].at = "await"]
  /\ UNCHANGED <<reachable, running, held, command>>

OnDevice(c) ==
  /\ Begin(c)
  /\ IF reachable
     THEN /\ queue' = Append(queue, [NoJob EXCEPT !.from = c])
          /\ caller' = [caller EXCEPT ![c].at = "await"]
     ELSE UNCHANGED <<queue, caller>>
  /\ UNCHANGED <<reachable, running, held, command>>

-----------------------------------------------------------------------------
(* The device thread *)

Take ==
  /\ running = NoJob /\ queue # <<>>
  /\ running' = Head(queue) /\ queue' = Tail(queue)
  /\ UNCHANGED <<reachable, held, command, caller, calls>>

\* The job ends, returning or panicking: its room is dropped with it, or its caller
\* answered.
Finish ==
  /\ running # NoJob
  /\ running.room /\ running.from \in Holders => command = Nobody
  /\ IF running.room
     THEN DropRoom(running, caller)
     ELSE caller' = [caller EXCEPT ![running.from].at = "run"] /\ UNCHANGED held
  /\ running' = NoJob
  /\ UNCHANGED <<reachable, queue, command, calls>>

-----------------------------------------------------------------------------

Waiting(c) == LookAgain(c) \/ Expire(c) \/ Hand(c)

\* Nothing is asked of the device any more.
Quiet ==
  /\ \A c \in Callers : caller[c].at = "run" /\ calls[c] = MaxCalls
  /\ queue = <<>> /\ running = NoJob
  /\ UNCHANGED vars

Next ==
  \/ \E c \in Callers :
       \/ \E bytes \in Sizes : OnDeviceLater(c, bytes)
       \/ OnDevice(c)
       \/ Waiting(c)
  \/ Take \/ Finish
  \/ Quiet

Spec == Init /\ [][Next]_vars

\* The device thread runs while it has work and its job is not kept from the lock;
\* a caller in admit or sending is scheduled, and its wait is timed.
FairSpec ==
  /\ Spec
  /\ WF_vars(Take) /\ WF_vars(Finish)
  /\ \A c \in Callers : WF_vars(Waiting(c))

-----------------------------------------------------------------------------
(* Properties *)

\* The jobs that took room and have not given it back.
InFlight ==
  SelectSeq(queue, LAMBDA job : job.room)
    \o (IF running.room THEN <<running>> ELSE <<>>)
    \o FoldSet(LAMBDA c, s : IF caller[c].at = "hand" THEN Append(s, caller[c].job) ELSE s,
               <<>>, Callers)

\* Short of a hand-off admitted because its wait ran out, the work handed over and not
\* yet dropped - in its caller's hands, sent or running - is within the limits, or one
\* job alone, whatever the counts say (device_thread.rs, Gate::admit and Room's drop).
WithinLimits ==
  (\A i \in DOMAIN InFlight : ~InFlight[i].over) =>
    /\ Len(InFlight) <= MostJobs
    /\ FoldSeq(LAMBDA job, n : n + job.bytes, 0, InFlight) <= MostBytes \/ Len(InFlight) = 1

\* An on_device call is answered only once all its caller handed over before has run
\* (device_thread.rs, on_device_later: "which the thread answers only once `work` has
\* run").
AnsweredAfterHandOffs ==
  [][\A c \in Callers :
       caller[c].at = "await" /\ caller'[c].at = "run" =>
         \A i \in DOMAIN queue : queue[i].from # c]_vars

\* Nobody waits for the device for ever, though a caller may hold the very lock the
\* work ahead of it needs (device_thread.rs, Gate::admit: "a wait without end
\* deadlocks the command processor").
EveryWaitEnds == \A c \in Callers : (caller[c].at # "run") ~> (caller[c].at = "run")
=============================================================================
