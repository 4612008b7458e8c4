----------------------------- MODULE HostCondvar -----------------------------
(***************************************************************************)
(* std::sync::Mutex + Condvar, as the primitives of orbistoun-kernel use   *)
(* them.  Every critical section of a host mutex in the modelled code is   *)
(* short and never blocks, so it is one atomic step of the models.  A      *)
(* thread inside a blocking call is                                        *)
(*   "sleep"    on the condition variable, in the host's wait queue;       *)
(*   "awake"    out of the queue, about to retake the host mutex;          *)
(*   "expired"  out of the queue because wait_timeout reported a timeout.  *)
(* A wake may be spurious: std documents that, so each model has a         *)
(* Spurious step, to which no fairness is given.                           *)
(***************************************************************************)

\* How patient an acquisition is.
Blocking == {"Never", "Forever", "Until"}

Sleepers(at) == {t \in DOMAIN at : at[t] = "sleep"}

\* Condvar::notify_all: the whole wait queue leaves it.
NotifyAll(at) == [t \in DOMAIN at |-> IF at[t] = "sleep" THEN "awake" ELSE at[t]]

\* Condvar::notify_one: some sleeper, the host chooses, leaves the queue; the
\* possible outcomes.
NotifyOne(at) ==
  IF Sleepers(at) = {} THEN {at}
  ELSE {[at EXCEPT ![t] = "awake"] : t \in Sleepers(at)}
=============================================================================
