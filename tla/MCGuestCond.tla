----------------------------- MODULE MCGuestCond -----------------------------
(***************************************************************************)
(* GuestCond and CondMonitor for TLC: the condition variable is used bare, *)
(* by threads that wait, signal and broadcast as they please and are       *)
(* signalled, or by the takers and makers of a monitor.                    *)
(***************************************************************************)
EXTENDS CondMonitor

VARIABLE use

CondInit == MonitorInit /\ use \in {"bare", "monitor"}

CondNext ==
  /\ UNCHANGED use
  /\ \/ use = "bare" /\ Next /\ UNCHANGED monitor
     \/ use = "monitor" /\ MonitorNext

CondSpec == CondInit /\ [][CondNext]_<<use, allvars>> /\ Fairness
=============================================================================
