----------------------------- MODULE MCGuestMutex -----------------------------
(* Three threads on one mutex. *)
EXTENDS GuestMutex, TLC

ThreadSymmetry == Permutations(Threads)
=============================================================================
