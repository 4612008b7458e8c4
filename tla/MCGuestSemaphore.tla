--------------------------- MODULE MCGuestSemaphore ---------------------------
(* GuestSemaphore for TLC.  Threads are interchangeable in the safety runs. *)
EXTENDS GuestSemaphore, TLC

ThreadSymmetry == Permutations(Threads)
=============================================================================
