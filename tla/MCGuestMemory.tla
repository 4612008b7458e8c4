--------------------------- MODULE MCGuestMemory ---------------------------
(* GuestMemory for TLC.  Threads are interchangeable. *)
EXTENDS GuestMemory

ThreadSymmetry == Permutations(Threads)
=============================================================================
