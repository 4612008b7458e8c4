---------------------------- MODULE MCWriteWatch ----------------------------
(* WriteWatch for TLC: three pages, two to a chunk. *)
EXTENDS WriteWatch, TLC

ThreePages == 0..2
AllSpans == {{0, 1}, {1, 2}}
Mapped == {{1, 2}}
ThreadSymmetry == Permutations(Threads)
=============================================================================
