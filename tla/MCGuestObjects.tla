---------------------------- MODULE MCGuestObjects ----------------------------
(***************************************************************************)
(* GuestObjects for TLC.  Threads are interchangeable.  The address queue  *)
(* is a completion word: guests wait on 0, and the word moves to 1.        *)
(***************************************************************************)
EXTENDS GuestObjects, TLC

CONSTANTS a, b          \* the bits of the event flag

TwoBits == {a, b}

\* Both bits, clearing them, or one of them, clearing everything.
BothOrEither ==
  {[pattern |-> {a, b}, all |-> TRUE, clear |-> "pattern"],
   [pattern |-> {a}, all |-> FALSE, clear |-> "all"]}

ObjectSymmetry == Permutations(Threads)
=============================================================================
