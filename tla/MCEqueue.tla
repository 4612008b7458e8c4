------------------------------- MODULE MCEqueue -------------------------------
(* Equeue for TLC: the changes a title makes to a user event, one by one. *)
EXTENDS Equeue

CONSTANT i1

Symmetry == Permutations(Threads)

Change(add, delete, able, force, trigger, flags) ==
  [ident |-> i1, add |-> add, delete |-> delete, able |-> able, force |-> force,
   trigger |-> trigger, flags |-> flags]

\* Added as level or as clear and dispatch, disabled and reset, enabled and
\* forced (which makes it one-shot), deleted: every branch of the scan.
UserChanges ==
  {Change(TRUE, FALSE, "keep", FALSE, TRUE, f) : f \in {{}, {"clear", "dispatch"}}}
  \cup {Change(FALSE, FALSE, "disable", FALSE, FALSE, {"clear"}),
        Change(FALSE, FALSE, "enable", TRUE, FALSE, {}),
        Change(FALSE, TRUE, "keep", FALSE, FALSE, {})}
=============================================================================
