------------------------------- MODULE LockSpec -------------------------------
(***************************************************************************)
(* What a guest lock promises, with no queue, patience or signal in it:    *)
(* holds[t] is how many acquisitions thread t has been granted and not yet *)
(* released, and a thread is granted one only while no other holds any.    *)
(***************************************************************************)
EXTENDS Naturals

CONSTANT Threads

VARIABLE holds

Init == holds = [t \in Threads |-> 0]

Grant(t) ==
  /\ \A u \in Threads \ {t} : holds[u] = 0
  /\ holds' = [holds EXCEPT ![t] = @ + 1]

Release(t) ==
  /\ holds[t] > 0
  /\ holds' = [holds EXCEPT ![t] = @ - 1]

Next == \E t \in Threads : Grant(t) \/ Release(t)

Spec == Init /\ [][Next]_holds
=============================================================================
