----------------------------- MODULE Leadership -----------------------------
(***************************************************************************)
(* What leader.Elector promises: onWork runs on one instance at a time,    *)
(* and another instance begins only after the previous leader's onWork has *)
(* ended or its process has.                                               *)
(***************************************************************************)
CONSTANT Instances

VARIABLE leaders    \* the instances running onWork

Init == leaders = {}

Elect(i) ==
  /\ leaders = {}
  /\ leaders' = {i}

Retire(i) ==
  /\ i \in leaders
  /\ leaders' = leaders \ {i}

Next == \E i \in Instances : Elect(i) \/ Retire(i)

Spec == Init /\ [][Next]_leaders
=============================================================================
