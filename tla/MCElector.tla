----------------------------- MODULE MCElector -----------------------------
(* A small instance of Elector: the instance that led, the one that leads  *)
(* and one that wants to.                                                  *)
EXTENDS Elector

CONSTANTS i1, i2, i3

ThreeInstances == {i1, i2, i3}
=============================================================================
