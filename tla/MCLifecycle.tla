----------------------------- MODULE MCLifecycle -----------------------------
(* A small instance of Lifecycle: one process that stops or dies while     *)
(* another starts or takes over.                                           *)
EXTENDS Lifecycle

CONSTANTS i1, i2, r1

TwoInstances == {i1, i2}
OneRequest == {r1}
=============================================================================
