------------------------------ MODULE MCStatus ------------------------------
(* A small instance of Status: three reports of two accounts, over two     *)
(* days of two parts, and two concurrent requests.                         *)
EXTENDS Status, TLC

CONSTANTS a1, a2, q1, q2

TwoAccounts == {a1, a2}
TwoRequests == {q1, q2}

\* Accounts are alike, and so are requests.
Symmetry == Permutations(TwoAccounts) \cup Permutations(TwoRequests)
=============================================================================
