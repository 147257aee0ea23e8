----------------------------- MODULE MCIngestor -----------------------------
(* Small instances of Ingestor: two instances, two or three accounts and  *)
(* feeds in which several warnings are about the same account.            *)
EXTENDS Ingestor, TLC

CONSTANTS i1, i2, a1, a2, a3

TwoInstances == {i1, i2}

FeedTwins == <<a1, a1, a2, a3>>

ThreeAccounts == {a1, a2, a3}

TwoAccounts == {a1, a2}

FeedAlternating == <<a1, a2, a1>>

NoPoison == {}
PoisonLast == {4}

\* The instances are alike; for the runs of safety properties only.
Symmetry == Permutations(TwoInstances)
=============================================================================
