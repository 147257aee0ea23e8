---------------------------- MODULE MCReversals ----------------------------
(* A small instance of Reversals: two marketplaces have reported the same  *)
(* account, and three requests of any kind run concurrently.               *)
EXTENDS Reversals, TLC

CONSTANTS r1, r2, r3, a1, a2, m1, m2

MCRequests == {r1, r2, r3}
MCAccounts == {a1, a2}
MCSlugs == {m1, m2}

Of(a, source, related) == [account |-> a, source |-> source, related |-> related]

MCBatches == {
  <<Of(a1, "direct", FALSE)>>,
  <<Of(a2, "none", FALSE), Of(a1, "related_user", TRUE)>>,
  <<Of(a2, "direct", FALSE), Of(a2, "direct", FALSE)>>,
  <<Of(a2, "related_user", FALSE)>>}

Change(source, related, time, expunge) ==
  [source |-> source, related |-> related, time |-> time, expunge |-> expunge]

MCUpdates == {
  Change("keep", FALSE, FALSE, FALSE),
  Change("keep", FALSE, FALSE, TRUE),
  Change("keep", FALSE, TRUE, FALSE),
  Change("direct", FALSE, FALSE, FALSE),
  Change("related_user", TRUE, TRUE, FALSE)}

MCFirstRows == <<
  [account |-> a1, slug |-> m1, source |-> "related_user", related |-> TRUE],
  [account |-> a1, slug |-> m2, source |-> "none", related |-> FALSE]>>

Symmetry == Permutations(MCRequests)
=============================================================================
