------------------------------ MODULE MCAccess ------------------------------
(* Two databases to start from: an empty one, and one with an admin key, a  *)
(* key of csfloat that may only manage keys, and a marketplace with one.    *)
EXTENDS Access, TLC

Key(slug, grant) == [slug |-> slug, grant |-> grant, by |-> Seeded, deleted |-> FALSE]

Empty == [market |-> [s \in Slugs |-> "absent"], keys |-> <<>>]

Established ==
  [market |-> [s \in Slugs |-> "active"],
   keys |-> <<Key("csfloat", Permissions), Key("csfloat", {"manage"}),
              Key("market", {"manage"})>>]

EmptyOrEstablished == {Empty, Established}

TwoSlugs == {"csfloat", "market"}

AdminOrManage == {{"admin"}, {"manage"}}

Symmetry == Permutations(Requests) \cup Permutations(Instances)
=============================================================================
