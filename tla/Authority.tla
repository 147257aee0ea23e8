------------------------------ MODULE Authority ------------------------------
(***************************************************************************)
(* What the private database promises about API keys and marketplaces: a   *)
(* request makes at most one change, with the key it came with, and that   *)
(* key has the authority for it.  A key is granted to a marketplace that   *)
(* is known by then, and never changes; it is revoked by somebody else;    *)
(* and a key that is revoked and a marketplace that is closed stay so.     *)
(* The key a request came with may itself have been revoked since the      *)
(* request was let in.                                                     *)
(***************************************************************************)
CONSTANTS
  Requests,
  Keys,          \* the numbers of keys
  Permissions,
  NoKey,         \* no key has this number yet
  Seeded         \* who granted a key that nobody asked for

VARIABLES
  granted,       \* granted[k]: the marketplace, permissions and grantor of key k
  revoked,       \* the keys that were revoked
  market,        \* market[s]: absent, active, inactive or deleted
  acted          \* acted[r]: the key request r made its change with, or NoKey

vars == <<granted, revoked, market, acted>>

Exists(k) == granted[k] # NoKey

Known(slug) == market[slug] # "absent"

Open(slug) == market[slug] \in {"active", "inactive"}

IsAdmin(k) == Exists(k) /\ "admin" \in granted[k].grant

MayManage(k, slug) ==
  \/ IsAdmin(k)
  \/ /\ Exists(k)
     /\ "manage" \in granted[k].grant
     /\ granted[k].slug = slug

OnlyCSFloatAdmin(key) == "admin" \in key.grant => key.slug = "csfloat"

Init ==
  /\ \A k \in Keys : Exists(k) =>
       granted[k].by = Seeded /\ OnlyCSFloatAdmin(granted[k]) /\ Known(granted[k].slug)
  /\ \A k \in revoked : Exists(k)
  /\ acted = [r \in Requests |-> NoKey]

SetMarket(slug, state) == market' = [market EXCEPT ![slug] = state]

\* Key k is granted: key.
Grant(k, key) ==
  /\ ~Exists(k) /\ key # NoKey
  /\ granted' = [granted EXCEPT ![k] = key]
  /\ UNCHANGED revoked

-----------------------------------------------------------------------------
(* Nobody asks for the first marketplace, and its first keys.              *)

Found ==
  /\ ~Known("csfloat")
  /\ SetMarket("csfloat", "active")
  /\ UNCHANGED <<granted, revoked>>

SeedKey(k) ==
  /\ Known("csfloat")
  /\ Grant(k, [slug |-> "csfloat", grant |-> Permissions, by |-> Seeded])
  /\ UNCHANGED market

-----------------------------------------------------------------------------
(* The changes the key by may make.                                        *)

\* A marketplace is opened, once, with a key of its own.
OpenMarket(by, slug, k) ==
  /\ IsAdmin(by)
  /\ ~Known(slug)
  /\ SetMarket(slug, "active")
  /\ Grant(k, [slug |-> slug, grant |-> {"manage"}, by |-> by])

Switch(by, slug, state) ==
  /\ IsAdmin(by)
  /\ Open(slug)
  /\ slug = "csfloat" => state = "active"
  /\ SetMarket(slug, state)
  /\ UNCHANGED <<granted, revoked>>

\* A marketplace is closed, and keys of it are revoked with it.
Close(by, slug) ==
  /\ IsAdmin(by)
  /\ Open(slug) /\ slug # "csfloat"
  /\ SetMarket(slug, "deleted")
  /\ revoked \subseteq revoked'
  /\ \A k \in revoked' \ revoked : Exists(k) /\ granted[k].slug = slug
  /\ UNCHANGED granted

GrantKey(by, k) ==
  LET key == granted'[k] IN
  /\ Grant(k, key)
  /\ key.by = by /\ MayManage(by, key.slug)
  /\ Known(key.slug) /\ OnlyCSFloatAdmin(key)
  /\ UNCHANGED market

Revoke(by, k) ==
  /\ Exists(k) /\ k \notin revoked
  /\ MayManage(by, granted[k].slug) /\ by # k
  /\ revoked' = revoked \cup {k}
  /\ UNCHANGED <<granted, market>>

Change(by) ==
  \/ \E k \in Keys : GrantKey(by, k) \/ Revoke(by, k)
  \/ \E slug \in DOMAIN market :
       \/ \E k \in Keys : OpenMarket(by, slug, k)
       \/ \E state \in {"active", "inactive"} : Switch(by, slug, state)
       \/ Close(by, slug)

\* Request r changes something, once, with the key by.
Act(r, by) ==
  /\ acted[r] = NoKey
  /\ acted' = [acted EXCEPT ![r] = by]
  /\ Change(by)

Next ==
  \/ (Found \/ \E k \in Keys : SeedKey(k)) /\ UNCHANGED acted
  \/ \E r \in Requests, by \in Keys : Act(r, by)

Spec == Init /\ [][Next]_vars
=============================================================================
