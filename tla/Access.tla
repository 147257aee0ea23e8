------------------------------- MODULE Access -------------------------------
(***************************************************************************)
(* API keys and marketplaces: who is let in, and the handlers that change  *)
(* it.  A request is authenticated first (AuthMiddleware, ValidateKey,     *)
(* RequirePermissions) and then acts with the key it found, which may have *)
(* been revoked meanwhile.  Requests run concurrently, in one process or   *)
(* several; they share the keys, marketplaces and admin_audits tables of   *)
(* the private database.  A transaction is at PostgreSQL's default, READ   *)
(* COMMITTED: what it writes shows when it commits, and the rows it has    *)
(* updated are locked until then.  A process seeds the marketplace csfloat *)
(* and the first admin key when it starts.                                 *)
(*                                                                         *)
(* Abstracted: a key stands for its secret and its hash, and the database  *)
(* is of one environment.                                                  *)
(***************************************************************************)
EXTENDS Naturals, Sequences

CONSTANTS
  Requests,       \* the requests of a run
  Instances,      \* the processes of the service
  Slugs,          \* the slugs of marketplaces, csfloat among them
  Grants,         \* the permission sets a request may ask a new key to have
  FirstDatabases, \* what the database may hold at first
  MaxKey,         \* bound: keys ever created
  NoKey,          \* not a key record
  Seeded          \* the creator of a key no request created

Keys == 1..MaxKey
Permissions == {"admin", "manage", "write"}
MarketStates == {"absent", "active", "inactive", "deleted"}

\* A row of the keys table, with who created it.
Rows == [slug : Slugs, grant : (SUBSET Permissions) \ {{}}, by : Keys \cup {Seeded},
         deleted : BOOLEAN]

\* What a key was granted for, and who granted it.
Terms(row) == [slug |-> row.slug, grant |-> row.grant, by |-> row.by]

\* Only csfloat may have an admin key (Key.BeforeCreate, and the handlers).
Grantable(slug, grant) == "admin" \in grant => slug = "csfloat"

\* No creator of the first keys is known; their marketplaces are (foreign key).
ASSUME AccessAssumption ==
  /\ "csfloat" \in Slugs
  /\ Grants \subseteq (SUBSET Permissions) \ {{}}
  /\ MaxKey \in Nat
  /\ Seeded \notin Keys
  /\ NoKey \notin Rows \cup {Terms(row) : row \in Rows}
  /\ NoKey \notin Keys
  /\ \A db \in FirstDatabases :
       /\ db.market \in [Slugs -> MarketStates]
       /\ db.keys \in Seq(Rows) /\ Len(db.keys) <= MaxKey
       /\ \A k \in 1..Len(db.keys) :
            /\ db.keys[k].by = Seeded /\ Grantable(db.keys[k].slug, db.keys[k].grant)
            /\ db.market[db.keys[k].slug] # "absent"

VARIABLES
  market,   \* market[s]: absent, active, inactive or deleted
  keys,     \* keys[k]: a row of the keys table, or NoKey
  nextKey,  \* the next key to be generated
  audits,   \* the requests with a row in admin_audits
  boot,     \* boot[i]: how far instance i has started
  req,      \* req[r]: what request r asks, once it has arrived
  cred,     \* cred[r]: the key r came with
  pc,       \* pc[r]: where r is
  taken,   \* taken[r]: keys r's transaction deletes, open or committed
  applied,  \* the requests whose change is committed (history)
  dead,     \* dead[r]: keys that were beyond use when r arrived (history)
  answer    \* answer[r]: what the client of r was told

tables == <<market, keys, nextKey>>
vars == <<market, keys, nextKey, audits, boot, req, cred, pc, taken, applied,
          dead, answer>>

LiveKey(k) == keys[k] # NoKey /\ ~keys[k].deleted
LiveMarket(s) == market[s] \in {"active", "inactive"}

\* The requests that may arrive.
Asked ==
  [kind : {"onboard", "drop"}, slug : Slugs]
    \cup [kind : {"update"}, slug : Slugs, active : BOOLEAN]
    \cup [kind : {"adminCreate"}, slug : Slugs, grant : Grants]
    \cup [kind : {"adminDelete", "delete"}, id : Keys]
    \cup [kind : {"create"}, grant : Grants]

IsAdmin(r) == req[r].kind \in {"onboard", "drop", "update", "adminCreate", "adminDelete"}

Nothing == [kind |-> "nothing"]

Init ==
  /\ \E db \in FirstDatabases :
       /\ market = db.market
       /\ keys = [k \in Keys |-> IF k <= Len(db.keys) THEN db.keys[k] ELSE NoKey]
       /\ nextKey = Len(db.keys) + 1
  /\ audits = {}
  /\ boot = [i \in Instances |-> "down"]
  /\ req = [r \in Requests |-> Nothing]
  /\ cred = [r \in Requests |-> 0]
  /\ pc = [r \in Requests |-> "new"]
  /\ taken = [r \in Requests |-> {}]
  /\ applied = {}
  /\ dead = [r \in Requests |-> {}]
  /\ answer = [r \in Requests |-> "none"]

-----------------------------------------------------------------------------
(* Starting up: NewFactory seeds, then the service serves.                 *)

\* SeedMarketplaces: ON CONFLICT DO NOTHING.
SeedMarketplaces(i) ==
  /\ boot[i] = "down"
  /\ market' = [market EXCEPT !["csfloat"] = IF @ = "absent" THEN "active" ELSE @]
  /\ boot' = [boot EXCEPT ![i] = "check"]
  /\ UNCHANGED <<keys, nextKey, audits, req, cred, pc, taken, applied, dead, answer>>

\* SeedAdminAPIKey looks for an admin key, a deleted one too.
AdminExists == \E k \in Keys : keys[k] # NoKey /\ "admin" \in keys[k].grant

CheckAdmin(i) ==
  /\ boot[i] = "check"
  /\ boot' = [boot EXCEPT ![i] = IF AdminExists THEN "up" ELSE "seed"]
  /\ UNCHANGED <<tables, audits, req, cred, pc, taken, applied, dead, answer>>

\* A row of the keys table, as Key.BeforeCreate lets it in.
NewKey_ForgetsGrant(slug, grant, by) ==
  [slug |-> slug, grant |-> {}, by |-> by, deleted |-> FALSE]

NewKey(slug, grant, by) ==
  [slug |-> slug, grant |-> grant, by |-> by, deleted |-> FALSE]

InsertKey(slug, grant, by) ==
  /\ nextKey <= MaxKey
  /\ keys' = [keys EXCEPT ![nextKey] = NewKey(slug, grant, by)]
  /\ nextKey' = nextKey + 1

SeedAdmin(i) ==
  /\ boot[i] = "seed"
  /\ InsertKey("csfloat", Permissions, Seeded)
  /\ boot' = [boot EXCEPT ![i] = "up"]
  /\ UNCHANGED <<market, audits, req, cred, pc, taken, applied, dead, answer>>

\* An instance stops, at any point; the scaler may start it again.
Down(i) ==
  /\ boot[i] # "down"
  /\ boot' = [boot EXCEPT ![i] = "down"]
  /\ UNCHANGED <<tables, audits, req, cred, pc, taken, applied, dead, answer>>

-----------------------------------------------------------------------------
(* Helpers for the steps of a request.                                     *)

Is(r, kind, place) == pc[r] = place /\ req[r].kind = kind

Goto(r, place) == pc' = [pc EXCEPT ![r] = place] /\ UNCHANGED answer

Answer(r, said) ==
  /\ pc' = [pc EXCEPT ![r] = "done"]
  /\ answer' = [answer EXCEPT ![r] = said]

\* The commit took effect; the request goes on, or dies before it answers.
Commit(r, go) ==
  /\ applied' = applied \cup {r}
  /\ go \/ Answer(r, "error")

Refuse(r) ==
  /\ Answer(r, "error")
  /\ taken' = [taken EXCEPT ![r] = {}]
  /\ UNCHANGED <<tables, audits, boot, req, cred, applied, dead>>

\* A key beyond use for ever: deleted, or of a deleted marketplace.
DeadKeys ==
  {k \in Keys : keys[k] # NoKey /\ (keys[k].deleted \/ market[keys[k].slug] = "deleted")}

Arrive(r) ==
  /\ pc[r] = "new"
  /\ \E i \in Instances : boot[i] = "up"
  /\ \E asked \in Asked, k \in {k \in Keys : keys[k] # NoKey} :
       /\ req' = [req EXCEPT ![r] = asked]
       /\ cred' = [cred EXCEPT ![r] = k]
  /\ dead' = [dead EXCEPT ![r] = DeadKeys]
  /\ Goto(r, "key")
  /\ UNCHANGED <<tables, audits, boot, taken, applied>>

\* A statement fails and the transaction is rolled back, or the process dies.
Break(r) == pc[r] \notin {"new", "done"} /\ Refuse(r)

-----------------------------------------------------------------------------
(* AuthMiddleware: ValidateKey reads the key, then its marketplace; then   *)
(* RequirePermissions looks at the key read.                               *)

LookUpKey_Deleted(r) ==
  /\ pc[r] = "key"
  /\ Goto(r, "market")
  /\ UNCHANGED <<tables, audits, boot, req, cred, taken, applied, dead>>

LookUpKey(r) ==
  /\ pc[r] = "key"
  /\ LiveKey(cred[r])
  /\ Goto(r, "market")
  /\ UNCHANGED <<tables, audits, boot, req, cred, taken, applied, dead>>

\* The router asks for admin or manage.
Permitted(r) ==
  LET needed == IF IsAdmin(r) THEN "admin" ELSE "manage" IN
  needed \in keys[cred[r]].grant

LookUpMarketplace(r) ==
  /\ pc[r] = "market"
  /\ market[keys[cred[r]].slug] = "active"
  /\ Permitted(r)
  /\ Goto(r, "work")
  /\ UNCHANGED <<tables, audits, boot, req, cred, taken, applied, dead>>

Unauthorized(r) ==
  /\ \/ pc[r] = "key" /\ ~LiveKey(cred[r])
     \/ pc[r] = "market" /\ ~(market[keys[cred[r]].slug] = "active" /\ Permitted(r))
  /\ Refuse(r)

-----------------------------------------------------------------------------
(* The admin's marketplaces.                                               *)

\* The slug is the primary key, of a deleted row too.
CanOnboard(slug) == market[slug] = "absent"

\* Insert the marketplace, its manage key and the audit, in one transaction.
Onboard(r) ==
  /\ Is(r, "onboard", "work")
  /\ LET slug == req[r].slug IN
     /\ CanOnboard(slug)
     /\ market' = [market EXCEPT ![slug] = "active"]
     /\ InsertKey(slug, {"manage"}, cred[r])
  /\ audits' = audits \cup {r}
  /\ Commit(r, Goto(r, "read"))
  /\ UNCHANGED <<boot, req, cred, taken, dead>>

\* Then read the marketplace; the answer with the key is lost if it is gone.
OnboardRead(r) ==
  /\ Is(r, "onboard", "read")
  /\ Answer(r, IF LiveMarket(req[r].slug) THEN "ok" ELSE "error")
  /\ UNCHANGED <<tables, audits, boot, req, cred, taken, applied, dead>>

CanUpdate(slug, active) == LiveMarket(slug) /\ ~(slug = "csfloat" /\ ~active)

UpdateMarketplace(r) ==
  /\ Is(r, "update", "work")
  /\ CanUpdate(req[r].slug, req[r].active)
  /\ market' = [market EXCEPT ![req[r].slug] =
                  IF req[r].active THEN "active" ELSE "inactive"]
  /\ audits' = audits \cup {r}
  /\ Commit(r, Answer(r, "ok"))
  /\ UNCHANGED <<keys, nextKey, boot, req, cred, taken, dead>>

\* The first statement of Marketplace.Delete soft-deletes the live keys of the
\* marketplace, and waits for a transaction that has some of them.
Locked(k) == \E s \in Requests : pc[s] = "drop" /\ k \in taken[s]

DropKeys(r) ==
  /\ Is(r, "drop", "work")
  /\ LET of == {k \in Keys : LiveKey(k) /\ keys[k].slug = req[r].slug} IN
     /\ req[r].slug # "csfloat"
     /\ ~ \E k \in of : Locked(k)
     /\ taken' = [taken EXCEPT ![r] = of]
  /\ Goto(r, "drop")
  /\ UNCHANGED <<tables, audits, boot, req, cred, applied, dead>>

\* The second soft-deletes the marketplace; the audit, and commit.
DropMarketplace_AuditsAnyway(r) ==
  /\ Is(r, "drop", "drop")
  /\ keys' = [k \in Keys |-> IF k \in taken[r] THEN [keys[k] EXCEPT !.deleted = TRUE]
                                                ELSE keys[k]]
  /\ market' = [market EXCEPT ![req[r].slug] = IF @ = "absent" THEN @ ELSE "deleted"]
  /\ audits' = audits \cup {r}
  /\ IF LiveMarket(req[r].slug) THEN Commit(r, Answer(r, "ok"))
                                ELSE Answer(r, "error") /\ UNCHANGED applied
  /\ UNCHANGED <<nextKey, boot, req, cred, taken, dead>>

DropMarketplace(r) ==
  /\ Is(r, "drop", "drop")
  /\ LiveMarket(req[r].slug)
  /\ keys' = [k \in Keys |-> IF k \in taken[r] THEN [keys[k] EXCEPT !.deleted = TRUE]
                                                ELSE keys[k]]
  /\ market' = [market EXCEPT ![req[r].slug] = "deleted"]
  /\ audits' = audits \cup {r}
  /\ Commit(r, Answer(r, "ok"))
  /\ UNCHANGED <<nextKey, boot, req, cred, taken, dead>>

-----------------------------------------------------------------------------
(* Keys: the admin's handlers, and a marketplace's own.                    *)

\* The foreign key holds for a deleted marketplace too.
AdminCreateKey(r) ==
  /\ Is(r, "adminCreate", "work")
  /\ Grantable(req[r].slug, req[r].grant)
  /\ market[req[r].slug] # "absent"
  /\ InsertKey(req[r].slug, req[r].grant, cred[r])
  /\ audits' = audits \cup {r}
  /\ Commit(r, Answer(r, "ok"))
  /\ UNCHANGED <<market, boot, req, cred, taken, dead>>

\* One INSERT, and no audit.
CreateKey(r) ==
  /\ Is(r, "create", "work")
  /\ LET slug == keys[cred[r]].slug IN
     /\ Grantable(slug, req[r].grant)
     /\ InsertKey(slug, req[r].grant, cred[r])
  /\ Commit(r, Answer(r, "ok"))
  /\ UNCHANGED <<market, audits, boot, req, cred, taken, dead>>

IsDelete(r) == req[r].kind \in {"adminDelete", "delete"}

\* The transaction reads the key; a marketplace must own it, and nobody may
\* delete the key the request came with.
MayDelete_Itself(r) ==
  /\ LiveKey(req[r].id)
  /\ req[r].kind = "delete" => keys[req[r].id].slug = keys[cred[r]].slug

MayDelete_Anyones(r) == LiveKey(req[r].id) /\ req[r].id # cred[r]

MayDelete(r) ==
  /\ LiveKey(req[r].id)
  /\ req[r].kind = "delete" => keys[req[r].id].slug = keys[cred[r]].slug
  /\ req[r].id # cred[r]

ReadForDelete(r) ==
  /\ IsDelete(r) /\ pc[r] = "work"
  /\ MayDelete(r)
  /\ Goto(r, "delete")
  /\ UNCHANGED <<tables, audits, boot, req, cred, taken, applied, dead>>

\* Delete, for an admin the audit, and commit.  The DELETE waits for a row that
\* is locked and then finds it deleted, or not.
DeleteFinds_Anything(k) == keys[k] # NoKey

DeleteFinds(k) == LiveKey(k)

DeleteKey(r) ==
  /\ IsDelete(r) /\ pc[r] = "delete"
  /\ LET k == req[r].id IN
     /\ ~Locked(k)
     /\ DeleteFinds(k)
     /\ keys' = [keys EXCEPT ![k].deleted = TRUE]
     /\ taken' = [taken EXCEPT ![r] = {k}]
  /\ audits' = IF IsAdmin(r) THEN audits \cup {r} ELSE audits
  /\ Commit(r, Answer(r, "ok"))
  /\ UNCHANGED <<market, nextKey, boot, req, cred, dead>>

\* A check of the handler or of the database fails.
Refused(r) ==
  /\ \/ Is(r, "onboard", "work") /\ ~CanOnboard(req[r].slug)
     \/ Is(r, "update", "work") /\ ~CanUpdate(req[r].slug, req[r].active)
     \/ Is(r, "drop", "work") /\ req[r].slug = "csfloat"
     \/ Is(r, "drop", "drop") /\ ~LiveMarket(req[r].slug)
     \/ Is(r, "adminCreate", "work")
          /\ ~(Grantable(req[r].slug, req[r].grant) /\ market[req[r].slug] # "absent")
     \/ Is(r, "create", "work") /\ ~Grantable(keys[cred[r]].slug, req[r].grant)
     \/ IsDelete(r) /\ pc[r] = "work" /\ ~MayDelete(r)
     \/ IsDelete(r) /\ pc[r] = "delete" /\ ~DeleteFinds(req[r].id)
  /\ Refuse(r)

-----------------------------------------------------------------------------
Starting(i) == SeedMarketplaces(i) \/ CheckAdmin(i) \/ SeedAdmin(i) \/ Down(i)

Handling(r) ==
  \/ Arrive(r)
  \/ LookUpKey(r)
  \/ LookUpMarketplace(r)
  \/ Unauthorized(r)
  \/ Onboard(r)
  \/ OnboardRead(r)
  \/ UpdateMarketplace(r)
  \/ DropKeys(r)
  \/ DropMarketplace(r)
  \/ AdminCreateKey(r)
  \/ CreateKey(r)
  \/ ReadForDelete(r)
  \/ DeleteKey(r)
  \/ Refused(r)
  \/ Break(r)

Next == (\E i \in Instances : Starting(i)) \/ (\E r \in Requests : Handling(r))

Spec == Init /\ [][Next]_vars

-----------------------------------------------------------------------------
Places == {"new", "key", "market", "work", "read", "drop", "delete", "done"}

\* The types of the variables.
TypeOK ==
  /\ market \in [Slugs -> MarketStates]
  /\ keys \in [Keys -> Rows \cup {NoKey}]
  /\ nextKey \in 1..(MaxKey + 1)
  /\ audits \subseteq Requests
  /\ boot \in [Instances -> {"down", "check", "seed", "up"}]
  /\ req \in [Requests -> Asked \cup {Nothing}]
  /\ cred \in [Requests -> Keys \cup {0}]
  /\ pc \in [Requests -> Places]
  /\ taken \in [Requests -> SUBSET Keys]
  /\ applied \subseteq Requests
  /\ dead \in [Requests -> SUBSET Keys]
  /\ answer \in [Requests -> {"none", "ok", "error"}]

LetIn(r) == pc[r] \in {"work", "read", "drop", "delete"} \/ r \in applied

\* Revocation is for ever: no request that arrives after its key was deleted,
\* or its marketplace was, is ever let in, whatever is created, onboarded or
\* seeded in between (ValidateKey; slugs are never used again).
DeadStaysDead == \A r \in Requests : LetIn(r) => cred[r] \notin dead[r]

\* The keys as they were granted, and those that are deleted.
Granted == [k \in Keys |-> IF keys[k] = NoKey THEN NoKey ELSE Terms(keys[k])]

Revoked == {k \in Keys : keys[k] # NoKey /\ keys[k].deleted}

\* The key a request has made its change with.
Acted == [r \in Requests |-> IF r \in applied THEN cred[r] ELSE NoKey]

Rights == INSTANCE Authority WITH granted <- Granted, revoked <- Revoked, acted <- Acted

\* The handlers and the seeding implement the authority over keys: what a request
\* changes is one act of the key it came with, and that key has the authority for
\* it.  Each key comes from the seed, from an admin key of csfloat or from a
\* manage key of its marketplace, which is in the table by then; nobody revokes a
\* key of another marketplace unless with an admin key, nor the key he came with;
\* only admin keys open, switch and close marketplaces; nothing granted ever
\* changes and nothing revoked or closed comes back: whatever requests and
\* starting instances do in between, and although a key is checked only when its
\* request arrives.
KeepsAuthority == Rights!Spec

\* The audit trail of the private database is exact: an admin's change and its
\* audit are committed together or not at all.
ExactTrail == \A r \in Requests : r \in audits <=> r \in applied /\ IsAdmin(r)

\* No key is taken by two requests, whether they delete it or drop its
\* marketplace, and who is told that he deleted a key took it: of several that
\* would delete the same key only one is told so, and none when a dropped
\* marketplace took it (Key.Delete's RowsAffected).
DeletedOnce ==
  /\ \A r, s \in Requests : r # s => taken[r] \cap taken[s] = {}
  /\ \A r \in Requests : answer[r] = "ok" /\ IsDelete(r) => req[r].id \in taken[r]

\* csfloat is never deactivated nor dropped, and loses its last live key only
\* to a request whose own key was revoked while it was being served: the guard
\* of the delete handlers ("cannot delete key used for authentication") holds
\* for one request at a time.
HasLiveKey(slug) == \E k \in Keys : LiveKey(k) /\ keys[k].slug = slug

CSFloatStands ==
  [][/\ market["csfloat"] = "active" => market'["csfloat"] = "active"
     /\ HasLiveKey("csfloat") /\ ~HasLiveKey("csfloat")' =>
          \E r \in Requests : r \in applied' \ applied /\ ~LiveKey(cred[r])]_vars
=============================================================================
