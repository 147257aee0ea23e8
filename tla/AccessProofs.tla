----------------------------- MODULE AccessProofs -----------------------------
(***************************************************************************)
(* Proofs about Access for any requests, instances, marketplaces, keys and *)
(* first databases: revocation is for ever, every key has a legitimate     *)
(* origin, the audit trail is exact, no key is deleted twice, and csfloat  *)
(* keeps a key but for a request with a revoked one.                       *)
(***************************************************************************)
EXTENDS Access, TLAPS

-----------------------------------------------------------------------------
(* The invariant.                                                          *)

\* What is true of a request by where it is and by what it was told.
RequestInv(r) ==
  /\ pc[r] = "new" => req[r] = Nothing
  /\ pc[r] # "new" => req[r] \in Asked /\ cred[r] \in Keys /\ keys[cred[r]] # NoKey
  /\ pc[r] # "done" => answer[r] = "none"
  /\ pc[r] \notin {"read", "done"} => r \notin applied
  /\ pc[r] = "read" \/ answer[r] = "ok" => r \in applied
  /\ pc[r] \in {"work", "read", "drop", "delete"} => Permitted(r)
  /\ pc[r] = "market" =>
       cred[r] \notin dead[r] \/ market[keys[cred[r]].slug] = "deleted"
  /\ LetIn(r) => cred[r] \notin dead[r]
  /\ dead[r] \subseteq DeadKeys
  /\ r \in audits <=> r \in applied /\ IsAdmin(r)
  /\ pc[r] = "drop" => req[r].kind = "drop" /\ req[r].slug # "csfloat"
  /\ \A k \in taken[r] :
       /\ keys[k] # NoKey
       /\ pc[r] = "drop" \/ r \in applied
       /\ pc[r] = "drop" => keys[k].slug = req[r].slug
       /\ r \in applied => keys[k].deleted
  /\ pc[r] = "delete" =>
       /\ IsDelete(r) /\ req[r].id # cred[r]
       /\ req[r].kind = "delete" =>
            keys[req[r].id] # NoKey /\ keys[req[r].id].slug = keys[cred[r]].slug
  /\ answer[r] = "ok" /\ IsDelete(r) => req[r].id \in taken[r]

\* Every key comes from the seed, from an admin key of csfloat or from a manage
\* key of the same marketplace, also when the creator has been revoked since it
\* was authenticated; and only csfloat holds admin keys.
Lineage ==
  \A k \in Keys :
    keys[k] # NoKey =>
      /\ Grantable(keys[k].slug, keys[k].grant)
      /\ keys[k].by # Seeded =>
           LET creator == keys[keys[k].by] IN
           \/ "admin" \in creator.grant /\ creator.slug = "csfloat"
           \/ "manage" \in creator.grant /\ creator.slug = keys[k].slug

\* The keys to come are free.
FreshInv == \A k \in Keys : k >= nextKey => keys[k] = NoKey

\* A creator is a key that there is.
CreatorInv ==
  \A k \in Keys : keys[k] # NoKey /\ keys[k].by # Seeded => keys[keys[k].by] # NoKey

AccessInv ==
  /\ TypeOK
  /\ \A r \in Requests : RequestInv(r)
  /\ FreshInv
  /\ CreatorInv
  /\ Lineage

-----------------------------------------------------------------------------
(* What a step may do to the tables and to the requests.                   *)

\* A row changes only by being deleted.
Onward(old, new) ==
  /\ new \in Rows
  /\ new.slug = old.slug /\ new.grant = old.grant /\ new.by = old.by
  /\ old.deleted => new.deleted

TablesMove ==
  /\ market' \in [Slugs -> MarketStates]
  /\ \A s \in Slugs : market[s] = "deleted" => market'[s] = "deleted"
  /\ keys' \in [Keys -> Rows \cup {NoKey}]
  /\ nextKey' \in 1..(MaxKey + 1)
  /\ \A k \in Keys : keys[k] # NoKey => Onward(keys[k], keys'[k])

\* A request that has no part in the step.
Stays(s) ==
  /\ req'[s] = req[s] /\ cred'[s] = cred[s] /\ pc'[s] = pc[s]
  /\ taken'[s] = taken[s] /\ dead'[s] = dead[s] /\ answer'[s] = answer[s]
  /\ s \in applied' <=> s \in applied
  /\ s \in audits' <=> s \in audits

\* What a request of a kind carries.
LEMMA AskedForms ==
  ASSUME NEW asked \in Asked
  PROVE  /\ asked.kind \in {"onboard", "drop", "update", "adminCreate"} => asked.slug \in Slugs
         /\ asked.kind \in {"adminCreate", "create"} => asked.grant \in Grants
         /\ asked.kind \in {"adminDelete", "delete"} => asked.id \in Keys
         /\ asked.kind = "update" => asked.active \in BOOLEAN
         /\ asked # Nothing
BY DEF Asked, Nothing

\* A key that there is stays, and so does what it was for.
LEMMA KeyStays ==
  ASSUME TypeOK, TablesMove, NEW k \in Keys, keys[k] # NoKey
  PROVE  /\ keys[k] \in Rows /\ keys'[k] \in Rows /\ keys'[k] # NoKey
         /\ keys'[k].slug = keys[k].slug /\ keys'[k].grant = keys[k].grant
         /\ keys'[k].by = keys[k].by
         /\ keys[k].deleted => keys'[k].deleted
BY AccessAssumption DEF TypeOK, TablesMove, Onward

\* A dead key stays dead.
LEMMA DeadStay ==
  ASSUME TypeOK, TablesMove, NEW k \in DeadKeys
  PROVE  k \in DeadKeys'
<1>1. k \in Keys /\ keys[k] # NoKey
  BY DEF DeadKeys
<1>2. /\ keys'[k] # NoKey /\ keys'[k].slug = keys[k].slug
      /\ keys[k].deleted => keys'[k].deleted
  BY <1>1, KeyStays
<1>3. keys[k].slug \in Slugs
  BY <1>1, KeyStays DEF Rows
<1>4. CASE keys[k].deleted
  BY <1>1, <1>2, <1>4 DEF DeadKeys
<1>5. CASE market[keys[k].slug] = "deleted"
  BY <1>1, <1>2, <1>3, <1>5 DEF DeadKeys, TablesMove
<1> QED BY <1>4, <1>5 DEF DeadKeys

\* A request that has no part in the step keeps what is true of it.
LEMMA OthersKeep ==
  ASSUME TypeOK, TablesMove, NEW s \in Requests, RequestInv(s), Stays(s)
  PROVE  RequestInv(s)'
<1>1. pc[s] # "new" =>
        /\ keys'[cred[s]] # NoKey
        /\ keys'[cred[s]].slug = keys[cred[s]].slug
        /\ keys'[cred[s]].grant = keys[cred[s]].grant
        /\ keys[cred[s]].slug \in Slugs
  BY KeyStays DEF RequestInv, Rows
<1>2. /\ pc[s] \in {"work", "read", "drop", "delete"} => Permitted(s)'
      /\ IsAdmin(s)' <=> IsAdmin(s)
      /\ IsDelete(s)' <=> IsDelete(s)
      /\ LetIn(s)' <=> LetIn(s)
  BY <1>1 DEF RequestInv, Permitted, IsAdmin, IsDelete, LetIn, Stays
<1>3. dead'[s] \subseteq DeadKeys'
  BY DeadStay DEF RequestInv, Stays
<1>4. \A k \in taken[s] :
        /\ keys'[k] # NoKey /\ keys'[k].slug = keys[k].slug
        /\ keys[k].deleted => keys'[k].deleted
  BY KeyStays DEF RequestInv, TypeOK
<1>5. req[s] \in Asked /\ IsDelete(s) => req[s].id \in Keys
  BY AskedForms DEF IsDelete
<1>6. ASSUME pc[s] # "new", IsDelete(s), keys[req[s].id] # NoKey
      PROVE  keys'[req[s].id] # NoKey /\ keys'[req[s].id].slug = keys[req[s].id].slug
  BY <1>5, <1>6, KeyStays DEF RequestInv
<1>7. pc[s] = "market" =>
        cred[s] \notin dead[s] \/ market'[keys'[cred[s]].slug] = "deleted"
  BY <1>1 DEF RequestInv, TablesMove
<1>8. pc[s] = "delete" =>
        /\ IsDelete(s)' /\ req[s].id # cred[s]
        /\ req[s].kind = "delete" =>
             keys'[req[s].id] # NoKey /\ keys'[req[s].id].slug = keys'[cred[s]].slug
  BY <1>1, <1>2, <1>6 DEF RequestInv
<1>9. RequestInv(s)' <=>
         /\ pc[s] = "new" => req[s] = Nothing
         /\ pc[s] # "new" => req[s] \in Asked /\ cred[s] \in Keys /\ keys'[cred[s]] # NoKey
         /\ pc[s] # "done" => answer[s] = "none"
         /\ pc[s] \notin {"read", "done"} => s \notin applied
         /\ pc[s] = "read" \/ answer[s] = "ok" => s \in applied
         /\ pc[s] \in {"work", "read", "drop", "delete"} => Permitted(s)'
         /\ pc[s] = "market" =>
              cred[s] \notin dead[s] \/ market'[keys'[cred[s]].slug] = "deleted"
         /\ LetIn(s)' => cred[s] \notin dead[s]
         /\ dead'[s] \subseteq DeadKeys'
         /\ s \in audits <=> s \in applied /\ IsAdmin(s)'
         /\ pc[s] = "drop" => req[s].kind = "drop" /\ req[s].slug # "csfloat"
         /\ \A k \in taken[s] :
              /\ keys'[k] # NoKey
              /\ pc[s] = "drop" \/ s \in applied
              /\ pc[s] = "drop" => keys'[k].slug = req[s].slug
              /\ s \in applied => keys'[k].deleted
         /\ pc[s] = "delete" =>
              /\ IsDelete(s)' /\ req[s].id # cred[s]
              /\ req[s].kind = "delete" =>
                   keys'[req[s].id] # NoKey /\ keys'[req[s].id].slug = keys'[cred[s]].slug
         /\ answer[s] = "ok" /\ IsDelete(s)' => req[s].id \in taken[s]
  BY DEF RequestInv, Stays
<1> QED BY <1>1, <1>2, <1>3, <1>4, <1>7, <1>8, <1>9 DEF RequestInv

\* A step of one request, or of none, keeps the invariant if the tables move and
\* what the request itself relies on is kept.
LEMMA StepKeeps ==
  ASSUME AccessInv, TypeOK', TablesMove, FreshInv', CreatorInv', Lineage', NEW r,
         \A s \in Requests : s # r => Stays(s),
         r \in Requests => RequestInv(r)'
  PROVE  AccessInv'
<1>1. ASSUME NEW s \in Requests PROVE RequestInv(s)'
  BY OthersKeep DEF AccessInv
<1> QED BY <1>1 DEF AccessInv

\* The tables stay as they are.
LEMMA TablesStay ==
  ASSUME AccessInv, UNCHANGED tables
  PROVE  TablesMove /\ FreshInv' /\ CreatorInv' /\ Lineage'
<1>1. TablesMove
  BY DEF AccessInv, TypeOK, TablesMove, tables, Onward
<1> QED BY <1>1 DEF AccessInv, tables, FreshInv, CreatorInv, Lineage


-----------------------------------------------------------------------------
(* Starting, and steps of a request that leave the tables alone.           *)

\* The invariant holds initially.
LEMMA AccessInit == Init => AccessInv
<1> SUFFICES ASSUME Init PROVE AccessInv
  OBVIOUS
<1>1. PICK db \in FirstDatabases :
        /\ market = db.market
        /\ keys = [k \in Keys |-> IF k <= Len(db.keys) THEN db.keys[k] ELSE NoKey]
        /\ nextKey = Len(db.keys) + 1
  BY DEF Init
<1>2. /\ db.market \in [Slugs -> MarketStates]
      /\ db.keys \in Seq(Rows) /\ Len(db.keys) <= MaxKey
      /\ \A k \in 1..Len(db.keys) :
           db.keys[k].by = Seeded /\ Grantable(db.keys[k].slug, db.keys[k].grant)
  BY AccessAssumption
<1>3. ASSUME NEW k \in Keys
      PROVE  \/ keys[k] = NoKey /\ k >= nextKey
             \/ /\ keys[k] \in Rows /\ ~(k >= nextKey) /\ keys[k].by = Seeded
                /\ Grantable(keys[k].slug, keys[k].grant)
  <2>1. k \in Nat /\ k >= 1 /\ Len(db.keys) \in Nat
    BY <1>2 DEF Keys
  <2>2. CASE k <= Len(db.keys)
    <3>1. k \in 1..Len(db.keys) /\ db.keys[k] \in Rows /\ keys[k] = db.keys[k]
      BY <1>1, <1>2, <2>1, <2>2
    <3> QED BY <1>1, <1>2, <2>1, <2>2, <3>1
  <2>3. CASE ~(k <= Len(db.keys))
    BY <1>1, <2>1, <2>3
  <2> QED BY <2>2, <2>3
<1>4. keys \in [Keys -> Rows \cup {NoKey}]
  BY <1>1, <1>3
<1>5. nextKey \in 1..(MaxKey + 1)
  BY <1>1, <1>2, AccessAssumption
<1>6. TypeOK
  BY <1>1, <1>2, <1>4, <1>5 DEF Init, TypeOK, Places
<1>7. ASSUME NEW r \in Requests PROVE RequestInv(r)
  BY DEF Init, RequestInv, LetIn
<1>8. FreshInv /\ CreatorInv /\ Lineage
  BY <1>3, AccessAssumption DEF FreshInv, CreatorInv, Lineage
<1> QED BY <1>6, <1>7, <1>8 DEF AccessInv

\* A request arrives.
LEMMA ArriveKeeps ==
  ASSUME AccessInv, NEW r \in Requests, Arrive(r)
  PROVE  AccessInv'
<1>1. PICK asked \in Asked, k \in Keys :
        keys[k] # NoKey /\ req' = [req EXCEPT ![r] = asked] /\ cred' = [cred EXCEPT ![r] = k]
  BY DEF Arrive
<1>2. /\ pc[r] = "new" /\ pc' = [pc EXCEPT ![r] = "key"]
      /\ dead' = [dead EXCEPT ![r] = DeadKeys]
      /\ UNCHANGED <<market, keys, nextKey, audits, boot, taken, applied, answer>>
  BY DEF Arrive, Goto, tables
<1>3. TablesMove /\ FreshInv' /\ CreatorInv' /\ Lineage'
  BY <1>2, TablesStay DEF tables
<1>4. DeadKeys' = DeadKeys /\ DeadKeys \subseteq Keys
  BY <1>2 DEF DeadKeys
<1>5. TypeOK'
  BY <1>1, <1>2, <1>4 DEF AccessInv, TypeOK, Places
<1>6. \A s \in Requests : s # r => Stays(s)
  BY <1>1, <1>2 DEF AccessInv, TypeOK, Stays
<1>7. RequestInv(r)
  BY DEF AccessInv
<1>8. /\ req'[r] = asked /\ cred'[r] = k /\ pc'[r] = "key" /\ dead'[r] = DeadKeys
      /\ taken[r] = {} /\ answer[r] = "none" /\ r \notin applied /\ r \notin audits
  BY <1>1, <1>2, <1>7 DEF AccessInv, TypeOK, RequestInv
<1>9. RequestInv(r)'
  BY <1>1, <1>2, <1>4, <1>8 DEF RequestInv, LetIn
<1> QED BY <1>3, <1>5, <1>6, <1>9, StepKeeps

\* A request is refused, or dies.
LEMMA RefuseKeeps ==
  ASSUME AccessInv, NEW r \in Requests, pc[r] # "new", Refuse(r)
  PROVE  AccessInv'
<1>1. /\ pc' = [pc EXCEPT ![r] = "done"] /\ answer' = [answer EXCEPT ![r] = "error"]
      /\ taken' = [taken EXCEPT ![r] = {}]
      /\ UNCHANGED <<market, keys, nextKey, audits, boot, req, cred, applied, dead>>
  BY DEF Refuse, Answer, tables
<1>2. TablesMove /\ FreshInv' /\ CreatorInv' /\ Lineage'
  BY <1>1, TablesStay DEF tables
<1>3. TypeOK'
  BY <1>1 DEF AccessInv, TypeOK, Places
<1>4. \A s \in Requests : s # r => Stays(s)
  BY <1>1 DEF AccessInv, TypeOK, Stays
<1>5. RequestInv(r)
  BY DEF AccessInv
<1>6. pc'[r] = "done" /\ answer'[r] = "error" /\ taken'[r] = {} /\ DeadKeys' = DeadKeys
  BY <1>1 DEF AccessInv, TypeOK, DeadKeys
<1>7. RequestInv(r)'
  BY <1>1, <1>5, <1>6 DEF RequestInv, LetIn, IsAdmin
<1> QED BY <1>2, <1>3, <1>4, <1>7, StepKeeps

\* A request goes on without a change of the tables.
Goes(r, place) ==
  /\ pc' = [pc EXCEPT ![r] = place]
  /\ UNCHANGED <<market, keys, nextKey, audits, boot, req, cred, applied, dead, answer>>

\* What is common to such steps.
LEMMA GoesKeeps ==
  ASSUME AccessInv, NEW r \in Requests, NEW place \in Places, Goes(r, place),
         \A s \in Requests : s # r => taken'[s] = taken[s],
         taken' \in [Requests -> SUBSET Keys],
         RequestInv(r)'
  PROVE  AccessInv'
<1>1. TablesMove /\ FreshInv' /\ CreatorInv' /\ Lineage'
  BY TablesStay DEF tables, Goes
<1>2. TypeOK'
  BY DEF AccessInv, TypeOK, Goes
<1>3. \A s \in Requests : s # r => Stays(s)
  BY DEF AccessInv, TypeOK, Stays, Goes
<1> QED BY <1>1, <1>2, <1>3, StepKeeps

\* The key is found, and found again when the request is let in.
LEMMA LookUpKeeps ==
  ASSUME AccessInv, NEW r \in Requests, LookUpKey(r) \/ LookUpMarketplace(r)
  PROVE  AccessInv'
<1>1. RequestInv(r)
  BY DEF AccessInv
<1>2. CASE LookUpKey(r)
  <2>1. Goes(r, "market") /\ taken' = taken
    BY <1>2 DEF LookUpKey, Goto, Goes, tables
  <2>2. pc'[r] = "market" /\ DeadKeys' = DeadKeys
    BY <2>1 DEF AccessInv, TypeOK, DeadKeys, Goes
  <2>3. pc[r] = "key" /\ LiveKey(cred[r])
    BY <1>2 DEF LookUpKey
  <2>4. cred[r] \notin dead[r] \/ market[keys[cred[r]].slug] = "deleted"
    BY <1>1, <2>3 DEF RequestInv, DeadKeys, LiveKey
  <2>5. RequestInv(r)'
    BY <1>1, <2>1, <2>2, <2>3, <2>4 DEF RequestInv, LetIn, IsAdmin, IsDelete, Goes
  <2> QED BY <2>1, <2>5, GoesKeeps DEF AccessInv, TypeOK, Places
<1>3. CASE LookUpMarketplace(r)
  <2>1. Goes(r, "work") /\ taken' = taken
    BY <1>3 DEF LookUpMarketplace, Goto, Goes, tables
  <2>2. pc'[r] = "work" /\ DeadKeys' = DeadKeys
    BY <2>1 DEF AccessInv, TypeOK, DeadKeys, Goes
  <2>3. pc[r] = "market" /\ market[keys[cred[r]].slug] = "active" /\ Permitted(r)
    BY <1>3 DEF LookUpMarketplace
  <2>4. cred[r] \notin dead[r]
    BY <1>1, <2>3 DEF RequestInv
  <2>5. Permitted(r)'
    BY <2>1, <2>3 DEF Permitted, IsAdmin, Goes
  <2>6. RequestInv(r)'
    BY <1>1, <2>1, <2>2, <2>3, <2>4, <2>5 DEF RequestInv, LetIn, IsAdmin, IsDelete, Goes
  <2> QED BY <2>1, <2>6, GoesKeeps DEF AccessInv, TypeOK, Places
<1> QED BY <1>2, <1>3

\* A drop has its keys, and a deletion its key.
LEMMA ReadKeeps ==
  ASSUME AccessInv, NEW r \in Requests, DropKeys(r) \/ ReadForDelete(r)
  PROVE  AccessInv'
<1>1. RequestInv(r)
  BY DEF AccessInv
<1>2. CASE DropKeys(r)
  <2>1. PICK of : /\ of = {k \in Keys : LiveKey(k) /\ keys[k].slug = req[r].slug}
                  /\ req[r].slug # "csfloat" /\ taken' = [taken EXCEPT ![r] = of]
    BY <1>2 DEF DropKeys
  <2>2. Goes(r, "drop") /\ pc[r] = "work" /\ req[r].kind = "drop"
    BY <1>2 DEF DropKeys, Goto, Goes, tables, Is
  <2>3. pc'[r] = "drop" /\ DeadKeys' = DeadKeys /\ taken'[r] = of
    BY <2>1, <2>2 DEF AccessInv, TypeOK, DeadKeys, Goes
  <2>4. Permitted(r)'
    BY <1>1, <2>2 DEF RequestInv, Permitted, IsAdmin, Goes
  <2>5. RequestInv(r)'
    BY <1>1, <2>1, <2>2, <2>3, <2>4 DEF RequestInv, LetIn, IsAdmin, IsDelete, Goes, LiveKey
  <2>6. taken' \in [Requests -> SUBSET Keys] /\ \A s \in Requests : s # r => taken'[s] = taken[s]
    BY <2>1 DEF AccessInv, TypeOK
  <2> QED BY <2>2, <2>5, <2>6, GoesKeeps DEF Places
<1>3. CASE ReadForDelete(r)
  <2>1. Goes(r, "delete") /\ taken' = taken
    BY <1>3 DEF ReadForDelete, Goto, Goes, tables
  <2>2. pc[r] = "work" /\ IsDelete(r) /\ MayDelete(r)
    BY <1>3 DEF ReadForDelete
  <2>3. pc'[r] = "delete" /\ DeadKeys' = DeadKeys
    BY <2>1 DEF AccessInv, TypeOK, DeadKeys, Goes
  <2>4. Permitted(r)'
    BY <1>1, <2>1, <2>2 DEF RequestInv, Permitted, IsAdmin, Goes
  <2>5. RequestInv(r)'
    BY <1>1, <2>1, <2>2, <2>3, <2>4
    DEF RequestInv, LetIn, IsAdmin, IsDelete, Goes, LiveKey, MayDelete
  <2> QED BY <2>1, <2>5, GoesKeeps DEF AccessInv, TypeOK, Places
<1> QED BY <1>2, <1>3

\* The marketplace that was onboarded is read.
LEMMA OnboardReadKeeps ==
  ASSUME AccessInv, NEW r \in Requests, OnboardRead(r)
  PROVE  AccessInv'
<1>1. PICK said \in {"ok", "error"} :
        pc' = [pc EXCEPT ![r] = "done"] /\ answer' = [answer EXCEPT ![r] = said]
  BY DEF OnboardRead, Answer
<1>2. /\ UNCHANGED <<market, keys, nextKey, audits, boot, req, cred, taken, applied, dead>>
      /\ pc[r] = "read" /\ req[r].kind = "onboard"
  BY DEF OnboardRead, tables, Is
<1>3. TablesMove /\ FreshInv' /\ CreatorInv' /\ Lineage'
  BY <1>2, TablesStay DEF tables
<1>4. TypeOK'
  BY <1>1, <1>2 DEF AccessInv, TypeOK, Places
<1>5. \A s \in Requests : s # r => Stays(s)
  BY <1>1, <1>2 DEF AccessInv, TypeOK, Stays
<1>6. RequestInv(r)
  BY DEF AccessInv
<1>7. pc'[r] = "done" /\ answer'[r] = said /\ DeadKeys' = DeadKeys
  BY <1>1, <1>2 DEF AccessInv, TypeOK, DeadKeys
<1>8. RequestInv(r)'
  BY <1>2, <1>6, <1>7 DEF RequestInv, LetIn, IsAdmin, IsDelete
<1> QED BY <1>3, <1>4, <1>5, <1>8, StepKeeps

-----------------------------------------------------------------------------
(* Steps that change the tables.                                           *)

MarketsMove ==
  /\ market' \in [Slugs -> MarketStates]
  /\ \A s \in Slugs : market[s] = "deleted" => market'[s] = "deleted"

\* Who may create a key for a marketplace: the seed, an admin key of csfloat, or
\* a manage key of the marketplace.
MayCreate(by, slug) ==
  by # Seeded =>
    /\ by \in Keys /\ keys[by] # NoKey
    /\ \/ "admin" \in keys[by].grant /\ keys[by].slug = "csfloat"
       \/ "manage" \in keys[by].grant /\ keys[by].slug = slug

\* A new key takes a free number, and has an origin.
LEMMA InsertKeeps ==
  ASSUME AccessInv, MarketsMove,
         NEW slug \in Slugs, NEW grant \in (SUBSET Permissions) \ {{}},
         NEW by \in Keys \cup {Seeded}, Grantable(slug, grant), MayCreate(by, slug),
         InsertKey(slug, grant, by)
  PROVE  TablesMove /\ FreshInv' /\ CreatorInv' /\ Lineage'
<1>1. PICK row : row = NewKey(slug, grant, by)
  OBVIOUS
<1>2. row \in Rows /\ row.slug = slug /\ row.grant = grant /\ row.by = by
  BY <1>1 DEF NewKey, Rows
<1>3. /\ nextKey \in Keys /\ keys[nextKey] = NoKey
      /\ nextKey' = nextKey + 1 /\ nextKey' \in 1..(MaxKey + 1)
  BY AccessAssumption DEF AccessInv, TypeOK, InsertKey, Keys, FreshInv
<1>4. keys' = [keys EXCEPT ![nextKey] = row]
  BY <1>1 DEF InsertKey
<1>5. keys' \in [Keys -> Rows \cup {NoKey}]
  BY <1>2, <1>4 DEF AccessInv, TypeOK
<1>6. keys'[nextKey] = row /\ \A k \in Keys : k # nextKey => keys'[k] = keys[k]
  BY <1>3, <1>4 DEF AccessInv, TypeOK
<1>7. TablesMove
  BY <1>3, <1>5, <1>6 DEF AccessInv, TypeOK, TablesMove, MarketsMove, Onward
<1>8. FreshInv'
  <2>1. ASSUME NEW k \in Keys, k >= nextKey' PROVE keys'[k] = NoKey
    <3>1. k # nextKey /\ k >= nextKey
      BY <1>3, <2>1 DEF Keys
    <3> QED BY <1>6, <3>1 DEF AccessInv, FreshInv
  <2> QED BY <2>1 DEF FreshInv
<1>9. ASSUME NEW k \in Keys, keys'[k] # NoKey
      PROVE  /\ Grantable(keys'[k].slug, keys'[k].grant)
             /\ keys'[k].by # Seeded =>
                  /\ keys'[keys'[k].by] # NoKey
                  /\ \/ "admin" \in keys'[keys'[k].by].grant /\ keys'[keys'[k].by].slug = "csfloat"
                     \/ /\ "manage" \in keys'[keys'[k].by].grant
                        /\ keys'[keys'[k].by].slug = keys'[k].slug
  <2>1. CASE k = nextKey
    <3>1. keys'[k] = row
      BY <1>6, <2>1
    <3>2. CASE by # Seeded
      <4>1. by # nextKey /\ keys'[by] = keys[by]
        BY <1>3, <1>6, <3>2 DEF MayCreate
      <4> QED BY <1>2, <3>1, <3>2, <4>1 DEF MayCreate
    <3>3. CASE by = Seeded
      BY <1>2, <3>1, <3>3
    <3> QED BY <3>2, <3>3
  <2>2. CASE k # nextKey
    <3>1. keys'[k] = keys[k]
      BY <1>6, <2>2
    <3>2. CASE keys[k].by # Seeded
      <4>1. /\ keys[keys[k].by] # NoKey /\ keys[k].by \in Keys
            /\ Grantable(keys[k].slug, keys[k].grant)
            /\ \/ "admin" \in keys[keys[k].by].grant /\ keys[keys[k].by].slug = "csfloat"
               \/ "manage" \in keys[keys[k].by].grant /\ keys[keys[k].by].slug = keys[k].slug
        BY <1>9, <3>1, <3>2 DEF AccessInv, CreatorInv, Lineage, TypeOK, Rows
      <4>2. keys'[keys[k].by] = keys[keys[k].by]
        BY <1>3, <1>6, <4>1
      <4> QED BY <3>1, <4>1, <4>2
    <3>3. CASE keys[k].by = Seeded
      BY <1>9, <3>1, <3>3 DEF AccessInv, Lineage
    <3> QED BY <3>2, <3>3
  <2> QED BY <2>1, <2>2
<1>10. CreatorInv' /\ Lineage'
  BY <1>9 DEF CreatorInv, Lineage
<1> QED BY <1>7, <1>8, <1>10

\* Deleting keys leaves the others and all origins alone.
LEMMA DeleteKeeps ==
  ASSUME AccessInv, MarketsMove, nextKey' = nextKey,
         NEW gone \in SUBSET Keys, \A k \in gone : keys[k] # NoKey,
         keys' = [k \in Keys |-> IF k \in gone THEN [keys[k] EXCEPT !.deleted = TRUE]
                                               ELSE keys[k]]
  PROVE  TablesMove /\ FreshInv' /\ CreatorInv' /\ Lineage'
<1>1. ASSUME NEW k \in Keys
      PROVE  /\ keys[k] # NoKey => Onward(keys[k], keys'[k]) /\ keys'[k] # NoKey
             /\ keys[k] = NoKey => keys'[k] = NoKey
  <2>1. CASE k \in gone
    <3>1. keys[k] \in Rows /\ keys'[k] = [keys[k] EXCEPT !.deleted = TRUE]
      BY <2>1 DEF AccessInv, TypeOK
    <3>2. keys'[k] \in Rows
      BY <3>1 DEF Rows
    <3>3. /\ keys'[k].slug = keys[k].slug /\ keys'[k].grant = keys[k].grant
          /\ keys'[k].by = keys[k].by /\ keys'[k].deleted
      BY <3>1 DEF Rows
    <3> QED BY <2>1, <3>1, <3>2, <3>3, AccessAssumption DEF Onward
  <2>2. CASE k \notin gone
    BY <2>2 DEF AccessInv, TypeOK, Onward
  <2> QED BY <2>1, <2>2
<1>2. keys' \in [Keys -> Rows \cup {NoKey}]
  <2>1. \A k \in Keys : keys'[k] \in Rows \cup {NoKey}
    BY <1>1 DEF Onward
  <2> QED BY <2>1
<1>3. TablesMove
  BY <1>1, <1>2 DEF AccessInv, TypeOK, TablesMove, MarketsMove
<1>4. FreshInv'
  BY <1>1 DEF AccessInv, FreshInv
<1>5. ASSUME NEW k \in Keys, keys'[k] # NoKey
      PROVE  /\ Grantable(keys'[k].slug, keys'[k].grant)
             /\ keys'[k].by # Seeded =>
                  /\ keys'[keys'[k].by] # NoKey
                  /\ \/ "admin" \in keys'[keys'[k].by].grant /\ keys'[keys'[k].by].slug = "csfloat"
                     \/ /\ "manage" \in keys'[keys'[k].by].grant
                        /\ keys'[keys'[k].by].slug = keys'[k].slug
  <2>1. keys[k] # NoKey /\ Onward(keys[k], keys'[k])
    BY <1>1, <1>5
  <2>2. CASE keys[k].by # Seeded
    <3>1. /\ keys[keys[k].by] # NoKey /\ keys[k].by \in Keys
          /\ Grantable(keys[k].slug, keys[k].grant)
          /\ \/ "admin" \in keys[keys[k].by].grant /\ keys[keys[k].by].slug = "csfloat"
             \/ "manage" \in keys[keys[k].by].grant /\ keys[keys[k].by].slug = keys[k].slug
      BY <2>1, <2>2 DEF AccessInv, CreatorInv, Lineage, TypeOK, Rows
    <3>2. Onward(keys[keys[k].by], keys'[keys[k].by]) /\ keys'[keys[k].by] # NoKey
      BY <1>1, <3>1
    <3> QED BY <2>1, <3>1, <3>2 DEF Onward
  <2>3. CASE keys[k].by = Seeded
    BY <2>1, <2>3 DEF AccessInv, Lineage, Onward
  <2> QED BY <2>2, <2>3
<1>6. CreatorInv' /\ Lineage'
  BY <1>5 DEF CreatorInv, Lineage
<1> QED BY <1>3, <1>4, <1>6

\* A deleted row is one, and says so.
LEMMA GoneDeleted ==
  ASSUME TypeOK, NEW gone \in SUBSET Keys, \A k \in gone : keys[k] # NoKey,
         keys' = [k \in Keys |-> IF k \in gone THEN [keys[k] EXCEPT !.deleted = TRUE]
                                               ELSE keys[k]],
         NEW k \in gone
  PROVE  keys'[k] # NoKey /\ keys'[k].deleted
<1>1. PICK row : row = [keys[k] EXCEPT !.deleted = TRUE]
  OBVIOUS
<1>2. keys[k] \in Rows /\ keys'[k] = row
  BY <1>1 DEF TypeOK
<1>3. row \in Rows /\ row.deleted
  BY <1>1, <1>2 DEF Rows
<1> QED BY <1>2, <1>3, AccessAssumption

\* No step of an instance that starts is about a request.
LEMMA StartingKeeps ==
  ASSUME AccessInv, NEW i \in Instances, Starting(i)
  PROVE  AccessInv'
<1>1. UNCHANGED <<audits, req, cred, pc, taken, applied, dead, answer>>
  BY DEF Starting, SeedMarketplaces, CheckAdmin, SeedAdmin, Down
<1>2. TablesMove /\ FreshInv' /\ CreatorInv' /\ Lineage'
  <2>1. CASE SeedMarketplaces(i)
    <3>1. MarketsMove /\ UNCHANGED <<keys, nextKey>>
      BY <2>1 DEF SeedMarketplaces, AccessInv, TypeOK, MarketsMove, MarketStates
    <3> QED BY <3>1 DEF AccessInv, TypeOK, TablesMove, MarketsMove, Onward,
                        FreshInv, CreatorInv, Lineage
  <2>2. CASE SeedAdmin(i)
    <3>1. InsertKey("csfloat", Permissions, Seeded) /\ MarketsMove
      BY <2>2 DEF SeedAdmin, AccessInv, TypeOK, MarketsMove
    <3>2. Permissions \in (SUBSET Permissions) \ {{}}
      BY DEF Permissions
    <3>3. Grantable("csfloat", Permissions) /\ MayCreate(Seeded, "csfloat")
      BY DEF Grantable, MayCreate
    <3> QED BY <3>1, <3>2, <3>3, InsertKeeps, AccessAssumption
  <2>3. CASE CheckAdmin(i) \/ Down(i)
    BY <2>3, TablesStay DEF CheckAdmin, Down
  <2> QED BY <2>1, <2>2, <2>3 DEF Starting
<1>3. boot' \in [Instances -> {"down", "check", "seed", "up"}]
  BY DEF Starting, SeedMarketplaces, CheckAdmin, SeedAdmin, Down, AccessInv, TypeOK
<1>4. TypeOK'
  BY <1>1, <1>2, <1>3 DEF AccessInv, TypeOK, TablesMove
<1>5. \A s \in Requests : Stays(s)
  BY <1>1 DEF Stays
<1>6. \A s \in Requests : RequestInv(s)'
  BY <1>2, <1>5, OthersKeep DEF AccessInv
<1> QED BY <1>2, <1>4, <1>6 DEF AccessInv

-----------------------------------------------------------------------------
(* Commits.                                                                *)

\* A request has committed its change, with an audit if it is an admin's, and
\* has taken the keys gone.
Commits(r, place, said, gone) ==
  /\ applied' = applied \cup {r}
  /\ audits' = IF IsAdmin(r) THEN audits \cup {r} ELSE audits
  /\ pc' = [pc EXCEPT ![r] = place]
  /\ answer' = [answer EXCEPT ![r] = said]
  /\ taken' = [taken EXCEPT ![r] = gone]
  /\ UNCHANGED <<boot, req, cred, dead>>

\* What is common to the commits.
LEMMA CommitKeeps ==
  ASSUME AccessInv, TablesMove, FreshInv', CreatorInv', Lineage',
         NEW r \in Requests, pc[r] \in {"work", "drop", "delete"},
         NEW place \in {"read", "done"}, NEW said \in {"none", "ok", "error"},
         place = "read" => said = "none",
         NEW gone \in SUBSET Keys, \A k \in gone : keys'[k] # NoKey /\ keys'[k].deleted,
         Commits(r, place, said, gone), IsDelete(r) => req[r].id \in gone
  PROVE  AccessInv'
<1>1. RequestInv(r)
  BY DEF AccessInv
<1>2. /\ pc'[r] = place /\ answer'[r] = said /\ taken'[r] = gone /\ r \in applied'
      /\ req'[r] = req[r] /\ cred'[r] = cred[r] /\ dead'[r] = dead[r]
      /\ r \in audits' <=> IsAdmin(r)
  BY <1>1 DEF Commits, AccessInv, TypeOK, RequestInv
<1>3. TypeOK'
  BY DEF Commits, AccessInv, TypeOK, TablesMove, Places
<1>4. \A s \in Requests : s # r => Stays(s)
  BY DEF Commits, AccessInv, TypeOK, Stays
<1>5. /\ keys'[cred[r]] # NoKey
      /\ keys'[cred[r]].grant = keys[cred[r]].grant
  BY <1>1, KeyStays DEF AccessInv, RequestInv
<1>6. /\ Permitted(r)'
      /\ IsAdmin(r)' <=> IsAdmin(r)
      /\ IsDelete(r)' <=> IsDelete(r)
  BY <1>1, <1>2, <1>5 DEF RequestInv, Permitted, IsAdmin, IsDelete
<1>7. dead'[r] \subseteq DeadKeys'
  BY <1>1, <1>2, DeadStay DEF AccessInv, RequestInv
<1>8. cred'[r] \notin dead'[r]
  BY <1>1, <1>2 DEF RequestInv, LetIn
<1>9. RequestInv(r)'
  BY <1>1, <1>2, <1>5, <1>6, <1>7, <1>8 DEF RequestInv
<1> QED BY <1>3, <1>4, <1>9, StepKeeps

\* A commit ends the request, or goes on to its answer.
LEMMA CommitForms ==
  ASSUME AccessInv, NEW r \in Requests, pc[r] \in {"work", "drop", "delete"},
         \/ Commit(r, Goto(r, "read"))
         \/ Commit(r, Answer(r, "ok"))
  PROVE  /\ applied' = applied \cup {r}
         /\ \E place \in {"read", "done"}, said \in {"none", "ok", "error"} :
              /\ place = "read" => said = "none"
              /\ pc' = [pc EXCEPT ![r] = place] /\ answer' = [answer EXCEPT ![r] = said]
<1>1. applied' = applied \cup {r} /\ (Goto(r, "read") \/ Answer(r, "ok") \/ Answer(r, "error"))
  BY DEF Commit
<1>2. CASE Goto(r, "read")
  <2>1. answer[r] = "none" /\ answer \in [Requests -> {"none", "ok", "error"}]
    BY DEF AccessInv, TypeOK, RequestInv
  <2>2. answer' = [answer EXCEPT ![r] = "none"]
    BY <1>2, <2>1 DEF Goto
  <2> QED BY <1>1, <1>2, <2>2 DEF Goto
<1>3. CASE Answer(r, "ok") \/ Answer(r, "error")
  BY <1>1, <1>3 DEF Answer
<1> QED BY <1>1, <1>2, <1>3

\* At its work a request has taken no keys.
LEMMA HoldsNothing ==
  ASSUME AccessInv, NEW r \in Requests, pc[r] = "work", taken' = taken
  PROVE  taken' = [taken EXCEPT ![r] = {}]
BY DEF AccessInv, TypeOK, RequestInv

\* An admin that was let in has an admin key of csfloat, all others a manage key.
LEMMA LetInMay ==
  ASSUME AccessInv, NEW r \in Requests, pc[r] \in {"work", "read", "drop", "delete"}
  PROVE  /\ cred[r] \in Keys /\ keys[cred[r]] # NoKey /\ keys[cred[r]] \in Rows
         /\ req[r] \in Asked
         /\ IsAdmin(r) => "admin" \in keys[cred[r]].grant /\ keys[cred[r]].slug = "csfloat"
         /\ ~IsAdmin(r) => "manage" \in keys[cred[r]].grant
<1>1. RequestInv(r)
  BY DEF AccessInv
<1>2. cred[r] \in Keys /\ keys[cred[r]] # NoKey /\ Permitted(r) /\ req[r] \in Asked
  BY <1>1 DEF RequestInv
<1>3. Grantable(keys[cred[r]].slug, keys[cred[r]].grant)
  BY <1>2 DEF AccessInv, Lineage
<1> QED BY <1>2, <1>3 DEF AccessInv, TypeOK, Permitted, Grantable

\* Onboarding, and keys that are created.
LEMMA CreateKeeps ==
  ASSUME AccessInv, NEW r \in Requests, Onboard(r) \/ AdminCreateKey(r) \/ CreateKey(r)
  PROVE  AccessInv'
<1>1. pc[r] = "work" /\ taken' = taken /\ UNCHANGED <<boot, req, cred, dead>>
  BY DEF Onboard, AdminCreateKey, CreateKey, Is
<1>2. /\ cred[r] \in Keys /\ keys[cred[r]] # NoKey /\ keys[cred[r]] \in Rows
      /\ req[r] \in Asked
      /\ IsAdmin(r) => "admin" \in keys[cred[r]].grant /\ keys[cred[r]].slug = "csfloat"
      /\ ~IsAdmin(r) => "manage" \in keys[cred[r]].grant
  BY <1>1, LetInMay
<1>3. /\ req[r].kind \in {"onboard", "adminCreate"} => req[r].slug \in Slugs
      /\ req[r].kind \in {"adminCreate", "create"} => req[r].grant \in Grants
  BY <1>2, AskedForms
<1>4. PICK by \in Keys : by = cred[r]
  BY <1>2
<1>5. CASE Onboard(r)
  <2>1. PICK slug : slug = req[r].slug
    OBVIOUS
  <2>2. /\ slug \in Slugs /\ IsAdmin(r) /\ market[slug] = "absent"
        /\ market' = [market EXCEPT ![slug] = "active"]
        /\ InsertKey(slug, {"manage"}, by)
    BY <1>3, <1>4, <1>5, <2>1 DEF Onboard, CanOnboard, Is, IsAdmin
  <2>3. MarketsMove
    BY <2>2 DEF AccessInv, TypeOK, MarketsMove, MarketStates
  <2>4. Grantable(slug, {"manage"}) /\ MayCreate(by, slug)
    BY <1>2, <1>4, <2>2 DEF Grantable, MayCreate
  <2>5. TablesMove /\ FreshInv' /\ CreatorInv' /\ Lineage'
    BY <2>2, <2>3, <2>4, InsertKeeps DEF Permissions
  <2>6. PICK place \in {"read", "done"}, said \in {"none", "ok", "error"} :
          /\ place = "read" => said = "none"
          /\ pc' = [pc EXCEPT ![r] = place] /\ answer' = [answer EXCEPT ![r] = said]
    BY <1>1, <1>5, CommitForms DEF Onboard
  <2>7. audits' = audits \cup {r} /\ applied' = applied \cup {r} /\ ~IsDelete(r)
    BY <1>5 DEF Onboard, Commit, Is, IsDelete
  <2>8. Commits(r, place, said, {})
    BY <1>1, <2>2, <2>6, <2>7, HoldsNothing DEF Commits
  <2> QED BY <1>1, <2>5, <2>6, <2>7, <2>8, CommitKeeps
<1>6. CASE AdminCreateKey(r) \/ CreateKey(r)
  <2>1. PICK slug : slug = IF IsAdmin(r) THEN req[r].slug ELSE keys[cred[r]].slug
    OBVIOUS
  <2>2. PICK grant : grant = req[r].grant
    OBVIOUS
  <2>3. /\ slug \in Slugs /\ grant \in (SUBSET Permissions) \ {{}}
        /\ Grantable(slug, grant) /\ InsertKey(slug, grant, by) /\ MayCreate(by, slug)
    <3>1. CASE AdminCreateKey(r)
      <4>1. IsAdmin(r) /\ req[r].kind = "adminCreate" /\ slug = req[r].slug
        BY <2>1, <3>1 DEF AdminCreateKey, Is, IsAdmin
      <4>2. Grantable(slug, grant) /\ InsertKey(slug, grant, by)
        BY <1>4, <2>2, <3>1, <4>1 DEF AdminCreateKey
      <4> QED BY <1>2, <1>3, <1>4, <2>2, <4>1, <4>2, AccessAssumption DEF MayCreate
    <3>2. CASE CreateKey(r)
      <4>1. ~IsAdmin(r) /\ req[r].kind = "create" /\ slug = keys[cred[r]].slug
        BY <2>1, <3>2 DEF CreateKey, Is, IsAdmin
      <4>2. Grantable(slug, grant) /\ InsertKey(slug, grant, by)
        BY <1>4, <2>2, <3>2, <4>1 DEF CreateKey
      <4> QED BY <1>2, <1>3, <1>4, <2>2, <4>1, <4>2, AccessAssumption DEF MayCreate, Rows
    <3> QED BY <1>6, <3>1, <3>2
  <2>4. MarketsMove
    BY <1>6 DEF AdminCreateKey, CreateKey, AccessInv, TypeOK, MarketsMove
  <2>5. TablesMove /\ FreshInv' /\ CreatorInv' /\ Lineage'
    BY <2>3, <2>4, InsertKeeps
  <2>6. PICK place \in {"read", "done"}, said \in {"none", "ok", "error"} :
          /\ place = "read" => said = "none"
          /\ pc' = [pc EXCEPT ![r] = place] /\ answer' = [answer EXCEPT ![r] = said]
    BY <1>1, <1>6, CommitForms DEF AdminCreateKey, CreateKey
  <2>7. /\ audits' = IF IsAdmin(r) THEN audits \cup {r} ELSE audits
        /\ applied' = applied \cup {r} /\ ~IsDelete(r)
    BY <1>6 DEF AdminCreateKey, CreateKey, Commit, Is, IsDelete, IsAdmin
  <2>8. Commits(r, place, said, {})
    BY <1>1, <2>6, <2>7, HoldsNothing DEF Commits
  <2> QED BY <1>1, <2>5, <2>6, <2>7, <2>8, CommitKeeps
<1> QED BY <1>5, <1>6

\* A marketplace is activated or deactivated.
LEMMA UpdateKeeps ==
  ASSUME AccessInv, NEW r \in Requests, UpdateMarketplace(r)
  PROVE  AccessInv'
<1>1. /\ pc[r] = "work" /\ taken' = taken /\ UNCHANGED <<keys, nextKey, boot, req, cred, dead>>
      /\ req[r].kind = "update" /\ LiveMarket(req[r].slug)
  BY DEF UpdateMarketplace, CanUpdate, Is
<1>2. /\ \E state \in {"active", "inactive"} : market' = [market EXCEPT ![req[r].slug] = state]
      /\ market[req[r].slug] # "deleted"
  BY <1>1 DEF UpdateMarketplace, LiveMarket
<1>3. MarketsMove
  BY <1>1, <1>2 DEF AccessInv, TypeOK, MarketsMove, MarketStates
<1>4. TablesMove /\ FreshInv' /\ CreatorInv' /\ Lineage'
  BY <1>1, <1>3 DEF AccessInv, TypeOK, TablesMove, MarketsMove, Onward,
                    FreshInv, CreatorInv, Lineage
<1>5. PICK place \in {"read", "done"}, said \in {"none", "ok", "error"} :
        /\ place = "read" => said = "none"
        /\ pc' = [pc EXCEPT ![r] = place] /\ answer' = [answer EXCEPT ![r] = said]
  BY <1>1, CommitForms DEF UpdateMarketplace
<1>6. /\ audits' = audits \cup {r} /\ applied' = applied \cup {r}
      /\ IsAdmin(r) /\ ~IsDelete(r)
  BY <1>1 DEF UpdateMarketplace, Commit, IsDelete, IsAdmin
<1>7. Commits(r, place, said, {})
  BY <1>1, <1>5, <1>6, HoldsNothing DEF Commits
<1> QED BY <1>1, <1>4, <1>5, <1>6, <1>7, CommitKeeps

\* A marketplace is dropped with the keys it had.
LEMMA DropKeeps ==
  ASSUME AccessInv, NEW r \in Requests, DropMarketplace(r)
  PROVE  AccessInv'
<1>1. /\ pc[r] = "drop" /\ UNCHANGED <<nextKey, boot, req, cred, dead>>
      /\ req[r].kind = "drop" /\ taken' = taken
  BY DEF DropMarketplace, Is
<1>2. PICK slug : slug = req[r].slug /\ market' = [market EXCEPT ![slug] = "deleted"]
  BY DEF DropMarketplace
<1>3. MarketsMove
  BY <1>2 DEF AccessInv, TypeOK, MarketsMove, MarketStates
<1>4. PICK gone : /\ gone = taken[r]
                  /\ keys' = [k \in Keys |-> IF k \in gone
                                             THEN [keys[k] EXCEPT !.deleted = TRUE]
                                             ELSE keys[k]]
  BY DEF DropMarketplace
<1>5. gone \in SUBSET Keys /\ \A k \in gone : keys[k] # NoKey
  BY <1>4 DEF AccessInv, TypeOK, RequestInv
<1>6. TablesMove /\ FreshInv' /\ CreatorInv' /\ Lineage'
  BY <1>1, <1>3, <1>4, <1>5, DeleteKeeps
<1>7. PICK place \in {"read", "done"}, said \in {"none", "ok", "error"} :
        /\ place = "read" => said = "none"
        /\ pc' = [pc EXCEPT ![r] = place] /\ answer' = [answer EXCEPT ![r] = said]
  BY <1>1, CommitForms DEF DropMarketplace
<1>8. /\ audits' = audits \cup {r} /\ applied' = applied \cup {r}
      /\ IsAdmin(r) /\ ~IsDelete(r)
  BY <1>1 DEF DropMarketplace, Commit, IsDelete, IsAdmin
<1>9. Commits(r, place, said, gone)
  BY <1>1, <1>4, <1>7, <1>8 DEF Commits, AccessInv, TypeOK
<1>10. ASSUME NEW k \in gone PROVE keys'[k] # NoKey /\ keys'[k].deleted
  BY <1>4, <1>5, GoneDeleted DEF AccessInv
<1> QED BY <1>1, <1>5, <1>6, <1>7, <1>8, <1>9, <1>10, CommitKeeps

\* The deleted key, by a name that does not change.
LEMMA DeletedForm ==
  ASSUME AccessInv, NEW r \in Requests, DeleteKey(r), NEW id, id = req[r].id
  PROVE  /\ id \in Keys /\ LiveKey(id)
         /\ keys' = [k \in Keys |-> IF k \in {id} THEN [keys[k] EXCEPT !.deleted = TRUE]
                                                  ELSE keys[k]]
         /\ keys'[id] # NoKey /\ keys'[id].deleted
         /\ \A k \in Keys : k # id => keys'[k] = keys[k]
<1>1. /\ LiveKey(id) /\ keys' = [keys EXCEPT ![id].deleted = TRUE]
      /\ IsDelete(r) /\ pc[r] = "delete"
  BY DEF DeleteKey, DeleteFinds
<1>2. req[r] \in Asked
  BY <1>1, LetInMay
<1>3. id \in Keys
  BY <1>1, <1>2, AskedForms DEF IsDelete
<1>4. keys[id] \in Rows
  BY <1>1, <1>3 DEF AccessInv, TypeOK, LiveKey
<1>5. PICK row : row = [keys[id] EXCEPT !.deleted = TRUE]
  OBVIOUS
<1>6. row \in Rows /\ row.deleted
  BY <1>4, <1>5 DEF Rows
<1>7. keys'[id] = row /\ \A k \in Keys : k # id => keys'[k] = keys[k]
  BY <1>1, <1>3, <1>5 DEF AccessInv, TypeOK
<1>8. keys' = [k \in Keys |-> IF k \in {id} THEN [keys[k] EXCEPT !.deleted = TRUE] ELSE keys[k]]
  BY <1>1, <1>3 DEF AccessInv, TypeOK
<1> QED BY <1>1, <1>3, <1>6, <1>7, <1>8, AccessAssumption

\* A key is deleted.
LEMMA DeleteKeyKeeps ==
  ASSUME AccessInv, NEW r \in Requests, DeleteKey(r)
  PROVE  AccessInv'
<1>1. pc[r] = "delete" /\ UNCHANGED <<market, nextKey, boot, req, cred, dead>>
  BY DEF DeleteKey
<1>2. PICK id : id = req[r].id /\ taken' = [taken EXCEPT ![r] = {id}]
  BY DEF DeleteKey
<1>3. /\ id \in Keys /\ LiveKey(id)
      /\ keys' = [k \in Keys |-> IF k \in {id} THEN [keys[k] EXCEPT !.deleted = TRUE]
                                               ELSE keys[k]]
      /\ keys'[id] # NoKey /\ keys'[id].deleted
  BY <1>2, DeletedForm
<1>4. MarketsMove
  BY <1>1 DEF AccessInv, TypeOK, MarketsMove
<1>5. TablesMove /\ FreshInv' /\ CreatorInv' /\ Lineage'
  <2>1. {id} \in SUBSET Keys /\ \A k \in {id} : keys[k] # NoKey
    BY <1>3 DEF LiveKey
  <2> QED BY <1>1, <1>3, <1>4, <2>1, DeleteKeeps
<1>6. PICK place \in {"read", "done"}, said \in {"none", "ok", "error"} :
        /\ place = "read" => said = "none"
        /\ pc' = [pc EXCEPT ![r] = place] /\ answer' = [answer EXCEPT ![r] = said]
  BY <1>1, CommitForms DEF DeleteKey
<1>7. /\ audits' = IF IsAdmin(r) THEN audits \cup {r} ELSE audits
      /\ applied' = applied \cup {r}
  BY DEF DeleteKey, Commit
<1>8. Commits(r, place, said, {id})
  BY <1>1, <1>2, <1>6, <1>7 DEF Commits
<1>9. {id} \in SUBSET Keys /\ \A k \in {id} : keys'[k] # NoKey /\ keys'[k].deleted
  BY <1>3
<1> QED BY <1>1, <1>2, <1>5, <1>6, <1>8, <1>9, CommitKeeps

-----------------------------------------------------------------------------
(* The theorems.                                                           *)

\* Every step keeps the invariant.
LEMMA AccessStep == AccessInv /\ [Next]_vars => AccessInv'
<1> SUFFICES ASSUME AccessInv, [Next]_vars PROVE AccessInv'
  OBVIOUS
<1>1. ASSUME NEW i \in Instances, Starting(i) PROVE AccessInv'
  BY <1>1, StartingKeeps
<1>2. ASSUME NEW r \in Requests, Arrive(r) PROVE AccessInv'
  BY <1>2, ArriveKeeps
<1>3. ASSUME NEW r \in Requests, LookUpKey(r) \/ LookUpMarketplace(r) PROVE AccessInv'
  BY <1>3, LookUpKeeps
<1>4. ASSUME NEW r \in Requests, Unauthorized(r) \/ Refused(r) \/ Break(r) PROVE AccessInv'
  <2>1. pc[r] # "new" /\ Refuse(r)
    BY <1>4 DEF Unauthorized, Refused, Break, Is
  <2> QED BY <2>1, RefuseKeeps
<1>5. ASSUME NEW r \in Requests, DropKeys(r) \/ ReadForDelete(r) PROVE AccessInv'
  BY <1>5, ReadKeeps
<1>6. ASSUME NEW r \in Requests, OnboardRead(r) PROVE AccessInv'
  BY <1>6, OnboardReadKeeps
<1>7. ASSUME NEW r \in Requests, Onboard(r) \/ AdminCreateKey(r) \/ CreateKey(r)
      PROVE  AccessInv'
  BY <1>7, CreateKeeps
<1>8. ASSUME NEW r \in Requests, UpdateMarketplace(r) PROVE AccessInv'
  BY <1>8, UpdateKeeps
<1>9. ASSUME NEW r \in Requests, DropMarketplace(r) PROVE AccessInv'
  BY <1>9, DropKeeps
<1>10. ASSUME NEW r \in Requests, DeleteKey(r) PROVE AccessInv'
  BY <1>10, DeleteKeyKeeps
<1>11. CASE UNCHANGED vars
  BY <1>11 DEF vars, AccessInv, TypeOK, RequestInv, FreshInv, CreatorInv, Lineage,
               Permitted, LetIn, DeadKeys, IsAdmin, IsDelete
<1> QED BY <1>1, <1>2, <1>3, <1>4, <1>5, <1>6, <1>7, <1>8, <1>9, <1>10, <1>11
        DEF Next, Handling

\* The invariant holds always.
THEOREM AccessInvariant == Spec => []AccessInv
BY AccessInit, AccessStep, PTL DEF Spec

\* Every variable keeps its type.
THEOREM AccessTypes == Spec => []TypeOK
<1>1. AccessInv => TypeOK
  BY DEF AccessInv
<1> QED BY <1>1, AccessInvariant, PTL

\* No request that arrived with a key beyond use is ever let in.
THEOREM RevokedForEver == Spec => []DeadStaysDead
<1>1. AccessInv => DeadStaysDead
  BY DEF AccessInv, RequestInv, DeadStaysDead
<1> QED BY <1>1, AccessInvariant, PTL

\* Every key has a legitimate origin, and only csfloat holds admin keys.
THEOREM Origins == Spec => []Lineage
<1>1. AccessInv => Lineage
  BY DEF AccessInv
<1> QED BY <1>1, AccessInvariant, PTL

\* An admin's change and its audit are committed together or not at all.
THEOREM TrailExact == Spec => []ExactTrail
<1>1. AccessInv => ExactTrail
  BY DEF AccessInv, RequestInv, ExactTrail
<1> QED BY <1>1, AccessInvariant, PTL

\* A key that is live and not locked is nobody's yet.
LEMMA NobodysKey ==
  ASSUME AccessInv, NEW k \in Keys, LiveKey(k), ~Locked(k), NEW s \in Requests
  PROVE  k \notin taken[s]
BY DEF AccessInv, RequestInv, LiveKey, Locked

\* Who takes keys takes live ones, that nobody has taken.
LEMMA DeletedOnceStep == AccessInv /\ DeletedOnce /\ [Next]_vars => DeletedOnce'
<1> SUFFICES ASSUME AccessInv, DeletedOnce, [Next]_vars PROVE DeletedOnce'
  OBVIOUS
<1>1. ASSUME NEW s \in Requests, answer'[s] = "ok", IsDelete(s)'
      PROVE  (req[s].id \in taken[s])'
  BY <1>1, AccessStep DEF AccessInv, RequestInv
<1>2. SUFFICES \A t, s \in Requests : t # s => taken'[t] \cap taken'[s] = {}
  BY <1>1 DEF DeletedOnce
<1>3. CASE \E r \in Requests : DropKeys(r) \/ DeleteKey(r)
  <2>1. PICK r \in Requests : DropKeys(r) \/ DeleteKey(r)
    BY <1>3
  <2>2. PICK gone \in SUBSET Keys :
          /\ taken' = [taken EXCEPT ![r] = gone]
          /\ \A k \in gone : LiveKey(k) /\ ~Locked(k)
    <3>1. CASE DropKeys(r)
      BY <3>1 DEF DropKeys
    <3>2. CASE DeleteKey(r)
      <4>1. PICK id : id = req[r].id
        OBVIOUS
      <4>2. id \in Keys /\ LiveKey(id)
        BY <3>2, <4>1, DeletedForm
      <4>3. taken' = [taken EXCEPT ![r] = {id}] /\ ~Locked(id)
        BY <3>2, <4>1 DEF DeleteKey
      <4>4. {id} \in SUBSET Keys /\ \A k \in {id} : k = id
        BY <4>2
      <4>5. \A k \in {id} : LiveKey(k) /\ ~Locked(k)
        BY <4>2, <4>3, <4>4 DEF LiveKey, Locked
      <4> QED BY <4>3, <4>4, <4>5
    <3> QED BY <2>1, <3>1, <3>2
  <2>3. \A s \in Requests : gone \cap taken[s] = {}
    BY <2>2, NobodysKey
  <2>4. taken'[r] = gone /\ \A s \in Requests : s # r => taken'[s] = taken[s]
    BY <2>2 DEF AccessInv, TypeOK
  <2> QED BY <2>3, <2>4 DEF DeletedOnce
<1>4. CASE ~ \E r \in Requests : DropKeys(r) \/ DeleteKey(r)
  <2>1. \A s \in Requests : taken'[s] \subseteq taken[s]
    <3>1. taken' = taken \/ \E r \in Requests : taken' = [taken EXCEPT ![r] = {}]
      BY <1>4 DEF Next, Starting, SeedMarketplaces, CheckAdmin, SeedAdmin, Down, Handling,
           Arrive, LookUpKey, LookUpMarketplace, Unauthorized, Onboard, OnboardRead,
           UpdateMarketplace, DropMarketplace, AdminCreateKey, CreateKey, ReadForDelete,
           Refused, Break, Refuse, vars
    <3> QED BY <3>1 DEF AccessInv, TypeOK
  <2> QED BY <2>1 DEF DeletedOnce
<1> QED BY <1>3, <1>4

\* No key is taken twice, and who is told that he deleted a key took it.
THEOREM ToldOnce == Spec => []DeletedOnce
<1>1. Init => DeletedOnce
  BY DEF Init, DeletedOnce
<1> QED BY <1>1, AccessInvariant, DeletedOnceStep, PTL DEF Spec

\* A key that is live stays live in all steps but a drop and a deletion.
LEMMA LiveStays ==
  ASSUME AccessInv, [Next]_vars, ~ \E r \in Requests : DropMarketplace(r) \/ DeleteKey(r),
         NEW k \in Keys, LiveKey(k)
  PROVE  keys'[k] = keys[k]
<1>1. ASSUME NEW slug, NEW grant, NEW by, InsertKey(slug, grant, by)
      PROVE  keys'[k] = keys[k]
  <2>1. nextKey \in Keys /\ keys[nextKey] = NoKey
    BY <1>1, AccessAssumption DEF AccessInv, TypeOK, InsertKey, Keys, FreshInv
  <2>2. PICK row : row = NewKey(slug, grant, by)
    OBVIOUS
  <2>3. keys' = [keys EXCEPT ![nextKey] = row]
    BY <1>1, <2>2 DEF InsertKey
  <2> QED BY <2>1, <2>3 DEF LiveKey, AccessInv, TypeOK
<1>2. ASSUME NEW i \in Instances, Starting(i) PROVE keys'[k] = keys[k]
  BY <1>1, <1>2 DEF Starting, SeedMarketplaces, CheckAdmin, SeedAdmin, Down, tables
<1>3. ASSUME NEW r \in Requests, Handling(r) PROVE keys'[k] = keys[k]
  <2>1. CASE Onboard(r) \/ AdminCreateKey(r) \/ CreateKey(r)
    BY <1>1, <2>1 DEF Onboard, AdminCreateKey, CreateKey
  <2>2. CASE ~(Onboard(r) \/ AdminCreateKey(r) \/ CreateKey(r))
    BY <1>3, <2>2 DEF Handling, Arrive, LookUpKey, LookUpMarketplace, Unauthorized,
       OnboardRead, UpdateMarketplace, DropKeys, ReadForDelete, Refused, Break, Refuse, tables
  <2> QED BY <2>1, <2>2
<1> QED BY <1>2, <1>3 DEF Next, vars

\* csfloat's marketplace stays active.
LEMMA CSFloatActive ==
  ASSUME AccessInv, [Next]_vars, market["csfloat"] = "active"
  PROVE  market'["csfloat"] = "active"
<1>1. ASSUME NEW i \in Instances, Starting(i) PROVE market'["csfloat"] = "active"
  BY <1>1, AccessAssumption
  DEF Starting, SeedMarketplaces, CheckAdmin, SeedAdmin, Down, tables, AccessInv, TypeOK
<1>2. ASSUME NEW r \in Requests, Handling(r) PROVE market'["csfloat"] = "active"
  <2>1. CASE Onboard(r)
    BY <2>1 DEF Onboard, CanOnboard, AccessInv, TypeOK
  <2>2. CASE UpdateMarketplace(r)
    BY <2>2, AccessAssumption DEF UpdateMarketplace, CanUpdate, AccessInv, TypeOK
  <2>3. CASE DropMarketplace(r)
    BY <2>3, AccessAssumption DEF DropMarketplace, Is, AccessInv, TypeOK, RequestInv
  <2>4. CASE ~(Onboard(r) \/ UpdateMarketplace(r) \/ DropMarketplace(r))
    BY <1>2, <2>4 DEF Handling, Arrive, LookUpKey, LookUpMarketplace, Unauthorized,
       OnboardRead, DropKeys, AdminCreateKey, CreateKey, ReadForDelete, DeleteKey,
       Refused, Break, Refuse, tables
  <2> QED BY <2>1, <2>2, <2>3, <2>4
<1> QED BY <1>1, <1>2 DEF Next, vars

\* csfloat loses its last live key only to a request whose key was revoked.
LEMMA LastKeyGoes ==
  ASSUME AccessInv, [Next]_vars, HasLiveKey("csfloat"), ~HasLiveKey("csfloat")'
  PROVE  \E r \in Requests : r \in applied' \ applied /\ ~LiveKey(cred[r])
<1>1. PICK k \in Keys : LiveKey(k) /\ keys[k].slug = "csfloat"
  BY DEF HasLiveKey
<1>2. ASSUME NEW c \in Keys, LiveKey(c), keys[c].slug = "csfloat"
      PROVE  keys'[c] # keys[c]
  BY <1>2 DEF HasLiveKey, LiveKey
<1>3. PICK r \in Requests : DropMarketplace(r) \/ DeleteKey(r)
  BY <1>1, <1>2, LiveStays
<1>4. RequestInv(r)
  BY DEF AccessInv
<1>5. ~DropMarketplace(r)
  <2>1. SUFFICES ASSUME DropMarketplace(r) PROVE FALSE
    OBVIOUS
  <2>2. k \notin taken[r]
    BY <1>1, <1>4, <2>1 DEF DropMarketplace, Is, RequestInv
  <2> QED BY <1>1, <1>2, <2>1, <2>2 DEF DropMarketplace
<1>6. PICK id : id = req[r].id
  OBVIOUS
<1>7. /\ id \in Keys /\ LiveKey(id)
      /\ \A c \in Keys : c # id => keys'[c] = keys[c]
  BY <1>3, <1>5, <1>6, DeletedForm
<1>8. pc[r] = "delete" /\ r \in applied'
  BY <1>3, <1>5 DEF DeleteKey, Commit
<1>9. /\ r \notin applied /\ id # cred[r] /\ IsDelete(r)
      /\ req[r].kind = "delete" => keys[id].slug = keys[cred[r]].slug
  BY <1>4, <1>6, <1>8 DEF RequestInv
<1>10. k = id
  BY <1>1, <1>2, <1>7
<1>11. cred[r] \in Keys /\ keys[cred[r]].slug = "csfloat"
  BY <1>1, <1>8, <1>9, <1>10, LetInMay DEF IsAdmin, IsDelete
<1>12. ~LiveKey(cred[r])
  BY <1>2, <1>7, <1>9, <1>11
<1> QED BY <1>8, <1>9, <1>12

\* csfloat stays active, and keeps a live key but for such a request.
THEOREM CSFloatKeepsStanding == Spec => CSFloatStands
<1>1. AccessInv /\ [Next]_vars =>
        [/\ market["csfloat"] = "active" => market'["csfloat"] = "active"
         /\ HasLiveKey("csfloat") /\ ~HasLiveKey("csfloat")' =>
              \E r \in Requests : r \in applied' \ applied /\ ~LiveKey(cred[r])]_vars
  BY CSFloatActive, LastKeyGoes
<1> QED BY <1>1, AccessInvariant, PTL DEF Spec, CSFloatStands

-----------------------------------------------------------------------------
(* The refinement of Authority.                                            *)

\* A key belongs to a marketplace that is in the table, and csfloat is in the table
\* once an instance has seeded it.
KnownInv ==
  /\ \A k \in Keys : keys[k] # NoKey => market[keys[k].slug] # "absent"
  /\ \A i \in Instances : boot[i] # "down" => market["csfloat"] # "absent"

\* It holds initially.
LEMMA KnownInit == Init => KnownInv
<1> SUFFICES ASSUME Init PROVE KnownInv
  OBVIOUS
<1>1. PICK db \in FirstDatabases :
        /\ market = db.market
        /\ keys = [k \in Keys |-> IF k <= Len(db.keys) THEN db.keys[k] ELSE NoKey]
  BY DEF Init
<1>2. /\ db.keys \in Seq(Rows)
      /\ \A k \in 1..Len(db.keys) : db.market[db.keys[k].slug] # "absent"
  BY AccessAssumption
<1>3. ASSUME NEW k \in Keys, keys[k] # NoKey PROVE market[keys[k].slug] # "absent"
  <2>1. k \in Nat /\ k >= 1 /\ Len(db.keys) \in Nat
    BY <1>2 DEF Keys
  <2>2. k \in 1..Len(db.keys) /\ keys[k] = db.keys[k]
    BY <1>1, <1>3, <2>1
  <2> QED BY <1>1, <1>2, <2>2
<1>4. \A i \in Instances : boot[i] = "down"
  BY DEF Init
<1> QED BY <1>3, <1>4 DEF KnownInv

\* A marketplace that is in the table stays there.
LEMMA MarketsStay ==
  ASSUME AccessInv, [Next]_vars, NEW s \in Slugs, market[s] # "absent"
  PROVE  market'[s] # "absent"
<1>1. ASSUME NEW i \in Instances, Starting(i) PROVE market'[s] # "absent"
  BY <1>1 DEF Starting, SeedMarketplaces, CheckAdmin, SeedAdmin, Down, tables, AccessInv, TypeOK
<1>2. ASSUME NEW r \in Requests, Handling(r) PROVE market'[s] # "absent"
  <2>1. CASE Onboard(r) \/ UpdateMarketplace(r) \/ DropMarketplace(r)
    <3>1. \E slug, state : state # "absent" /\ market' = [market EXCEPT ![slug] = state]
      BY <2>1 DEF Onboard, UpdateMarketplace, DropMarketplace
    <3> QED BY <3>1 DEF AccessInv, TypeOK
  <2>2. CASE ~(Onboard(r) \/ UpdateMarketplace(r) \/ DropMarketplace(r))
    BY <1>2, <2>2 DEF Handling, Arrive, LookUpKey, LookUpMarketplace, Unauthorized,
       OnboardRead, DropKeys, AdminCreateKey, CreateKey, ReadForDelete, DeleteKey,
       Refused, Break, Refuse, tables
  <2> QED BY <2>1, <2>2
<1> QED BY <1>1, <1>2 DEF Next, vars

\* The row of a new key.
LEMMA InsertForm ==
  ASSUME AccessInv,
         NEW slug \in Slugs, NEW grant \in (SUBSET Permissions) \ {{}},
         NEW by \in Keys \cup {Seeded}, InsertKey(slug, grant, by)
  PROVE  \E n \in Keys, row \in Rows :
           /\ row.slug = slug /\ row.grant = grant /\ row.by = by /\ ~row.deleted
           /\ keys[n] = NoKey /\ keys' = [keys EXCEPT ![n] = row]
<1>1. PICK row : row = NewKey(slug, grant, by)
  OBVIOUS
<1>2. /\ row \in Rows /\ row.slug = slug /\ row.grant = grant /\ row.by = by
      /\ ~row.deleted
  BY <1>1 DEF NewKey, Rows
<1>3. nextKey \in Keys /\ keys[nextKey] = NoKey
  BY AccessAssumption DEF AccessInv, TypeOK, InsertKey, Keys, FreshInv
<1>4. keys' = [keys EXCEPT ![nextKey] = row]
  BY <1>1 DEF InsertKey
<1> QED BY <1>2, <1>3, <1>4

\* A new key finds its marketplace in the table.
LEMMA InsertKnown ==
  ASSUME AccessInv, KnownInv, [Next]_vars,
         NEW n \in Keys, NEW row \in Rows, keys' = [keys EXCEPT ![n] = row],
         market'[row.slug] # "absent", NEW k \in Keys, keys'[k] # NoKey
  PROVE  market'[keys'[k].slug] # "absent"
<1>1. CASE k = n
  BY <1>1 DEF AccessInv, TypeOK
<1>2. CASE k # n
  <2>1. keys'[k] = keys[k] /\ keys[k].slug \in Slugs
    BY <1>2 DEF AccessInv, TypeOK, Rows
  <2> QED BY <2>1, MarketsStay DEF KnownInv
<1> QED BY <1>1, <1>2

\* Who creates a key, and for which marketplace.
LEMMA CreateForm ==
  ASSUME AccessInv, NEW r \in Requests, Onboard(r) \/ AdminCreateKey(r) \/ CreateKey(r)
  PROVE  \E slug \in Slugs, grant \in (SUBSET Permissions) \ {{}}, by \in Keys :
           /\ InsertKey(slug, grant, by) /\ Grantable(slug, grant)
           /\ by = cred[r] /\ keys[by] # NoKey
           /\ \/ /\ Onboard(r) /\ market[slug] = "absent" /\ grant = {"manage"}
                 /\ market' = [market EXCEPT ![slug] = "active"]
                 /\ "admin" \in keys[by].grant
              \/ /\ AdminCreateKey(r) /\ market[slug] # "absent" /\ UNCHANGED market
                 /\ "admin" \in keys[by].grant
              \/ /\ CreateKey(r) /\ slug = keys[by].slug /\ UNCHANGED market
                 /\ "manage" \in keys[by].grant
<1>1. pc[r] = "work"
  BY DEF Onboard, AdminCreateKey, CreateKey, Is
<1>2. /\ cred[r] \in Keys /\ keys[cred[r]] # NoKey /\ keys[cred[r]] \in Rows
      /\ req[r] \in Asked
      /\ IsAdmin(r) => "admin" \in keys[cred[r]].grant
      /\ ~IsAdmin(r) => "manage" \in keys[cred[r]].grant
  BY <1>1, LetInMay
<1>3. /\ req[r].kind \in {"onboard", "adminCreate"} => req[r].slug \in Slugs
      /\ req[r].kind \in {"adminCreate", "create"} => req[r].grant \in (SUBSET Permissions) \ {{}}
  BY <1>2, AskedForms, AccessAssumption
<1>4. PICK by \in Keys : by = cred[r]
  BY <1>2
<1>5. CASE Onboard(r)
  <2>1. PICK slug \in Slugs : slug = req[r].slug
    BY <1>3, <1>5 DEF Onboard, Is
  <2>2. /\ IsAdmin(r) /\ market[slug] = "absent" /\ InsertKey(slug, {"manage"}, by)
        /\ market' = [market EXCEPT ![slug] = "active"]
    BY <1>4, <1>5, <2>1 DEF Onboard, CanOnboard, Is, IsAdmin
  <2>3. {"manage"} \in (SUBSET Permissions) \ {{}} /\ Grantable(slug, {"manage"})
    BY DEF Permissions, Grantable
  <2> QED BY <1>2, <1>4, <1>5, <2>2, <2>3
<1>6. CASE AdminCreateKey(r)
  <2>1. PICK slug \in Slugs, grant \in (SUBSET Permissions) \ {{}} :
          slug = req[r].slug /\ grant = req[r].grant
    BY <1>3, <1>6 DEF AdminCreateKey, Is
  <2>2. /\ IsAdmin(r) /\ market[slug] # "absent" /\ InsertKey(slug, grant, by)
        /\ Grantable(slug, grant) /\ UNCHANGED market
    BY <1>4, <1>6, <2>1 DEF AdminCreateKey, Is, IsAdmin
  <2> QED BY <1>2, <1>4, <1>6, <2>2
<1>7. CASE CreateKey(r)
  <2>1. PICK slug \in Slugs, grant \in (SUBSET Permissions) \ {{}} :
          slug = keys[cred[r]].slug /\ grant = req[r].grant
    BY <1>2, <1>3, <1>7 DEF CreateKey, Is, Rows
  <2>2. /\ ~IsAdmin(r) /\ InsertKey(slug, grant, by) /\ Grantable(slug, grant)
        /\ UNCHANGED market
    BY <1>4, <1>7, <2>1 DEF CreateKey, Is, IsAdmin
  <2> QED BY <1>2, <1>4, <1>7, <2>1, <2>2
<1> QED BY <1>5, <1>6, <1>7

\* Every step keeps KnownInv.
LEMMA KnownStep == AccessInv /\ KnownInv /\ [Next]_vars => KnownInv'
<1> SUFFICES ASSUME AccessInv, KnownInv, [Next]_vars PROVE KnownInv'
  OBVIOUS
<1>1. ASSUME NEW k \in Keys, keys'[k] # NoKey, keys[k] # NoKey, keys'[k].slug = keys[k].slug
      PROVE  market'[keys'[k].slug] # "absent"
  <2>1. keys[k].slug \in Slugs
    BY <1>1 DEF AccessInv, TypeOK, Rows
  <2> QED BY <1>1, <2>1, MarketsStay DEF KnownInv
<1>2. ASSUME UNCHANGED keys, NEW k \in Keys, keys'[k] # NoKey
      PROVE  market'[keys'[k].slug] # "absent"
  BY <1>1, <1>2
<1>3. ASSUME NEW gone \in SUBSET Keys, \A k \in gone : keys[k] # NoKey,
             keys' = [k \in Keys |-> IF k \in gone THEN [keys[k] EXCEPT !.deleted = TRUE]
                                                   ELSE keys[k]],
             NEW k \in Keys, keys'[k] # NoKey
      PROVE  market'[keys'[k].slug] # "absent"
  <2>1. keys[k] # NoKey /\ keys[k] \in Rows
    BY <1>3 DEF AccessInv, TypeOK
  <2>2. keys'[k].slug = keys[k].slug
    BY <1>3, <2>1 DEF Rows
  <2> QED BY <1>1, <1>3, <2>1, <2>2
<1>4. ASSUME NEW i \in Instances, Starting(i) PROVE KnownInv'
  <2>1. CASE SeedMarketplaces(i)
    <3>1. market'["csfloat"] # "absent" /\ UNCHANGED keys
      BY <2>1, AccessAssumption DEF SeedMarketplaces, AccessInv, TypeOK
    <3> QED BY <1>2, <3>1 DEF KnownInv
  <2>2. CASE SeedAdmin(i)
    <3>1. market' = market /\ market["csfloat"] # "absent" /\ InsertKey("csfloat", Permissions, Seeded)
      BY <2>2 DEF SeedAdmin, KnownInv
    <3>2. Permissions \in (SUBSET Permissions) \ {{}}
      BY DEF Permissions
    <3>3. PICK n \in Keys, row \in Rows :
            /\ row.slug = "csfloat" /\ row.grant = Permissions /\ row.by = Seeded
            /\ ~row.deleted /\ keys[n] = NoKey /\ keys' = [keys EXCEPT ![n] = row]
      BY <3>1, <3>2, InsertForm, AccessAssumption
    <3>4. \A k \in Keys : keys'[k] # NoKey => market'[keys'[k].slug] # "absent"
      BY <3>1, <3>3, InsertKnown
    <3> QED BY <3>1, <3>4 DEF KnownInv
  <2>3. CASE CheckAdmin(i) \/ Down(i)
    <3>1. UNCHANGED <<market, keys>>
      BY <2>3 DEF CheckAdmin, Down, tables
    <3>2. \A j \in Instances : boot'[j] # "down" => boot[j] # "down"
      BY <2>3 DEF CheckAdmin, Down, AccessInv, TypeOK
    <3> QED BY <3>1, <3>2 DEF KnownInv
  <2> QED BY <1>4, <2>1, <2>2, <2>3 DEF Starting
<1>5. ASSUME NEW r \in Requests, Handling(r), \A k \in Keys : keys'[k] # NoKey => market'[keys'[k].slug] # "absent"
      PROVE  KnownInv'
  <2>1. boot' = boot
    BY <1>5 DEF Handling, Arrive, LookUpKey, LookUpMarketplace, Unauthorized, Onboard,
       OnboardRead, UpdateMarketplace, DropKeys, DropMarketplace, AdminCreateKey, CreateKey,
       ReadForDelete, DeleteKey, Refused, Break, Refuse
  <2> QED BY <1>5, <2>1, MarketsStay, AccessAssumption DEF KnownInv
<1>6. ASSUME NEW r \in Requests, Handling(r), NEW k \in Keys, keys'[k] # NoKey
      PROVE  market'[keys'[k].slug] # "absent"
  <2>1. CASE Onboard(r) \/ AdminCreateKey(r) \/ CreateKey(r)
    <3>1. PICK slug \in Slugs, grant \in (SUBSET Permissions) \ {{}}, by \in Keys :
            /\ InsertKey(slug, grant, by) /\ keys[by] # NoKey
            /\ \/ market' = [market EXCEPT ![slug] = "active"]
               \/ market[slug] # "absent" /\ market' = market
               \/ slug = keys[by].slug /\ market' = market
      BY <2>1, CreateForm
    <3>2. market'[slug] # "absent"
      BY <3>1 DEF KnownInv, AccessInv, TypeOK
    <3>3. PICK n \in Keys, row \in Rows :
            /\ row.slug = slug /\ row.grant = grant /\ row.by = by
            /\ ~row.deleted /\ keys[n] = NoKey /\ keys' = [keys EXCEPT ![n] = row]
      BY <3>1, InsertForm
    <3> QED BY <1>6, <3>2, <3>3, InsertKnown
  <2>2. CASE DropMarketplace(r)
    <3>1. PICK gone : /\ gone = taken[r]
                      /\ keys' = [c \in Keys |-> IF c \in gone
                                                 THEN [keys[c] EXCEPT !.deleted = TRUE]
                                                 ELSE keys[c]]
      BY <2>2 DEF DropMarketplace
    <3>2. gone \in SUBSET Keys /\ \A c \in gone : keys[c] # NoKey
      BY <3>1 DEF AccessInv, TypeOK, RequestInv
    <3> QED BY <1>3, <1>6, <3>1, <3>2
  <2>3. CASE DeleteKey(r)
    <3>1. PICK id : id = req[r].id
      OBVIOUS
    <3>2. /\ id \in Keys /\ keys[id] # NoKey
          /\ keys' = [c \in Keys |-> IF c \in {id} THEN [keys[c] EXCEPT !.deleted = TRUE]
                                                   ELSE keys[c]]
      BY <2>3, <3>1, DeletedForm DEF LiveKey
    <3>3. {id} \in SUBSET Keys /\ \A c \in {id} : keys[c] # NoKey
      BY <3>2
    <3> QED BY <1>3, <1>6, <3>2, <3>3
  <2>4. CASE ~(Onboard(r) \/ AdminCreateKey(r) \/ CreateKey(r) \/ DropMarketplace(r) \/ DeleteKey(r))
    <3>1. UNCHANGED keys
      BY <1>6, <2>4 DEF Handling, Arrive, LookUpKey, LookUpMarketplace, Unauthorized,
         OnboardRead, UpdateMarketplace, DropKeys, ReadForDelete, Refused, Break, Refuse, tables
    <3> QED BY <1>2, <1>6, <3>1
  <2> QED BY <2>1, <2>2, <2>3, <2>4
<1>7. CASE UNCHANGED vars
  BY <1>7 DEF vars, KnownInv
<1> QED BY <1>4, <1>5, <1>6, <1>7 DEF Next

\* The terms of a key.
LEMMA TermsOf ==
  ASSUME NEW row \in Rows
  PROVE  /\ Terms(row) # NoKey
         /\ Terms(row).slug = row.slug /\ Terms(row).grant = row.grant
         /\ Terms(row).by = row.by
BY AccessAssumption DEF Terms

\* What the abstract state says of a key.
LEMMA RightsOf ==
  ASSUME TypeOK, NEW k \in Keys
  PROVE  /\ Rights!Exists(k) <=> keys[k] # NoKey
         /\ keys[k] # NoKey =>
              /\ Granted[k].slug = keys[k].slug /\ Granted[k].grant = keys[k].grant
              /\ Granted[k].by = keys[k].by
<1>1. Granted[k] = IF keys[k] = NoKey THEN NoKey ELSE Terms(keys[k])
  BY DEF Granted
<1>2. keys[k] # NoKey => keys[k] \in Rows
  BY DEF TypeOK
<1> QED BY <1>1, <1>2, TermsOf DEF Rights!Exists

\* The initial states have keys of the seed only.
LEMMA RightsInit == Init => Rights!Init
<1> SUFFICES ASSUME Init PROVE Rights!Init
  OBVIOUS
<1>1. AccessInv /\ KnownInv
  BY AccessInit, KnownInit
<1>2. PICK db \in FirstDatabases :
        keys = [k \in Keys |-> IF k <= Len(db.keys) THEN db.keys[k] ELSE NoKey]
  BY DEF Init
<1>3. db.keys \in Seq(Rows) /\ \A k \in 1..Len(db.keys) : db.keys[k].by = Seeded
  BY AccessAssumption
<1>4. ASSUME NEW k \in Keys, Rights!Exists(k)
      PROVE  /\ Granted[k].by = Seeded /\ Rights!OnlyCSFloatAdmin(Granted[k])
             /\ Rights!Known(Granted[k].slug)
  <2>1. /\ keys[k] # NoKey /\ Granted[k].slug = keys[k].slug
        /\ Granted[k].grant = keys[k].grant /\ Granted[k].by = keys[k].by
    BY <1>1, <1>4, RightsOf DEF AccessInv
  <2>2. k \in Nat /\ k >= 1 /\ Len(db.keys) \in Nat
    BY <1>3 DEF Keys
  <2>3. k \in 1..Len(db.keys) /\ keys[k] = db.keys[k]
    BY <1>2, <2>1, <2>2
  <2>4. keys[k].by = Seeded
    BY <1>3, <2>3
  <2>5. Grantable(keys[k].slug, keys[k].grant) /\ market[keys[k].slug] # "absent"
    BY <1>1, <2>1 DEF AccessInv, Lineage, KnownInv
  <2> QED BY <2>1, <2>4, <2>5 DEF Grantable, Rights!OnlyCSFloatAdmin, Rights!Known
<1>5. \A k \in Revoked : Rights!Exists(k)
  BY <1>1, RightsOf DEF AccessInv, Revoked
<1>6. Acted = [r \in Requests |-> NoKey]
  BY DEF Init, Acted
<1> QED BY <1>4, <1>5, <1>6 DEF Rights!Init

\* A new row is a grant.
LEMMA InsertGrants ==
  ASSUME AccessInv,
         NEW slug \in Slugs, NEW grant \in (SUBSET Permissions) \ {{}},
         NEW by \in Keys \cup {Seeded}, InsertKey(slug, grant, by)
  PROVE  \E n \in Keys :
           Rights!Grant(n, [slug |-> slug, grant |-> grant, by |-> by])
<1>1. PICK n \in Keys, row \in Rows :
        /\ row.slug = slug /\ row.grant = grant /\ row.by = by /\ ~row.deleted
        /\ keys[n] = NoKey /\ keys' = [keys EXCEPT ![n] = row]
  BY InsertForm
<1>2. PICK key : key = [slug |-> slug, grant |-> grant, by |-> by]
  OBVIOUS
<1>3. Terms(row) = key /\ key # NoKey /\ row # NoKey /\ ~row.deleted
  <2>1. Terms(row) = key
    BY <1>1, <1>2 DEF Terms
  <2> QED BY <1>1, <2>1, TermsOf, AccessAssumption
<1>4. keys'[n] = row /\ \A k \in Keys : k # n => keys'[k] = keys[k]
  BY <1>1 DEF AccessInv, TypeOK
<1>5. Granted' = [Granted EXCEPT ![n] = key]
  <2>1. Granted' = [k \in Keys |-> IF keys'[k] = NoKey THEN NoKey ELSE Terms(keys'[k])]
    BY DEF Granted, Terms
  <2>2. ASSUME NEW k \in Keys PROVE Granted'[k] = IF k = n THEN key ELSE Granted[k]
    BY <1>3, <1>4, <2>1 DEF Granted
  <2>3. Granted' = [k \in Keys |-> IF k = n THEN key ELSE Granted[k]]
    BY <2>1, <2>2
  <2> QED BY <2>3 DEF Granted
<1>6. Revoked' = Revoked
  BY <1>1, <1>3, <1>4 DEF Revoked
<1>7. ~Rights!Exists(n)
  BY <1>1, RightsOf DEF AccessInv
<1>8. Rights!Grant(n, key)
  BY <1>3, <1>5, <1>6, <1>7 DEF Rights!Grant
<1> QED BY <1>2, <1>8

\* Deleted rows are revoked keys.
LEMMA DeleteRevokes ==
  ASSUME AccessInv, NEW gone \in SUBSET Keys, \A k \in gone : keys[k] # NoKey,
         keys' = [k \in Keys |-> IF k \in gone THEN [keys[k] EXCEPT !.deleted = TRUE]
                                               ELSE keys[k]]
  PROVE  Granted' = Granted /\ Revoked' = Revoked \cup gone
<1>1. ASSUME NEW k \in Keys
      PROVE  /\ keys'[k] = NoKey <=> keys[k] = NoKey
             /\ keys[k] # NoKey => /\ Terms(keys'[k]) = Terms(keys[k])
                                   /\ keys'[k].deleted <=> keys[k].deleted \/ k \in gone
  <2>1. CASE k \in gone
    <3>1. PICK row : row = [keys[k] EXCEPT !.deleted = TRUE]
      OBVIOUS
    <3>2. keys[k] \in Rows /\ keys'[k] = row
      BY <2>1, <3>1 DEF AccessInv, TypeOK
    <3>3. /\ row \in Rows /\ row.deleted /\ row.slug = keys[k].slug
          /\ row.grant = keys[k].grant /\ row.by = keys[k].by
      BY <3>1, <3>2 DEF Rows
    <3>4. Terms(row) = Terms(keys[k])
      BY <3>3 DEF Terms
    <3> QED BY <2>1, <3>2, <3>3, <3>4, AccessAssumption
  <2>2. CASE k \notin gone
    BY <2>2
  <2> QED BY <2>1, <2>2
<1>2. Granted' = [k \in Keys |-> IF keys'[k] = NoKey THEN NoKey ELSE Terms(keys'[k])]
  BY DEF Granted, Terms
<1>3. ASSUME NEW k \in Keys
      PROVE  (IF keys'[k] = NoKey THEN NoKey ELSE Terms(keys'[k]))
               = (IF keys[k] = NoKey THEN NoKey ELSE Terms(keys[k]))
  BY <1>1
<1>4. Granted' = Granted
  BY <1>2, <1>3 DEF Granted
<1>5. Revoked' = Revoked \cup gone
  BY <1>1 DEF Revoked
<1> QED BY <1>4, <1>5

\* A step that commits nothing is nobody's act.
LEMMA ActedStays ==
  ASSUME applied' = applied, \A s \in applied : cred'[s] = cred[s]
  PROVE  Acted' = Acted
BY DEF Acted

\* A commit is an act of the key its request came with, the first.
LEMMA ActsOnce ==
  ASSUME AccessInv, NEW r \in Requests, pc[r] \in {"work", "drop", "delete"},
         applied' = applied \cup {r}, cred' = cred,
         NEW by \in Keys, by = cred[r], Rights!Change(by)
  PROVE  Rights!Next
<1>1. r \notin applied
  BY DEF AccessInv, RequestInv
<1>2. Acted' = [Acted EXCEPT ![r] = by]
  BY DEF Acted
<1>3. Acted[r] = NoKey
  BY <1>1 DEF Acted
<1>4. Rights!Act(r, by)
  BY <1>2, <1>3 DEF Rights!Act
<1> QED BY <1>4 DEF Rights!Next

\* Keys stay as they are.
LEMMA RightsStay ==
  ASSUME UNCHANGED keys
  PROVE  Granted' = Granted /\ Revoked' = Revoked
BY DEF Granted, Revoked, Terms

\* Who is served by a handler has its authority.
LEMMA RightsOfRequest ==
  ASSUME AccessInv, NEW r \in Requests, pc[r] \in {"work", "read", "drop", "delete"}
  PROVE  /\ cred[r] \in Keys
         /\ IsAdmin(r) => Rights!IsAdmin(cred[r])
         /\ ~IsAdmin(r) => Rights!MayManage(cred[r], keys[cred[r]].slug)
<1>1. /\ cred[r] \in Keys /\ keys[cred[r]] # NoKey
      /\ IsAdmin(r) => "admin" \in keys[cred[r]].grant
      /\ ~IsAdmin(r) => "manage" \in keys[cred[r]].grant
  BY LetInMay
<1>2. /\ Rights!Exists(cred[r]) /\ Granted[cred[r]].grant = keys[cred[r]].grant
      /\ Granted[cred[r]].slug = keys[cred[r]].slug
  BY <1>1, RightsOf DEF AccessInv
<1> QED BY <1>1, <1>2 DEF Rights!IsAdmin, Rights!MayManage

\* An instance that starts founds csfloat's marketplace, or seeds its first key.
LEMMA StartingRights ==
  ASSUME AccessInv, KnownInv, NEW i \in Instances, Starting(i)
  PROVE  Rights!Next \/ UNCHANGED Rights!vars
<1>0. Acted' = Acted
  BY ActedStays DEF Starting, SeedMarketplaces, CheckAdmin, SeedAdmin, Down
<1>1. CASE SeedMarketplaces(i)
  <2>1. Granted' = Granted /\ Revoked' = Revoked
    BY <1>1, RightsStay DEF SeedMarketplaces
  <2>2. CASE market["csfloat"] = "absent"
    <3>1. market' = [market EXCEPT !["csfloat"] = "active"]
      BY <1>1, <2>2 DEF SeedMarketplaces
    <3> QED BY <1>0, <2>1, <2>2, <3>1 DEF Rights!Next, Rights!Found, Rights!Known, Rights!SetMarket
  <2>3. CASE market["csfloat"] # "absent"
    <3>1. market' = market
      BY <1>1, <2>3 DEF SeedMarketplaces, AccessInv, TypeOK
    <3> QED BY <1>0, <2>1, <3>1 DEF Rights!vars
  <2> QED BY <2>2, <2>3
<1>2. CASE SeedAdmin(i)
  <2>1. InsertKey("csfloat", Permissions, Seeded) /\ market' = market /\ market["csfloat"] # "absent"
    BY <1>2 DEF SeedAdmin, KnownInv
  <2>2. Permissions \in (SUBSET Permissions) \ {{}}
    BY DEF Permissions
  <2>3. PICK n \in Keys :
          Rights!Grant(n, [slug |-> "csfloat", grant |-> Permissions, by |-> Seeded])
    BY <2>1, <2>2, InsertGrants, AccessAssumption
  <2> QED BY <1>0, <2>1, <2>3 DEF Rights!Next, Rights!SeedKey, Rights!Known
<1>3. CASE CheckAdmin(i) \/ Down(i)
  <2>1. UNCHANGED <<keys, market>>
    BY <1>3 DEF CheckAdmin, Down, tables
  <2> QED BY <1>0, <2>1, RightsStay DEF Rights!vars
<1> QED BY <1>1, <1>2, <1>3 DEF Starting

\* A key that is created is granted by the key its request came with.
LEMMA CreateRights ==
  ASSUME AccessInv, KnownInv, NEW r \in Requests, Onboard(r) \/ AdminCreateKey(r) \/ CreateKey(r)
  PROVE  Rights!Next
<1>1. PICK slug \in Slugs, grant \in (SUBSET Permissions) \ {{}}, by \in Keys :
        /\ InsertKey(slug, grant, by) /\ Grantable(slug, grant)
        /\ by = cred[r] /\ keys[by] # NoKey
        /\ \/ /\ market[slug] = "absent" /\ grant = {"manage"}
              /\ market' = [market EXCEPT ![slug] = "active"]
              /\ "admin" \in keys[by].grant
           \/ /\ market[slug] # "absent" /\ UNCHANGED market
              /\ "admin" \in keys[by].grant
           \/ /\ slug = keys[by].slug /\ UNCHANGED market
              /\ "manage" \in keys[by].grant
  BY CreateForm
<1>2. PICK key : key = [slug |-> slug, grant |-> grant, by |-> by]
  OBVIOUS
<1>3. PICK n \in Keys : Rights!Grant(n, key)
  BY <1>1, <1>2, InsertGrants
<1>4. /\ Rights!Exists(by) /\ Granted[by].grant = keys[by].grant
      /\ Granted[by].slug = keys[by].slug
  BY <1>1, RightsOf DEF AccessInv
<1>5. DOMAIN market = Slugs
  BY DEF AccessInv, TypeOK
<1>9. /\ pc[r] = "work" /\ applied' = applied \cup {r} /\ cred' = cred
  BY DEF Onboard, AdminCreateKey, CreateKey, Is, Commit
<1>6. CASE /\ market[slug] = "absent" /\ grant = {"manage"}
           /\ market' = [market EXCEPT ![slug] = "active"]
           /\ "admin" \in keys[by].grant
  <2>1. Rights!IsAdmin(by)
    BY <1>4, <1>6 DEF Rights!IsAdmin
  <2>2. Rights!OpenMarket(by, slug, n)
    BY <1>2, <1>3, <1>6, <2>1 DEF Rights!OpenMarket, Rights!Known, Rights!SetMarket
  <2>3. Rights!Change(by)
    BY <1>5, <2>2 DEF Rights!Change
  <2> QED BY <1>1, <1>9, <2>3, ActsOnce
<1>7. CASE /\ UNCHANGED market
           /\ \/ market[slug] # "absent" /\ "admin" \in keys[by].grant
              \/ slug = keys[by].slug /\ "manage" \in keys[by].grant
  <2>1. Granted'[n] = key
    BY <1>3 DEF Rights!Grant, Granted
  <2>2. Rights!MayManage(by, slug)
    BY <1>4, <1>7 DEF Rights!MayManage, Rights!IsAdmin
  <2>3. Rights!Known(slug)
    BY <1>1, <1>7 DEF Rights!Known, KnownInv
  <2>4. Rights!OnlyCSFloatAdmin(key)
    BY <1>1, <1>2 DEF Rights!OnlyCSFloatAdmin, Grantable
  <2>5. key.by = by /\ key.slug = slug
    BY <1>2
  <2>6. Rights!GrantKey(by, n)
    BY <1>3, <1>7, <2>1, <2>2, <2>3, <2>4, <2>5 DEF Rights!GrantKey
  <2>7. Rights!Change(by)
    BY <2>6 DEF Rights!Change
  <2> QED BY <1>1, <1>9, <2>7, ActsOnce
<1> QED BY <1>1, <1>6, <1>7

\* A marketplace is switched or closed by an admin's key.
LEMMA MarketRights ==
  ASSUME AccessInv, NEW r \in Requests, UpdateMarketplace(r) \/ DropMarketplace(r)
  PROVE  Rights!Next
<1>1. /\ pc[r] \in {"work", "drop"} /\ IsAdmin(r) /\ req[r].slug \in Slugs
      /\ DOMAIN market = Slugs
  BY AskedForms, LetInMay DEF UpdateMarketplace, DropMarketplace, Is, IsAdmin, AccessInv, TypeOK
<1>2. PICK by \in Keys : by = cred[r] /\ Rights!IsAdmin(by)
  BY <1>1, RightsOfRequest
<1>6. applied' = applied \cup {r} /\ cred' = cred
  BY DEF UpdateMarketplace, DropMarketplace, Commit
<1>3. PICK slug \in Slugs : slug = req[r].slug
  BY <1>1
<1>4. CASE UpdateMarketplace(r)
  <2>1. Granted' = Granted /\ Revoked' = Revoked
    BY <1>4, RightsStay DEF UpdateMarketplace
  <2>2. PICK state \in {"active", "inactive"} :
          /\ LiveMarket(slug) /\ market' = [market EXCEPT ![slug] = state]
          /\ slug = "csfloat" => state = "active"
    BY <1>3, <1>4 DEF UpdateMarketplace, CanUpdate
  <2>3. Rights!Switch(by, slug, state)
    BY <1>2, <2>1, <2>2 DEF Rights!Switch, Rights!Open, Rights!SetMarket, LiveMarket
  <2>4. Rights!Change(by)
    BY <1>1, <1>3, <2>3 DEF Rights!Change
  <2> QED BY <1>1, <1>2, <1>6, <2>4, ActsOnce
<1>5. CASE DropMarketplace(r)
  <2>1. PICK gone : /\ gone = taken[r]
                    /\ keys' = [k \in Keys |-> IF k \in gone
                                               THEN [keys[k] EXCEPT !.deleted = TRUE]
                                               ELSE keys[k]]
    BY <1>5 DEF DropMarketplace
  <2>2. gone \in SUBSET Keys /\ \A k \in gone : keys[k] # NoKey /\ keys[k].slug = slug
    BY <1>3, <1>5, <2>1 DEF DropMarketplace, Is, AccessInv, TypeOK, RequestInv
  <2>3. Granted' = Granted /\ Revoked' = Revoked \cup gone
    BY <2>1, <2>2, DeleteRevokes
  <2>4. \A k \in gone : Rights!Exists(k) /\ Granted[k].slug = slug
    BY <2>2, RightsOf DEF AccessInv
  <2>5. slug # "csfloat"
    BY <1>3, <1>5 DEF DropMarketplace, Is, AccessInv, RequestInv
  <2>6. LiveMarket(slug) /\ market' = [market EXCEPT ![slug] = "deleted"]
    BY <1>3, <1>5 DEF DropMarketplace
  <2>7. Rights!Close(by, slug)
    BY <1>2, <2>3, <2>4, <2>5, <2>6 DEF Rights!Close, Rights!Open, Rights!SetMarket, LiveMarket
  <2>8. Rights!Change(by)
    BY <1>1, <1>3, <2>7 DEF Rights!Change
  <2> QED BY <1>1, <1>2, <1>6, <2>8, ActsOnce
<1> QED BY <1>4, <1>5

\* A key is revoked by another one with authority over its marketplace.
LEMMA DeleteRights ==
  ASSUME AccessInv, NEW r \in Requests, DeleteKey(r)
  PROVE  Rights!Next
<1>1. /\ pc[r] = "delete" /\ IsDelete(r) /\ market' = market
      /\ applied' = applied \cup {r} /\ cred' = cred
  BY DEF DeleteKey, Commit
<1>2. PICK id : id = req[r].id
  OBVIOUS
<1>3. /\ id \in Keys /\ LiveKey(id)
      /\ keys' = [k \in Keys |-> IF k \in {id} THEN [keys[k] EXCEPT !.deleted = TRUE]
                                               ELSE keys[k]]
  BY <1>2, DeletedForm
<1>4. Granted' = Granted /\ Revoked' = Revoked \cup {id}
  <2>1. {id} \in SUBSET Keys /\ \A k \in {id} : keys[k] # NoKey
    BY <1>3 DEF LiveKey
  <2> QED BY <1>3, <2>1, DeleteRevokes
<1>5. Rights!Exists(id) /\ Granted[id].slug = keys[id].slug /\ id \notin Revoked
  BY <1>3, RightsOf DEF AccessInv, LiveKey, Revoked
<1>6. id # cred[r] /\ (req[r].kind = "delete" => keys[id].slug = keys[cred[r]].slug)
  BY <1>1, <1>2 DEF AccessInv, RequestInv
<1>7. PICK by \in Keys : by = cred[r] /\ Rights!MayManage(by, keys[id].slug)
  <2>1. CASE IsAdmin(r)
    BY <1>1, <2>1, RightsOfRequest DEF Rights!MayManage
  <2>2. CASE ~IsAdmin(r)
    BY <1>1, <1>6, <2>2, RightsOfRequest DEF IsAdmin, IsDelete
  <2> QED BY <2>1, <2>2
<1>8. Rights!Revoke(by, id)
  BY <1>1, <1>4, <1>5, <1>6, <1>7 DEF Rights!Revoke
<1>9. Rights!Change(by)
  BY <1>3, <1>8 DEF Rights!Change
<1> QED BY <1>1, <1>7, <1>9, ActsOnce

\* Every step is one of the authority's, or none.
LEMMA RightsStep == AccessInv /\ KnownInv /\ [Next]_vars => [Rights!Next]_(Rights!vars)
<1> SUFFICES ASSUME AccessInv, KnownInv, [Next]_vars
             PROVE  Rights!Next \/ UNCHANGED Rights!vars
  OBVIOUS
<1>1. CASE UNCHANGED <<keys, market>> /\ Acted' = Acted
  BY <1>1, RightsStay DEF Rights!vars
<1>2. ASSUME NEW i \in Instances, Starting(i) PROVE Rights!Next \/ UNCHANGED Rights!vars
  BY <1>2, StartingRights
<1>3. ASSUME NEW r \in Requests, Handling(r) PROVE Rights!Next \/ UNCHANGED Rights!vars
  <2>1. CASE \/ Onboard(r) \/ AdminCreateKey(r) \/ CreateKey(r)
             \/ UpdateMarketplace(r) \/ DropMarketplace(r) \/ DeleteKey(r)
    BY <2>1, CreateRights, MarketRights, DeleteRights
  <2>2. CASE ~(\/ Onboard(r) \/ AdminCreateKey(r) \/ CreateKey(r)
               \/ UpdateMarketplace(r) \/ DropMarketplace(r) \/ DeleteKey(r))
    <3>1. UNCHANGED <<keys, market, applied>>
      BY <1>3, <2>2 DEF Handling, Arrive, LookUpKey, LookUpMarketplace, Unauthorized,
         OnboardRead, DropKeys, ReadForDelete, Refused, Break, Refuse, tables
    <3>2. cred' = cred \/ (Arrive(r) /\ pc[r] = "new")
      BY <1>3, <2>2 DEF Handling, Arrive, LookUpKey, LookUpMarketplace, Unauthorized,
         OnboardRead, DropKeys, ReadForDelete, Refused, Break, Refuse
    <3>3. \A s \in applied : cred'[s] = cred[s]
      <4>1. CASE cred' = cred
        BY <4>1
      <4>2. CASE Arrive(r) /\ pc[r] = "new"
        <5>1. r \notin applied
          BY <4>2 DEF AccessInv, RequestInv
        <5> QED BY <4>2, <5>1 DEF Arrive, AccessInv, TypeOK
      <4> QED BY <3>2, <4>1, <4>2
    <3> QED BY <1>1, <3>1, <3>3, ActedStays
  <2> QED BY <2>1, <2>2
<1>4. CASE UNCHANGED vars
  BY <1>1, <1>4, ActedStays DEF vars
<1> QED BY <1>2, <1>3, <1>4 DEF Next

\* The handlers and the seeding implement the authority over keys: every change
\* is one act of the key its request came with, which has the authority for it.
THEOREM ImplementsAuthority == Spec => KeepsAuthority
<1>1. Spec => []KnownInv
  BY KnownInit, KnownStep, AccessInvariant, PTL DEF Spec
<1> QED
  BY <1>1, RightsInit, RightsStep, AccessInvariant, PTL
    DEF Spec, KeepsAuthority, Rights!Spec
=============================================================================
