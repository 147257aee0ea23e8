--------------------------- MODULE ReversalsProofs ---------------------------
(***************************************************************************)
(* Proofs about Reversals for any requests, accounts, marketplaces,        *)
(* batches and updates: what a client was told stands, audits and changes  *)
(* agree, only the owner or an admin expunges, sources stay consistent,    *)
(* and the table implements Registry.                                      *)
(***************************************************************************)
EXTENDS Reversals, TLAPS

-----------------------------------------------------------------------------
(* The invariant.                                                          *)

\* What is true of a request by what it has done: an acknowledged change is in
\* the table, or its report was erased, and its audit is written.
RequestInv(r) ==
  /\ pc[r] = "new" => req[r] = Nothing /\ r \notin applied
  /\ pc[r] # "new" => req[r] \in Asked
  /\ pc[r] # "done" => answer[r] = "none"
  /\ pc[r] \in {"audit", "read"} => r \in applied
  /\ pc[r] = "audit" => IsAdmin(r)
  /\ pc[r] = "read" => r \in audits
  /\ r \in audits => r \in applied
  /\ answer[r] = "ok" /\ IsAdmin(r) => r \in audits
  /\ pc[r] = "update" =>
       /\ req[r].kind = "expunge" /\ req[r].id < nextId
       /\ rows[req[r].id] # NoRow => rows[req[r].id].slug = req[r].slug
  /\ answer[r] = "ok" /\ req[r].kind = "expunge" =>
       /\ req[r].id < nextId
       /\ rows[req[r].id] # NoRow => rows[req[r].id].expungedBy # Nobody
  /\ (pc[r] = "audit" \/ answer[r] = "ok") /\ req[r].kind = "remove" =>
       /\ req[r].id < nextId
       /\ rows[req[r].id] # NoRow => rows[req[r].id].deleted

\* The identifiers to come are free.
FreshInv == \A id \in Ids : id >= nextId => rows[id] = NoRow

\* Who expunged a report has arrived.
ExpungerArrived ==
  \A id \in Ids :
    rows[id] # NoRow /\ rows[id].expungedBy # Nobody => pc[rows[id].expungedBy] # "new"

RevInv ==
  /\ TypeOK
  /\ \A r \in Requests : RequestInv(r)
  /\ FreshInv
  /\ ExpungerArrived
  /\ OwnerExpunges
  /\ SourceConsistent

-----------------------------------------------------------------------------
(* Facts about rows and requests.                                          *)

\* A row is not the absence of one.
LEMMA RowIsRow == \A row \in Rows : row # NoRow
BY DEF Rows, NoRow

\* What a request of a kind carries.
LEMMA AskedForms ==
  ASSUME NEW asked \in Asked
  PROVE  /\ asked.kind = "create" => asked.slug \in Slugs /\ asked.batch \in Batches
         /\ asked.kind = "expunge" => asked.slug \in Slugs /\ asked.id \in Ids
         /\ asked.kind = "modify" => asked.id \in Ids /\ asked.update \in Updates
         /\ asked.kind = "remove" => asked.id \in Ids
         /\ asked.kind = "erase" => asked.account \in Accounts
         /\ asked.kind \in {"create", "expunge", "modify", "remove", "erase"}
BY DEF Asked

\* A new row.
LEMMA RowForm ==
  ASSUME NEW report, report.account \in Accounts, report.source \in Sources,
         report.related \in BOOLEAN, NEW slug \in Slugs
  PROVE  /\ Row(report, slug) \in Rows
         /\ Row(report, slug).account = report.account
         /\ Row(report, slug).slug = slug
         /\ Row(report, slug).source = report.source
         /\ Row(report, slug).related = report.related
         /\ Row(report, slug).expungedBy = Nobody
         /\ Row(report, slug).deleted = FALSE
BY DEF Row, Rows

\* An update of a row.
LEMMA ModifiedForm ==
  ASSUME NEW row \in Rows, NEW u \in Updates, NEW r \in Requests
  PROVE  /\ Modified(row, u, r) \in Rows
         /\ Modified(row, u, r).account = row.account
         /\ Modified(row, u, r).slug = row.slug
         /\ Modified(row, u, r).deleted = row.deleted
         /\ Modified(row, u, r).expungedBy = IF u.expunge THEN r ELSE row.expungedBy
         /\ Modified(row, u, r).source = IF u.source = "keep" THEN row.source ELSE u.source
         /\ Modified(row, u, r).related = IF u.source = "keep" THEN row.related ELSE u.related
BY ReversalsAssumption DEF Modified, Rows

\* The invariant holds initially.
LEMMA RevInit == Init => RevInv
<1> SUFFICES ASSUME Init PROVE RevInv
  OBVIOUS
<1>1. ASSUME NEW id \in Ids
      PROVE  \/ rows[id] = NoRow /\ id > Len(FirstRows)
             \/ /\ rows[id] \in Rows /\ id <= Len(FirstRows)
                /\ ValidSource(rows[id].source, rows[id].related)
                /\ rows[id].expungedBy = Nobody
  <2>1. CASE id <= Len(FirstRows)
    <3>1. FirstRows[id] \in FiledForms
      BY <2>1, ReversalsAssumption DEF Ids
    <3>2. rows[id] = Row(FirstRows[id], FirstRows[id].slug)
      BY <2>1 DEF Init
    <3>3. /\ FirstRows[id].account \in Accounts /\ FirstRows[id].slug \in Slugs
          /\ FirstRows[id].source \in Sources /\ FirstRows[id].related \in BOOLEAN
          /\ ValidSource(FirstRows[id].source, FirstRows[id].related)
      BY <3>1 DEF FiledForms
    <3>4. PICK f : f = FirstRows[id]
      OBVIOUS
    <3>5. Row(f, f.slug) \in Rows /\ Row(f, f.slug).expungedBy = Nobody
          /\ Row(f, f.slug).source = f.source /\ Row(f, f.slug).related = f.related
      BY <3>3, <3>4, RowForm
    <3> QED BY <2>1, <3>2, <3>3, <3>4, <3>5 DEF ValidSource
  <2>2. CASE ~(id <= Len(FirstRows))
    <3>1. rows[id] = NoRow
      BY <2>2 DEF Init
    <3>2. id \in Nat /\ Len(FirstRows) \in Nat
      BY ReversalsAssumption DEF Ids
    <3> QED BY <2>2, <3>1, <3>2
  <2> QED BY <2>1, <2>2
<1>2. rows \in [Ids -> Rows \cup {NoRow}]
  BY <1>1 DEF Init
<1>3. nextId \in 1..(MaxId + 1) /\ nextId = Len(FirstRows) + 1
  BY ReversalsAssumption DEF Init
<1>4. TypeOK
  BY <1>2, <1>3 DEF Init, TypeOK
<1>5. ASSUME NEW r \in Requests PROVE RequestInv(r)
  BY DEF Init, RequestInv, IsAdmin
<1>6. FreshInv
  BY <1>1, <1>3, ReversalsAssumption DEF FreshInv, Ids
<1>7. ExpungerArrived /\ OwnerExpunges /\ SourceConsistent
  BY <1>1 DEF ExpungerArrived, OwnerExpunges, SourceConsistent
<1> QED BY <1>4, <1>5, <1>6, <1>7 DEF RevInv

-----------------------------------------------------------------------------
(* What a step may do to the table and to the requests.                    *)

\* A row goes its way: its subject stays, and what was done to it.
Onward(old, new) ==
  /\ new \in Rows
  /\ new.account = old.account /\ new.slug = old.slug
  /\ old.expungedBy # Nobody => new.expungedBy # Nobody
  /\ old.deleted => new.deleted

\* No identifier is used twice.
TableMoves ==
  /\ nextId' \in 1..(MaxId + 1) /\ nextId' >= nextId
  /\ \A id \in Ids :
       /\ rows[id] # NoRow => rows'[id] = NoRow \/ Onward(rows[id], rows'[id])
       /\ rows[id] = NoRow /\ id < nextId => rows'[id] = NoRow

\* A request that has no part in the step keeps what is true of it.
LEMMA OthersKeep ==
  ASSUME TypeOK, TableMoves, NEW s \in Requests, RequestInv(s),
         pc'[s] = pc[s], req'[s] = req[s], answer'[s] = answer[s],
         s \in audits' <=> s \in audits,
         s \in applied' <=> s \in applied
  PROVE  RequestInv(s)'
<1> DEFINE id == req[s].id
<1>1. CASE pc[s] = "new"
  BY <1>1, ReversalsAssumption DEF RequestInv, Nothing, IsAdmin
<1>2. CASE pc[s] # "new"
  <2>1. req[s] \in Asked
    BY <1>2 DEF RequestInv
  <2>2. req[s].kind \in {"expunge", "remove"} => id \in Ids
    BY <2>1, AskedForms
  <2>3. ASSUME id \in Ids, id < nextId
        PROVE  /\ id < nextId'
               /\ rows'[id] # NoRow => rows[id] # NoRow /\ Onward(rows[id], rows'[id])
    <3>1. id < nextId'
      BY <2>3, ReversalsAssumption DEF TableMoves, TypeOK, Ids
    <3> QED BY <2>3, <3>1 DEF TableMoves
  <2> HIDE DEF id
  <2>4. /\ pc'[s] = "update" =>
             /\ req'[s].kind = "expunge" /\ id < nextId'
             /\ rows'[id] # NoRow => rows'[id].slug = req[s].slug
        /\ answer'[s] = "ok" /\ req'[s].kind = "expunge" =>
             /\ id < nextId'
             /\ rows'[id] # NoRow => rows'[id].expungedBy # Nobody
        /\ (pc'[s] = "audit" \/ answer'[s] = "ok") /\ req'[s].kind = "remove" =>
             /\ id < nextId'
             /\ rows'[id] # NoRow => rows'[id].deleted
    BY <2>2, <2>3 DEF RequestInv, Onward, id
  <2> QED BY <1>2, <2>4 DEF RequestInv, IsAdmin, id
<1> QED BY <1>1, <1>2

\* Rows keep who expunged them, when a step changes none of them.
LEMMA RowsKeep ==
  ASSUME RevInv, UNCHANGED <<rows, nextId>>,
         \A s \in Requests : pc[s] # "new" => req'[s] = req[s] /\ pc'[s] # "new"
  PROVE  FreshInv' /\ ExpungerArrived' /\ OwnerExpunges' /\ SourceConsistent'
<1>1. FreshInv' /\ SourceConsistent'
  BY DEF RevInv, FreshInv, SourceConsistent
<1>2. ASSUME NEW id \in Ids, rows[id] # NoRow, rows[id].expungedBy # Nobody
      PROVE  /\ rows[id].expungedBy \in Requests
             /\ pc[rows[id].expungedBy] # "new"
  <2>1. rows[id] \in Rows
    BY <1>2 DEF RevInv, TypeOK
  <2> QED BY <1>2, <2>1 DEF RevInv, ExpungerArrived, Rows
<1>3. ExpungerArrived'
  BY <1>2 DEF ExpungerArrived
<1>4. OwnerExpunges'
  BY <1>2 DEF OwnerExpunges, RevInv
<1> QED BY <1>1, <1>3, <1>4

\* A step that leaves the table alone.
LEMMA QuietKeeps ==
  ASSUME RevInv, NEW r \in Requests, UNCHANGED <<rows, nextId>>, TypeOK', RequestInv(r)',
         \A s \in Requests \ {r} : /\ pc'[s] = pc[s] /\ req'[s] = req[s]
                                   /\ answer'[s] = answer[s]
                                   /\ s \in audits' <=> s \in audits
                                   /\ s \in applied' <=> s \in applied,
         pc[r] # "new" => req'[r] = req[r] /\ pc'[r] # "new"
  PROVE  RevInv'
<1>1. TableMoves
  BY DEF TableMoves, RevInv, TypeOK, Onward
<1>2. \A s \in Requests \ {r} : RequestInv(s)'
  BY <1>1, OthersKeep DEF RevInv
<1>3. FreshInv' /\ ExpungerArrived' /\ OwnerExpunges' /\ SourceConsistent'
  BY RowsKeep
<1> QED BY <1>2, <1>3 DEF RevInv

\* A step that changes rows: each keeps who expunged it, or the request did.
LEMMA ChangeKeeps ==
  ASSUME RevInv, NEW r \in Requests, pc[r] # "new", TableMoves, TypeOK', FreshInv',
         RequestInv(r)', req' = req, pc'[r] # "new",
         \A s \in Requests \ {r} : /\ pc'[s] = pc[s] /\ answer'[s] = answer[s]
                                   /\ s \in audits' <=> s \in audits
                                   /\ s \in applied' <=> s \in applied,
         \A id \in Ids : rows'[id] # NoRow =>
           /\ ValidSource(rows'[id].source, rows'[id].related)
           /\ \/ rows'[id].expungedBy = Nobody
              \/ /\ rows[id] # NoRow
                 /\ rows'[id].expungedBy = rows[id].expungedBy
              \/ /\ rows'[id].expungedBy = r
                 /\ req[r].kind \in {"expunge", "modify"} /\ req[r].id = id
                 /\ req[r].kind = "expunge" => req[r].slug = rows'[id].slug
  PROVE  RevInv'
<1>1. \A s \in Requests \ {r} : RequestInv(s)'
  BY OthersKeep DEF RevInv
<1>2. ASSUME NEW id \in Ids, rows[id] # NoRow, rows[id].expungedBy # Nobody
      PROVE  /\ rows[id].expungedBy \in Requests
             /\ pc'[rows[id].expungedBy] # "new"
  <2>1. rows[id] \in Rows
    BY <1>2 DEF RevInv, TypeOK
  <2> QED BY <1>2, <2>1 DEF RevInv, ExpungerArrived, Rows
<1>3. ExpungerArrived'
  BY <1>2 DEF ExpungerArrived
<1>4. OwnerExpunges'
  <2> SUFFICES ASSUME NEW id \in Ids, rows'[id] # NoRow, rows'[id].expungedBy # Nobody
               PROVE  /\ req[rows'[id].expungedBy].kind \in {"expunge", "modify"}
                      /\ req[rows'[id].expungedBy].id = id
                      /\ req[rows'[id].expungedBy].kind = "expunge"
                           => req[rows'[id].expungedBy].slug = rows'[id].slug
    BY DEF OwnerExpunges
  <2>1. CASE rows[id] # NoRow /\ rows'[id].expungedBy = rows[id].expungedBy
    BY <2>1 DEF OwnerExpunges, RevInv, TableMoves, Onward
  <2> QED BY <2>1
<1>5. SourceConsistent'
  BY DEF SourceConsistent
<1> QED BY <1>1, <1>3, <1>4, <1>5 DEF RevInv

\* A request that ends with an error, or no answer.
LEMMA ErrorKeeps ==
  ASSUME NEW r \in Requests, TypeOK, RequestInv(r), pc[r] # "new", req' = req,
         Answer(r, "error"), r \in audits' => r \in applied'
  PROVE  RequestInv(r)'
BY DEF TypeOK, RequestInv, Answer, IsAdmin

-----------------------------------------------------------------------------
(* The actions that leave the table alone.                                 *)

\* Arrive: the request has done nothing yet.
LEMMA ArriveKeeps ==
  ASSUME RevInv, NEW r \in Requests, Arrive(r)
  PROVE  RevInv'
<1> USE DEF RevInv
<1>1. /\ pc[r] = "new" /\ pc' = [pc EXCEPT ![r] = "start"]
      /\ UNCHANGED <<rows, nextId, audits, seen, applied, answer>>
  BY DEF Arrive, Goto
<1>2. PICK asked \in Asked : req' = [req EXCEPT ![r] = asked]
  BY DEF Arrive
<1>3. TypeOK'
  BY <1>1, <1>2 DEF TypeOK
<1>4. RequestInv(r)
  OBVIOUS
<1>5. RequestInv(r)'
  BY <1>1, <1>2, <1>4 DEF RequestInv, TypeOK, IsAdmin
<1>6. \A s \in Requests \ {r} : pc'[s] = pc[s] /\ req'[s] = req[s]
  BY <1>1, <1>2 DEF TypeOK
<1> QED BY <1>1, <1>3, <1>5, <1>6, QuietKeeps

\* Break, CreateRefused, AdminRefused: an error, and nothing else.
LEMMA RefusalKeeps ==
  ASSUME RevInv, NEW r \in Requests, Break(r) \/ CreateRefused(r) \/ AdminRefused(r)
  PROVE  RevInv'
<1> USE DEF RevInv
<1>1. /\ pc[r] # "new" /\ Answer(r, "error")
      /\ UNCHANGED <<rows, nextId, audits, req, seen, applied>>
  BY DEF Break, CreateRefused, AdminRefused, Is
<1>2. TypeOK'
  BY <1>1 DEF TypeOK, Answer
<1>3. RequestInv(r)'
  <2>1. RequestInv(r)
    OBVIOUS
  <2> QED BY <1>1, <2>1, ErrorKeeps DEF RequestInv
<1>4. \A s \in Requests \ {r} : pc'[s] = pc[s] /\ answer'[s] = answer[s]
  BY <1>1 DEF TypeOK, Answer
<1>5. pc'[r] # "new"
  BY <1>1 DEF TypeOK, Answer
<1> QED BY <1>1, <1>2, <1>3, <1>4, <1>5, QuietKeeps

\* ExpungeRead: the owner is checked on the row as it is.
LEMMA ExpungeReadKeeps ==
  ASSUME RevInv, NEW r \in Requests, ExpungeRead(r)
  PROVE  RevInv'
<1> USE DEF RevInv
<1> DEFINE id == req[r].id
<1>1. /\ pc[r] = "start" /\ req[r].kind = "expunge" /\ RequestInv(r)
      /\ UNCHANGED <<rows, nextId, audits, req, applied>>
  BY DEF ExpungeRead, Is
<1>2. id \in Ids
  BY <1>1, AskedForms DEF RequestInv
<1>3. CASE Live(id) /\ ExpungeAllowed(req[r].slug, rows[id])
  <2>1. /\ seen' = [seen EXCEPT ![r] = rows[id]]
        /\ pc' = [pc EXCEPT ![r] = "update"] /\ answer' = answer
    BY <1>3 DEF ExpungeRead, Goto
  <2>2. TypeOK'
    BY <1>1, <1>2, <2>1 DEF TypeOK
  <2>3. id < nextId
    BY <1>2, <1>3 DEF FreshInv, Live, TypeOK, Ids
  <2>4. RequestInv(r)'
    BY <1>1, <1>3, <2>1, <2>3 DEF RequestInv, ExpungeAllowed, TypeOK, IsAdmin
  <2>5. \A s \in Requests \ {r} : pc'[s] = pc[s]
    BY <2>1 DEF TypeOK
  <2>6. pc'[r] # "new"
    BY <2>1 DEF TypeOK
  <2> QED BY <1>1, <2>1, <2>2, <2>4, <2>5, <2>6, QuietKeeps
<1>4. CASE ~(Live(id) /\ ExpungeAllowed(req[r].slug, rows[id]))
  <2>1. Answer(r, "error") /\ seen' = seen
    BY <1>4 DEF ExpungeRead
  <2>2. TypeOK'
    BY <1>1, <2>1 DEF TypeOK, Answer
  <2>3. RequestInv(r)'
    BY <1>1, <2>1, ErrorKeeps DEF RequestInv
  <2>4. \A s \in Requests \ {r} : pc'[s] = pc[s] /\ answer'[s] = answer[s]
    BY <2>1 DEF TypeOK, Answer
  <2>5. pc'[r] # "new"
    BY <2>1 DEF TypeOK, Answer
  <2> QED BY <1>1, <2>2, <2>3, <2>4, <2>5, QuietKeeps
<1> QED BY <1>3, <1>4

\* Audit: the change it is of was made.
LEMMA AuditKeeps ==
  ASSUME RevInv, NEW r \in Requests, Audit(r)
  PROVE  RevInv'
<1> USE DEF RevInv
<1>1. /\ pc[r] = "audit" /\ RequestInv(r) /\ audits' = audits \cup {r}
      /\ UNCHANGED <<rows, nextId, req, seen, applied>>
  BY DEF Audit
<1>2. \/ pc' = [pc EXCEPT ![r] = "read"] /\ answer' = answer /\ req[r].kind = "modify"
      \/ pc' = [pc EXCEPT ![r] = "done"] /\ answer' = [answer EXCEPT ![r] = "ok"]
      \/ pc' = [pc EXCEPT ![r] = "done"] /\ answer' = [answer EXCEPT ![r] = "error"]
  BY DEF Audit, ProceedOr, Goto, Answer
<1>3. TypeOK'
  BY <1>1, <1>2 DEF TypeOK
<1>4. RequestInv(r)'
  <2>1. CASE pc'[r] = "read" /\ answer'[r] = answer[r]
    BY <1>1, <1>2, <2>1 DEF RequestInv, TypeOK, IsAdmin
  <2>2. CASE pc'[r] = "done" /\ answer'[r] \in {"ok", "error"}
    BY <1>1, <2>2 DEF RequestInv, TypeOK, IsAdmin
  <2> QED BY <1>2, <2>1, <2>2 DEF TypeOK
<1>5. \A s \in Requests \ {r} : /\ pc'[s] = pc[s] /\ req'[s] = req[s]
                                /\ answer'[s] = answer[s]
                                /\ s \in audits' <=> s \in audits
                                /\ s \in applied' <=> s \in applied
  BY <1>1, <1>2 DEF TypeOK
<1>6. pc'[r] # "new"
  BY <1>2 DEF TypeOK
<1> QED BY <1>1, <1>3, <1>4, <1>5, <1>6, QuietKeeps

\* ReadBack: only of a change that was audited.
LEMMA ReadBackKeeps ==
  ASSUME RevInv, NEW r \in Requests, ReadBack(r)
  PROVE  RevInv'
<1> USE DEF RevInv
<1>1. /\ pc[r] = "read" /\ RequestInv(r) /\ req[r].kind = "modify" /\ req[r].id \in Ids
      /\ UNCHANGED <<rows, nextId, audits, req, applied>>
  BY AskedForms DEF ReadBack, Is, RequestInv
<1>2. /\ pc' = [pc EXCEPT ![r] = "done"]
      /\ \/ answer' = [answer EXCEPT ![r] = "ok"]
         \/ answer' = [answer EXCEPT ![r] = "error"]
      /\ seen' \in {seen, [seen EXCEPT ![r] = rows[req[r].id]]}
  BY DEF ReadBack, Answer
<1>3. TypeOK'
  BY <1>1, <1>2 DEF TypeOK
<1>4. RequestInv(r)'
  BY <1>1, <1>2 DEF RequestInv, TypeOK, IsAdmin
<1>5. \A s \in Requests \ {r} : pc'[s] = pc[s] /\ answer'[s] = answer[s]
  BY <1>2 DEF TypeOK
<1>6. pc'[r] # "new"
  BY <1>2 DEF TypeOK
<1> QED BY <1>1, <1>3, <1>4, <1>5, <1>6, QuietKeeps

-----------------------------------------------------------------------------
(* The actions that change the table.                                      *)

\* One row goes its way.
LEMMA OneRowMoves ==
  ASSUME RevInv, NEW id \in Ids, rows[id] # NoRow, NEW new, Onward(rows[id], new),
         rows' = [rows EXCEPT ![id] = new], nextId' = nextId
  PROVE  /\ rows' \in [Ids -> Rows \cup {NoRow}]
         /\ rows'[id] = new /\ \A other \in Ids \ {id} : rows'[other] = rows[other]
         /\ id < nextId /\ TableMoves /\ FreshInv'
<1> USE DEF RevInv
<1>1. rows' \in [Ids -> Rows \cup {NoRow}]
  BY DEF TypeOK, Onward
<1>2. rows'[id] = new /\ \A other \in Ids \ {id} : rows'[other] = rows[other]
  BY DEF TypeOK
<1>3. id < nextId
  BY DEF FreshInv, TypeOK, Ids
<1>4. \A old \in Rows : Onward(old, old)
  BY DEF Onward
<1>5. TableMoves
  BY <1>2, <1>3, <1>4 DEF TableMoves, TypeOK
<1>6. FreshInv'
  BY <1>2, <1>3 DEF FreshInv, TypeOK, Ids
<1> QED BY <1>1, <1>2, <1>3, <1>5, <1>6

\* ExpungeCommit: the row may have changed since it was read, but not its owner.
LEMMA ExpungeCommitKeeps ==
  ASSUME RevInv, NEW r \in Requests, ExpungeCommit(r)
  PROVE  RevInv'
<1> USE DEF RevInv
<1>1. /\ pc[r] = "update" /\ req[r].kind = "expunge" /\ RequestInv(r)
      /\ UNCHANGED <<nextId, audits, req, seen>>
  BY DEF ExpungeCommit, Is
<1>2. PICK id \in Ids : id = req[r].id
  BY <1>1, AskedForms DEF RequestInv
<1>3. CASE ~UpdateFinds(id)
  <2>1. Answer(r, "error") /\ UNCHANGED <<rows, applied>>
    BY <1>2, <1>3 DEF ExpungeCommit
  <2>2. TypeOK'
    BY <1>1, <2>1 DEF TypeOK, Answer
  <2>3. RequestInv(r)'
    BY <1>1, <2>1, ErrorKeeps DEF RequestInv
  <2>4. \A s \in Requests \ {r} : pc'[s] = pc[s] /\ answer'[s] = answer[s]
    BY <2>1 DEF TypeOK, Answer
  <2>5. pc'[r] # "new"
    BY <2>1 DEF TypeOK, Answer
  <2> QED BY <1>1, <2>1, <2>2, <2>3, <2>4, <2>5, QuietKeeps
<1>4. CASE UpdateFinds(id)
  <2>1. rows[id] # NoRow /\ rows[id] \in Rows
    BY <1>4 DEF UpdateFinds, Live, TypeOK
  <2>2. PICK new : new = [rows[id] EXCEPT !.expungedBy = r]
    OBVIOUS
  <2>3. /\ new \in Rows /\ new.expungedBy = r /\ new.slug = rows[id].slug
        /\ new.account = rows[id].account /\ new.deleted = rows[id].deleted
        /\ new.source = rows[id].source /\ new.related = rows[id].related
    BY <2>1, <2>2 DEF Rows
  <2>4. Onward(rows[id], new)
    BY <2>3, ReversalsAssumption DEF Onward
  <2>5. /\ rows' = [rows EXCEPT ![id] = new] /\ applied' = applied \cup {r}
        /\ pc' = [pc EXCEPT ![r] = "done"]
        /\ \/ answer' = [answer EXCEPT ![r] = "ok"]
           \/ answer' = [answer EXCEPT ![r] = "error"]
    BY <1>2, <1>4, <2>2 DEF ExpungeCommit, UpdateFinds, ProceedOr, Answer
  <2>6. /\ rows' \in [Ids -> Rows \cup {NoRow}]
        /\ rows'[id] = new /\ \A other \in Ids \ {id} : rows'[other] = rows[other]
        /\ id < nextId /\ TableMoves /\ FreshInv'
    BY <1>1, <2>1, <2>4, <2>5, OneRowMoves
  <2>7. TypeOK'
    BY <1>1, <2>5, <2>6 DEF TypeOK
  <2>8. RequestInv(r)'
    <3>1. answer'[r] \in {"ok", "error"} /\ pc'[r] = "done"
      BY <2>5 DEF TypeOK
    <3>2. new.expungedBy # Nobody
      BY <2>3, ReversalsAssumption
    <3> QED BY <1>1, <1>2, <2>5, <2>6, <3>1, <3>2 DEF RequestInv, IsAdmin
  <2>9. \A s \in Requests \ {r} : /\ pc'[s] = pc[s] /\ answer'[s] = answer[s]
                                  /\ s \in audits' <=> s \in audits
                                  /\ s \in applied' <=> s \in applied
    BY <1>1, <2>5 DEF TypeOK
  <2>10. pc'[r] # "new" /\ pc[r] # "new"
    BY <1>1, <2>5 DEF TypeOK
  <2>11. \A other \in Ids : rows'[other] # NoRow =>
           /\ ValidSource(rows'[other].source, rows'[other].related)
           /\ \/ rows'[other].expungedBy = Nobody
              \/ /\ rows[other] # NoRow
                 /\ rows'[other].expungedBy = rows[other].expungedBy
              \/ /\ rows'[other].expungedBy = r
                 /\ req[r].kind \in {"expunge", "modify"} /\ req[r].id = other
                 /\ req[r].kind = "expunge" => req[r].slug = rows'[other].slug
    <3>1. req[r].slug = rows[id].slug
      BY <1>1, <1>2, <2>1 DEF RequestInv
    <3> QED BY <1>1, <1>2, <2>1, <2>3, <2>6, <3>1 DEF SourceConsistent, ValidSource
  <2> QED BY <1>1, <2>6, <2>7, <2>8, <2>9, <2>10, <2>11, ChangeKeeps
<1> QED BY <1>3, <1>4

\* What Modify, Remove and Erase have in common: the change, then the audit.
LEMMA AdminChanges ==
  ASSUME RevInv, NEW r \in Requests, Modify(r) \/ Remove(r) \/ Erase(r)
  PROVE  /\ pc[r] = "start" /\ IsAdmin(r) /\ RequestInv(r) /\ req[r] \in Asked
         /\ applied' = applied \cup {r} /\ UNCHANGED <<nextId, audits, req, seen>>
         /\ pc'[r] \in {"audit", "done"} /\ answer'[r] \in {"none", "error"}
         /\ pc'[r] = "audit" => answer'[r] = "none"
         /\ pc' \in [Requests -> {"new", "start", "update", "audit", "read", "done"}]
         /\ answer' \in [Requests -> {"none", "ok", "error"}]
         /\ \A s \in Requests \ {r} : /\ pc'[s] = pc[s] /\ answer'[s] = answer[s]
                                      /\ s \in audits' <=> s \in audits
                                      /\ s \in applied' <=> s \in applied
<1> USE DEF RevInv
<1>1. /\ pc[r] = "start" /\ IsAdmin(r) /\ RequestInv(r)
      /\ applied' = applied \cup {r} /\ UNCHANGED <<nextId, audits, req, seen>>
  BY DEF Modify, Remove, Erase, Is, IsAdmin
<1>2. \/ pc' = [pc EXCEPT ![r] = "audit"] /\ answer' = answer
      \/ pc' = [pc EXCEPT ![r] = "done"] /\ answer' = [answer EXCEPT ![r] = "error"]
  BY DEF Modify, Remove, Erase, ProceedOr, Goto, Answer
<1>3. answer[r] = "none" /\ req[r] \in Asked
  BY <1>1 DEF RequestInv
<1> QED BY <1>1, <1>2, <1>3 DEF TypeOK

\* Modify: whatever row the update finds, its source stays consistent.
LEMMA ModifyKeeps ==
  ASSUME RevInv, NEW r \in Requests, Modify(r)
  PROVE  RevInv'
<1> USE DEF RevInv
<1>1. /\ pc[r] = "start" /\ req[r].kind = "modify" /\ RequestInv(r) /\ req[r] \in Asked
      /\ applied' = applied \cup {r} /\ UNCHANGED <<nextId, audits, req, seen>>
  BY AdminChanges DEF Modify, Is
<1>2. PICK id \in Ids, u \in Updates : id = req[r].id /\ u = req[r].update
  BY <1>1, AskedForms
<1>3. /\ ValidUpdate(u) /\ rows[id] # NoRow /\ rows[id] \in Rows
      /\ rows' = [rows EXCEPT ![id] = Modified(rows[id], u, r)]
  BY <1>2 DEF Modify, Live, TypeOK
<1>4. PICK new : new = Modified(rows[id], u, r)
  OBVIOUS
<1>5. /\ new \in Rows
      /\ new.account = rows[id].account /\ new.slug = rows[id].slug
      /\ new.deleted = rows[id].deleted
      /\ new.expungedBy = IF u.expunge THEN r ELSE rows[id].expungedBy
      /\ new.source = IF u.source = "keep" THEN rows[id].source ELSE u.source
      /\ new.related = IF u.source = "keep" THEN rows[id].related ELSE u.related
  BY <1>3, <1>4, ModifiedForm
<1>6. Onward(rows[id], new)
  BY <1>5, ReversalsAssumption DEF Onward
<1>7. /\ rows' \in [Ids -> Rows \cup {NoRow}]
      /\ rows'[id] = new /\ \A other \in Ids \ {id} : rows'[other] = rows[other]
      /\ id < nextId /\ TableMoves /\ FreshInv'
  BY <1>1, <1>3, <1>4, <1>6, OneRowMoves
<1>8. TypeOK'
  BY <1>1, <1>7, AdminChanges DEF TypeOK
<1>9. RequestInv(r)'
  BY <1>1, AdminChanges DEF RequestInv, IsAdmin
<1>10. \A other \in Ids : rows'[other] # NoRow =>
         /\ ValidSource(rows'[other].source, rows'[other].related)
         /\ \/ rows'[other].expungedBy = Nobody
            \/ /\ rows[other] # NoRow
               /\ rows'[other].expungedBy = rows[other].expungedBy
            \/ /\ rows'[other].expungedBy = r
               /\ req[r].kind \in {"expunge", "modify"} /\ req[r].id = other
               /\ req[r].kind = "expunge" => req[r].slug = rows'[other].slug
  <2>1. ValidSource(new.source, new.related)
    BY <1>3, <1>5 DEF SourceConsistent, ValidUpdate, ValidSource
  <2>2. ASSUME NEW other \in Ids \ {id}, rows'[other] # NoRow
        PROVE  /\ ValidSource(rows'[other].source, rows'[other].related)
               /\ rows[other] # NoRow /\ rows'[other].expungedBy = rows[other].expungedBy
    BY <1>7, <2>2 DEF SourceConsistent, ValidSource
  <2>3. \/ new.expungedBy = rows[id].expungedBy
        \/ new.expungedBy = r
    BY <1>5
  <2> QED BY <1>1, <1>2, <1>3, <1>7, <2>1, <2>2, <2>3 DEF ValidSource
<1>11. pc'[r] # "new" /\ pc[r] # "new"
  BY AdminChanges
<1> QED BY <1>1, <1>7, <1>8, <1>9, <1>10, <1>11, AdminChanges, ChangeKeeps

\* Remove: the row is deleted when the audit is due.
LEMMA RemoveKeeps ==
  ASSUME RevInv, NEW r \in Requests, Remove(r)
  PROVE  RevInv'
<1> USE DEF RevInv
<1>1. /\ pc[r] = "start" /\ req[r].kind = "remove" /\ RequestInv(r) /\ req[r] \in Asked
      /\ applied' = applied \cup {r} /\ UNCHANGED <<nextId, audits, req, seen>>
  BY AdminChanges DEF Remove, Is
<1>2. PICK id \in Ids : id = req[r].id
  BY <1>1, AskedForms
<1>3. /\ rows[id] # NoRow /\ rows[id] \in Rows
      /\ rows' = [rows EXCEPT ![id] = [rows[id] EXCEPT !.deleted = TRUE]]
  BY <1>2 DEF Remove, Live, TypeOK
<1>4. PICK new : new = [rows[id] EXCEPT !.deleted = TRUE]
  OBVIOUS
<1>5. /\ new \in Rows
      /\ new.account = rows[id].account /\ new.slug = rows[id].slug
      /\ new.deleted = TRUE /\ new.expungedBy = rows[id].expungedBy
      /\ new.source = rows[id].source /\ new.related = rows[id].related
  BY <1>3, <1>4 DEF Rows
<1>6. Onward(rows[id], new)
  BY <1>5 DEF Onward
<1>7. /\ rows' \in [Ids -> Rows \cup {NoRow}]
      /\ rows'[id] = new /\ \A other \in Ids \ {id} : rows'[other] = rows[other]
      /\ id < nextId /\ TableMoves /\ FreshInv'
  BY <1>1, <1>3, <1>4, <1>6, OneRowMoves
<1>8. TypeOK'
  BY <1>1, <1>7, AdminChanges DEF TypeOK
<1>9. RequestInv(r)'
  BY <1>1, <1>2, <1>5, <1>7, AdminChanges DEF RequestInv, IsAdmin
<1>10. \A other \in Ids : rows'[other] # NoRow =>
         /\ ValidSource(rows'[other].source, rows'[other].related)
         /\ rows[other] # NoRow
         /\ rows'[other].expungedBy = rows[other].expungedBy
  BY <1>3, <1>5, <1>7 DEF SourceConsistent, ValidSource
<1>11. pc'[r] # "new" /\ pc[r] # "new"
  BY AdminChanges
<1> QED BY <1>1, <1>7, <1>8, <1>9, <1>10, <1>11, AdminChanges, ChangeKeeps

\* Erase: rows go, and their identifiers are not used again.
LEMMA EraseKeeps ==
  ASSUME RevInv, NEW r \in Requests, Erase(r)
  PROVE  RevInv'
<1> USE DEF RevInv
<1>1. /\ pc[r] = "start" /\ req[r].kind = "erase" /\ RequestInv(r) /\ req[r] \in Asked
      /\ applied' = applied \cup {r} /\ UNCHANGED <<nextId, audits, req, seen>>
  BY AdminChanges DEF Erase, Is
<1>2. /\ rows' \in [Ids -> Rows \cup {NoRow}]
      /\ \A id \in Ids : rows'[id] \in {NoRow, rows[id]}
  BY DEF Erase, TypeOK
<1>3. TableMoves
  <2>1. \A old \in Rows : Onward(old, old)
    BY DEF Onward
  <2> QED BY <1>1, <1>2, <2>1 DEF TableMoves, TypeOK
<1>4. FreshInv'
  BY <1>1, <1>2 DEF FreshInv
<1>5. TypeOK'
  BY <1>1, <1>2, AdminChanges DEF TypeOK
<1>6. RequestInv(r)'
  BY <1>1, AdminChanges DEF RequestInv, IsAdmin
<1>7. \A id \in Ids : rows'[id] # NoRow =>
        /\ ValidSource(rows'[id].source, rows'[id].related)
        /\ rows[id] # NoRow /\ rows'[id].expungedBy = rows[id].expungedBy
  BY <1>2 DEF SourceConsistent, ValidSource
<1>8. pc'[r] # "new" /\ pc[r] # "new"
  BY AdminChanges
<1> QED BY <1>1, <1>3, <1>4, <1>5, <1>6, <1>7, <1>8, AdminChanges, ChangeKeeps

\* What Create does to the table: rows of the batch, at identifiers that were free.
LEMMA NewRows ==
  ASSUME RevInv, NEW r \in Requests, Create(r),
         NEW batch \in Batches, batch = req[r].batch,
         NEW slug \in Slugs, slug = req[r].slug,
         NEW id \in Ids, id >= nextId, id < nextId + Len(batch)
  PROVE  /\ rows[id] = NoRow
         /\ rows'[id] \in Rows
         /\ rows'[id].account = batch[id - nextId + 1].account
         /\ rows'[id].slug = slug
         /\ rows'[id].expungedBy = Nobody
         /\ ~rows'[id].deleted
         /\ rows'[id].related <=> rows'[id].source = "related_user"
<1> USE DEF RevInv
<1>1. /\ Insertable(slug, batch)
      /\ rows' = [j \in Ids |-> IF j \in nextId..(nextId + Len(batch) - 1)
                                THEN Row(batch[j - nextId + 1], slug)
                                ELSE rows[j]]
  BY DEF Create
<1>2. batch \in Seq(ReportForms) /\ Len(batch) \in Nat /\ nextId \in Nat /\ id \in Nat
  BY ReversalsAssumption DEF TypeOK, Ids
<1>3. id \in nextId..(nextId + Len(batch) - 1) /\ rows[id] = NoRow
  BY <1>2 DEF FreshInv
<1>4. PICK k \in 1..Len(batch) : k = id - nextId + 1
  BY <1>2
<1>5. PICK report \in ReportForms : report = batch[k]
  BY <1>2
<1>6. rows'[id] = Row(report, slug)
  BY <1>1, <1>3, <1>4, <1>5
<1>7. /\ report.account \in Accounts /\ report.source \in Sources
      /\ report.related \in BOOLEAN
  BY DEF ReportForms
<1>8. ValidSource(report.source, report.related)
  BY <1>1, <1>5 DEF Insertable, ValidSource
<1>9. /\ Row(report, slug) \in Rows
      /\ Row(report, slug).account = report.account
      /\ Row(report, slug).slug = slug
      /\ Row(report, slug).source = report.source
      /\ Row(report, slug).related = report.related
      /\ Row(report, slug).expungedBy = Nobody
      /\ Row(report, slug).deleted = FALSE
  BY <1>7, RowForm
<1>10. rows'[id].related <=> rows'[id].source = "related_user"
  BY <1>6, <1>8, <1>9 DEF ValidSource
<1> QED BY <1>3, <1>4, <1>5, <1>6, <1>9, <1>10

\* All other identifiers keep theirs.
LEMMA OldRows ==
  ASSUME RevInv, NEW r \in Requests, Create(r), NEW id \in Ids,
         id < nextId \/ id >= nextId + Len(req[r].batch), Len(req[r].batch) \in Nat
  PROVE  rows'[id] = rows[id]
<1>1. rows' = [j \in Ids |-> IF j \in nextId..(nextId + Len(req[r].batch) - 1)
                            THEN Row(req[r].batch[j - nextId + 1], req[r].slug)
                            ELSE rows[j]]
  BY DEF Create
<1>2. nextId \in Nat /\ id \in Nat
  BY ReversalsAssumption DEF RevInv, TypeOK, Ids
<1> QED BY <1>1, <1>2

\* Together.
LEMMA CreateRows ==
  ASSUME RevInv, NEW r \in Requests, Create(r),
         NEW batch \in Batches, batch = req[r].batch,
         NEW slug \in Slugs, slug = req[r].slug,
         NEW id \in Ids
  PROVE  \/ rows'[id] = rows[id]
         \/ /\ rows[id] = NoRow /\ id >= nextId
            /\ rows'[id] \in Rows /\ rows'[id].expungedBy = Nobody
            /\ rows'[id].related <=> rows'[id].source = "related_user"
<1>1. Len(batch) \in Nat /\ nextId \in Nat /\ id \in Nat
  BY ReversalsAssumption DEF RevInv, TypeOK, Ids
<1>2. CASE id < nextId \/ id >= nextId + Len(batch)
  BY <1>1, <1>2, OldRows
<1>3. CASE id >= nextId /\ id < nextId + Len(batch)
  BY <1>3, NewRows
<1> QED BY <1>1, <1>2, <1>3

\* Create: the batch is inserted as a whole.
LEMMA CreateKeeps ==
  ASSUME RevInv, NEW r \in Requests, Create(r)
  PROVE  RevInv'
<1> USE DEF RevInv
<1>1. /\ pc[r] = "start" /\ req[r].kind = "create" /\ RequestInv(r)
      /\ applied' = applied \cup {r} /\ UNCHANGED <<audits, req, seen>>
  BY DEF Create, Is
<1>2. PICK batch \in Batches, slug \in Slugs : batch = req[r].batch /\ slug = req[r].slug
  BY <1>1, AskedForms DEF RequestInv
<1>3. /\ nextId' = nextId + Len(batch) /\ nextId + Len(batch) <= MaxId + 1
      /\ Len(batch) \in Nat /\ nextId \in Nat
  BY <1>2, ReversalsAssumption DEF Create, TypeOK
<1>4. /\ pc' = [pc EXCEPT ![r] = "done"]
      /\ \/ answer' = [answer EXCEPT ![r] = "ok"]
         \/ answer' = [answer EXCEPT ![r] = "error"]
  BY DEF Create, ProceedOr, Answer
<1>5. \A id \in Ids : \/ rows'[id] = rows[id]
                      \/ rows[id] = NoRow /\ id >= nextId
  <2> SUFFICES ASSUME NEW id \in Ids, rows'[id] # rows[id]
               PROVE  rows[id] = NoRow /\ id >= nextId
    OBVIOUS
  <2> QED BY <1>2, CreateRows
<1>6. rows' \in [Ids -> Rows \cup {NoRow}]
  <2>1. \A id \in Ids : rows'[id] \in Rows \cup {NoRow}
    BY <1>2, CreateRows DEF TypeOK
  <2>2. \E f : rows' = [id \in Ids |-> f[id]]
    BY DEF Create
  <2> QED BY <2>1, <2>2
<1>7. TableMoves
  <2>1. \A old \in Rows : Onward(old, old)
    BY DEF Onward
  <2>2. nextId' \in 1..(MaxId + 1) /\ nextId' >= nextId
    BY <1>3, ReversalsAssumption DEF TypeOK
  <2>3. \A id \in Ids : id < nextId => ~(id >= nextId)
    BY <1>3 DEF Ids
  <2> QED BY <1>5, <2>1, <2>2, <2>3 DEF TableMoves, TypeOK
<1>8. FreshInv'
  <2> SUFFICES ASSUME NEW id \in Ids, id >= nextId' PROVE rows'[id] = NoRow
    BY DEF FreshInv
  <2>1. id \in Nat /\ id >= nextId + Len(batch) /\ id >= nextId
    BY <1>3, ReversalsAssumption DEF Ids
  <2>2. ~(id < nextId + Len(batch)) /\ rows[id] = NoRow
    BY <1>3, <2>1 DEF FreshInv
  <2>3. rows'[id] = rows[id]
    BY <1>2, <1>3, <2>1, OldRows
  <2> QED BY <2>2, <2>3
<1>9. TypeOK'
  BY <1>1, <1>4, <1>6, <1>7 DEF TypeOK, TableMoves
<1>10. RequestInv(r)'
  BY <1>1, <1>4 DEF RequestInv, TypeOK, IsAdmin
<1>11. \A s \in Requests \ {r} : /\ pc'[s] = pc[s] /\ answer'[s] = answer[s]
                                 /\ s \in audits' <=> s \in audits
                                 /\ s \in applied' <=> s \in applied
  BY <1>1, <1>4 DEF TypeOK
<1>12. \A id \in Ids : rows'[id] # NoRow =>
         /\ ValidSource(rows'[id].source, rows'[id].related)
         /\ \/ rows'[id].expungedBy = Nobody
            \/ rows[id] # NoRow /\ rows'[id].expungedBy = rows[id].expungedBy
  <2> SUFFICES ASSUME NEW id \in Ids, rows'[id] # NoRow
               PROVE  /\ ValidSource(rows'[id].source, rows'[id].related)
                      /\ \/ rows'[id].expungedBy = Nobody
                         \/ /\ rows[id] # NoRow
                            /\ rows'[id].expungedBy = rows[id].expungedBy
    OBVIOUS
  <2>1. CASE rows'[id] = rows[id]
    BY <2>1 DEF SourceConsistent, ValidSource
  <2>2. CASE rows'[id] # rows[id]
    BY <1>2, <2>2, CreateRows DEF ValidSource
  <2> QED BY <2>1, <2>2
<1>13. pc'[r] # "new" /\ pc[r] # "new"
  BY <1>1, <1>4 DEF TypeOK
<1> QED BY <1>1, <1>7, <1>8, <1>9, <1>10, <1>11, <1>12, <1>13, ChangeKeeps

\* Every step keeps the invariant.
LEMMA RevStep == RevInv /\ [Next]_vars => RevInv'
<1> SUFFICES ASSUME RevInv, [Next]_vars PROVE RevInv'
  OBVIOUS
<1>1. ASSUME NEW r \in Requests, Arrive(r) \/ Step(r) \/ Break(r) PROVE RevInv'
  BY <1>1, ArriveKeeps, RefusalKeeps, ExpungeReadKeeps, AuditKeeps, ReadBackKeeps,
     ExpungeCommitKeeps, ModifyKeeps, RemoveKeeps, EraseKeeps, CreateKeeps DEF Step
<1>2. CASE UNCHANGED vars
  <2>1. TypeOK' /\ FreshInv' /\ ExpungerArrived' /\ OwnerExpunges' /\ SourceConsistent'
    BY <1>2 DEF RevInv, TypeOK, FreshInv, ExpungerArrived, OwnerExpunges,
                SourceConsistent, vars
  <2>2. \A r \in Requests : RequestInv(r)'
    BY <1>2 DEF RevInv, RequestInv, IsAdmin, vars
  <2> QED BY <2>1, <2>2 DEF RevInv
<1> QED BY <1>1, <1>2 DEF Next

-----------------------------------------------------------------------------
(* The theorems.                                                           *)

\* The inductive invariant holds in every reachable state.
THEOREM RevInvariant == Spec => []RevInv
BY RevInit, RevStep, PTL DEF Spec

\* The types of the variables.
THEOREM RevTypes == Spec => []TypeOK
<1>1. RevInv => TypeOK
  BY DEF RevInv
<1> QED BY <1>1, RevInvariant, PTL

\* What a client was told of its request stays true.
THEOREM SuccessStands == Spec => []AckedStands
<1>1. RevInv => AckedStands
  BY DEF RevInv, RequestInv, AckedStands
<1> QED BY <1>1, RevInvariant, PTL

\* Audits and changes agree.
THEOREM AuditsExact == Spec => []AuditTrail
<1>1. RevInv => AuditTrail
  BY DEF RevInv, RequestInv, AuditTrail, TypeOK
<1> QED BY <1>1, RevInvariant, PTL

\* Only the owner, or an admin, expunges.
THEOREM OnlyOwnerExpunges == Spec => []OwnerExpunges
<1>1. RevInv => OwnerExpunges
  BY DEF RevInv
<1> QED BY <1>1, RevInvariant, PTL

\* Sources and related accounts agree.
THEOREM SourcesAgree == Spec => []SourceConsistent
<1>1. RevInv => SourceConsistent
  BY DEF RevInv
<1> QED BY <1>1, RevInvariant, PTL

-----------------------------------------------------------------------------
(* The table implements Registry.                                          *)

reports == [id \in Ids |-> Report(id)]

Status(row) ==
  IF row.deleted THEN "removed"
  ELSE IF row.expungedBy # Nobody THEN "expunged" ELSE "reported"

Told(row) == [account |-> row.account, slug |-> row.slug, status |-> Status(row)]

\* A report as its readers see it.
LEMMA ReportForm ==
  ASSUME NEW id \in Ids, rows[id] \in Rows \cup {NoRow}
  PROVE  /\ rows[id] # NoRow =>
              /\ reports[id] = Told(rows[id]) /\ rows[id] \in Rows
              /\ reports[id].account = rows[id].account
              /\ reports[id].slug = rows[id].slug
              /\ reports[id].status = Status(rows[id])
              /\ Promise!Filed(id)
         /\ rows[id] = NoRow => ~Promise!Filed(id)
         /\ rows[id] = NoRow /\ id < nextId => reports[id] = Promise!Erased
         /\ rows[id] = NoRow /\ ~(id < nextId) => reports[id] = Promise!Unused
<1>1. CASE rows[id] # NoRow
  <2>1. reports[id] = Told(rows[id])
    BY <1>1 DEF reports, Report, Told, Status
  <2>2. /\ reports[id].account = rows[id].account
        /\ reports[id].slug = rows[id].slug
        /\ reports[id].status = Status(rows[id])
    BY <2>1 DEF Told
  <2>3. Status(rows[id]) \notin {"unused", "erased"}
    BY DEF Status
  <2> QED BY <1>1, <2>1, <2>2, <2>3 DEF Promise!Filed, reports
<1>2. CASE rows[id] = NoRow
  <2>1. reports[id] = [status |-> IF id < nextId THEN "erased" ELSE "unused"]
    BY <1>2 DEF reports, Report
  <2> QED BY <1>2, <2>1 DEF Promise!Filed, Promise!Erased, Promise!Unused, reports
<1> QED BY <1>1, <1>2

\* A step that leaves a row, and whether its identifier was used, leaves its report.
LEMMA ReportStays ==
  ASSUME NEW id \in Ids, rows'[id] = rows[id],
         rows[id] # NoRow \/ (id < nextId <=> id < nextId')
  PROVE  reports'[id] = reports[id]
BY DEF reports, Report

\* The first reports.
LEMMA InitReports == Init => Promise!Init
<1> SUFFICES ASSUME Init, NEW id \in Ids, Promise!Filed(id)
             PROVE  reports[id] \in [account : Accounts, slug : Slugs, status : {"reported"}]
  BY DEF Promise!Init, reports
<1>1. rows[id] \in Rows \cup {NoRow}
  BY RevInit DEF RevInv, TypeOK
<1>2. rows[id] # NoRow /\ rows[id] \in Rows /\ reports[id] = Told(rows[id])
  BY <1>1, ReportForm
<1>3. id <= Len(FirstRows)
  BY <1>2 DEF Init
<1>4. PICK f : f = FirstRows[id]
  OBVIOUS
<1>5. f \in FiledForms
  BY <1>3, <1>4, ReversalsAssumption DEF Ids
<1>6. /\ f.account \in Accounts /\ f.slug \in Slugs
      /\ f.source \in Sources /\ f.related \in BOOLEAN
  BY <1>5 DEF FiledForms
<1>7. rows[id] = Row(f, f.slug)
  BY <1>3, <1>4 DEF Init
<1>8. /\ Row(f, f.slug).account = f.account /\ Row(f, f.slug).slug = f.slug
      /\ Row(f, f.slug).expungedBy = Nobody /\ Row(f, f.slug).deleted = FALSE
  BY <1>6, RowForm
<1> QED BY <1>2, <1>6, <1>7, <1>8 DEF Told, Status

\* One row that goes its way is a report that gets a status.
LEMMA OneReportMoves ==
  ASSUME RevInv, NEW id \in Ids, rows[id] # NoRow, NEW new, Onward(rows[id], new),
         rows' = [rows EXCEPT ![id] = new], nextId' = nextId
  PROVE  reports' = [reports EXCEPT ![id].status = Status(new)]
<1>1. rows[id] \in Rows /\ rows'[id] = new /\ new \in Rows /\ new # NoRow
  BY RowIsRow DEF RevInv, TypeOK, Onward
<1>2. reports[id] = Told(rows[id])
  BY <1>1, ReportForm
<1>3. reports'[id] = Told(new)
  BY <1>1 DEF reports, Report, Told, Status
<1>4. Told(new) = [Told(rows[id]) EXCEPT !.status = Status(new)]
  BY DEF Told, Onward
<1>5. \A other \in Ids \ {id} : reports'[other] = reports[other]
  BY DEF RevInv, TypeOK, reports, Report
<1>6. reports' = [reports EXCEPT ![id] = Told(new)]
  BY <1>3, <1>5 DEF reports
<1>7. [reports EXCEPT ![id].status = Status(new)]
        = [reports EXCEPT ![id] = [reports[id] EXCEPT !.status = Status(new)]]
  OBVIOUS
<1> QED BY <1>2, <1>4, <1>6, <1>7

\* A row that is not deleted becomes an expunged one, or was already.
LEMMA ExpungeReports ==
  ASSUME RevInv, NEW id \in Ids, Live(id), NEW new, Onward(rows[id], new),
         ~new.deleted, new.expungedBy # Nobody,
         rows' = [rows EXCEPT ![id] = new], nextId' = nextId
  PROVE  Promise!Next \/ UNCHANGED reports
<1>1. /\ rows[id] # NoRow /\ rows[id] \in Rows /\ ~rows[id].deleted
      /\ reports[id].status = Status(rows[id]) /\ Promise!Filed(id)
  BY ReportForm DEF Live, RevInv, TypeOK
<1>2. reports' = [reports EXCEPT ![id].status = "expunged"]
  BY <1>1, OneReportMoves DEF Status
<1>3. CASE rows[id].expungedBy = Nobody
  <2>1. Status(rows[id]) = "reported"
    BY <1>1, <1>3 DEF Status
  <2>2. Promise!Expunge(id)
    BY <1>1, <1>2, <2>1 DEF Promise!Expunge, Promise!Standing, Promise!Move, reports
  <2> QED BY <2>2 DEF Promise!Next
<1>4. CASE rows[id].expungedBy # Nobody
  <2>1. reports[id].status = "expunged"
    BY <1>1, <1>4 DEF Status
  <2>2. reports[id] = Told(rows[id])
    BY <1>1, ReportForm
  <2>3. [reports[id] EXCEPT !.status = "expunged"] = reports[id]
    BY <2>1, <2>2 DEF Told
  <2>4. [reports EXCEPT ![id].status = "expunged"] = reports
    BY <2>3 DEF reports
  <2> QED BY <1>2, <2>4
<1> QED BY <1>3, <1>4

\* ExpungeCommit is Expunge, or changes nothing its readers see.
LEMMA ExpungeCommitReports ==
  ASSUME RevInv, NEW r \in Requests, ExpungeCommit(r)
  PROVE  Promise!Next \/ UNCHANGED reports
<1>1. /\ pc[r] = "update" /\ req[r].kind = "expunge" /\ req[r] \in Asked
      /\ nextId' = nextId
  BY DEF ExpungeCommit, Is, RevInv, RequestInv
<1>2. PICK id \in Ids : id = req[r].id
  BY <1>1, AskedForms
<1>3. CASE Live(id)
  <2>1. rows[id] \in Rows /\ rows' = [rows EXCEPT ![id] = [rows[id] EXCEPT !.expungedBy = r]]
    BY <1>2, <1>3 DEF ExpungeCommit, UpdateFinds, Live, RevInv, TypeOK
  <2>2. PICK new : new = [rows[id] EXCEPT !.expungedBy = r]
    OBVIOUS
  <2>3. Onward(rows[id], new) /\ ~new.deleted /\ new.expungedBy # Nobody
    BY <1>3, <2>1, <2>2, ReversalsAssumption DEF Onward, Rows, Live
  <2> QED BY <1>1, <1>3, <2>1, <2>2, <2>3, ExpungeReports
<1>4. CASE ~Live(id)
  <2>1. rows' = rows
    BY <1>2, <1>4 DEF ExpungeCommit, UpdateFinds
  <2> QED BY <1>1, <2>1 DEF reports, Report
<1> QED BY <1>3, <1>4

\* Modify is Expunge if the update says so, or changes nothing its readers see.
LEMMA ModifyReports ==
  ASSUME RevInv, NEW r \in Requests, Modify(r)
  PROVE  Promise!Next \/ UNCHANGED reports
<1>1. /\ req[r].kind = "modify" /\ req[r] \in Asked /\ nextId' = nextId
  BY AdminChanges DEF Modify, Is
<1>2. PICK id \in Ids, u \in Updates : id = req[r].id /\ u = req[r].update
  BY <1>1, AskedForms
<1>3. /\ Live(id) /\ rows[id] \in Rows
      /\ rows' = [rows EXCEPT ![id] = Modified(rows[id], u, r)]
  BY <1>2 DEF Modify, Live, RevInv, TypeOK
<1>4. PICK new : new = Modified(rows[id], u, r)
  OBVIOUS
<1>5. /\ new \in Rows
      /\ new.account = rows[id].account /\ new.slug = rows[id].slug
      /\ new.deleted = rows[id].deleted
      /\ new.expungedBy = IF u.expunge THEN r ELSE rows[id].expungedBy
  BY <1>3, <1>4, ModifiedForm
<1>6. Onward(rows[id], new) /\ ~new.deleted /\ rows[id] # NoRow
  BY <1>3, <1>5, ReversalsAssumption DEF Onward, Live
<1>7. CASE new.expungedBy # Nobody
  BY <1>1, <1>3, <1>4, <1>6, <1>7, ExpungeReports
<1>8. CASE new.expungedBy = Nobody
  <2>1. rows[id].expungedBy = Nobody
    BY <1>6, <1>8 DEF Onward
  <2>2. Told(new) = Told(rows[id])
    BY <1>5, <1>8, <2>1 DEF Told, Status
  <2>3. rows'[id] = new /\ new # NoRow
    BY <1>3, <1>4, <1>5, RowIsRow DEF RevInv, TypeOK
  <2>4. reports'[id] = Told(new)
    BY <2>3 DEF reports, Report, Told, Status
  <2>5. reports[id] = Told(rows[id])
    BY <1>3, <1>6, ReportForm
  <2>6. \A other \in Ids \ {id} : reports'[other] = reports[other]
    BY <1>1, <1>3 DEF RevInv, TypeOK, reports, Report
  <2>7. \A other \in Ids : reports'[other] = reports[other]
    BY <2>2, <2>4, <2>5, <2>6
  <2> QED BY <2>7 DEF reports
<1> QED BY <1>7, <1>8

\* Remove is Remove.
LEMMA RemoveReports ==
  ASSUME RevInv, NEW r \in Requests, Remove(r)
  PROVE  Promise!Next
<1>1. /\ req[r].kind = "remove" /\ req[r] \in Asked /\ nextId' = nextId
  BY AdminChanges DEF Remove, Is
<1>2. PICK id \in Ids : id = req[r].id
  BY <1>1, AskedForms
<1>3. /\ Live(id) /\ rows[id] \in Rows /\ rows[id] # NoRow
      /\ rows' = [rows EXCEPT ![id] = [rows[id] EXCEPT !.deleted = TRUE]]
  BY <1>2 DEF Remove, Live, RevInv, TypeOK
<1>4. PICK new : new = [rows[id] EXCEPT !.deleted = TRUE]
  OBVIOUS
<1>5. Onward(rows[id], new) /\ new.deleted
  BY <1>3, <1>4 DEF Rows, Onward
<1>6. reports' = [reports EXCEPT ![id].status = "removed"]
  BY <1>1, <1>3, <1>4, <1>5, OneReportMoves DEF Status
<1>7. Promise!Filed(id) /\ reports[id].status = Status(rows[id])
  BY <1>3, ReportForm
<1>8. Status(rows[id]) # "removed"
  BY <1>3 DEF Live, Status
<1>9. Promise!Remove(id)
  BY <1>6, <1>7, <1>8 DEF Promise!Remove, Promise!Standing, Promise!Move, reports
<1> QED BY <1>9 DEF Promise!Next

\* Erase is Erase.
LEMMA EraseReports ==
  ASSUME RevInv, NEW r \in Requests, Erase(r)
  PROVE  Promise!Next
<1>1. /\ req[r].kind = "erase" /\ req[r] \in Asked /\ nextId' = nextId
  BY AdminChanges DEF Erase, Is
<1>2. PICK a \in Accounts : a = req[r].account
  BY <1>1, AskedForms
<1>3. ASSUME NEW id \in Ids
      PROVE  reports'[id] = IF Promise!Filed(id) /\ reports[id].account = a
                            THEN Promise!Erased ELSE reports[id]
  <2>1. rows[id] \in Rows \cup {NoRow}
    BY DEF RevInv, TypeOK
  <2>2. CASE rows[id] # NoRow /\ rows[id].account = a
    <3>1. rows'[id] = NoRow
      BY <1>2, <2>2 DEF Erase, Doomed
    <3>2. id < nextId'
      BY <1>1, <2>2 DEF RevInv, FreshInv, TypeOK, Ids
    <3>3. reports'[id] = Promise!Erased
      BY <3>1, <3>2 DEF reports, Report, Promise!Erased
    <3> QED BY <2>1, <2>2, <3>3, ReportForm
  <2>3. CASE rows[id] # NoRow /\ rows[id].account # a
    <3>1. rows'[id] = rows[id]
      BY <1>2, <2>3 DEF Erase, Doomed
    <3> QED BY <2>1, <2>3, <3>1, ReportForm, ReportStays
  <2>4. CASE rows[id] = NoRow
    <3>1. rows'[id] = rows[id]
      BY <2>4 DEF Erase, Doomed
    <3> QED BY <1>1, <2>1, <2>4, <3>1, ReportForm, ReportStays
  <2> QED BY <2>2, <2>3, <2>4
<1>4. reports' = [id \in Ids |-> IF Promise!Filed(id) /\ reports[id].account = a
                                THEN Promise!Erased ELSE reports[id]]
  BY <1>3 DEF reports
<1>5. Promise!Erase(a)
  BY <1>4 DEF Promise!Erase, reports
<1> QED BY <1>5 DEF Promise!Next

\* Create is File of the batch, if it is not empty.
LEMMA CreateReports ==
  ASSUME RevInv, NEW r \in Requests, Create(r)
  PROVE  Promise!Next \/ UNCHANGED reports
<1>1. req[r].kind = "create" /\ req[r] \in Asked
  BY DEF Create, Is, RevInv, RequestInv
<1>2. PICK batch \in Batches, slug \in Slugs : batch = req[r].batch /\ slug = req[r].slug
  BY <1>1, AskedForms
<1>3. /\ nextId' = nextId + Len(batch) /\ Len(batch) \in Nat /\ nextId \in Nat
      /\ batch \in Seq(ReportForms) /\ Insertable(slug, batch)
      /\ nextId + Len(batch) <= MaxId + 1
  BY <1>2, ReversalsAssumption DEF Create, RevInv, TypeOK
<1> DEFINE new == {id \in Ids : id >= nextId /\ id < nextId + Len(batch)}
<1>4. ASSUME NEW id \in new
      PROVE  /\ reports[id] = Promise!Unused
             /\ reports'[id] = [account |-> batch[id - nextId + 1].account,
                                slug |-> slug, status |-> "reported"]
             /\ id - nextId + 1 \in 1..Len(batch)
             /\ reports'[id].account = batch[id - nextId + 1].account
             /\ reports'[id].slug = slug
             /\ reports'[id] \in [account : Accounts, slug : Slugs, status : {"reported"}]
  <2>1. id \in Nat /\ id \in Ids /\ id >= nextId /\ id < nextId + Len(batch)
    BY <1>3, ReversalsAssumption DEF Ids
  <2>2. PICK k \in 1..Len(batch) : k = id - nextId + 1
    BY <1>3, <2>1
  <2>3. /\ rows[id] = NoRow /\ rows'[id] \in Rows /\ rows'[id] # NoRow
        /\ rows'[id].account = batch[k].account /\ rows'[id].slug = slug
        /\ rows'[id].expungedBy = Nobody /\ ~rows'[id].deleted
    BY <1>2, <2>1, <2>2, NewRows, RowIsRow
  <2>4. reports[id] = Promise!Unused
    <3>1. ~(id < nextId)
      BY <1>3, <2>1
    <3> QED BY <2>1, <2>3, <3>1, ReportForm
  <2>5. reports'[id] = [account |-> batch[k].account, slug |-> slug, status |-> "reported"]
    BY <2>1, <2>3 DEF reports, Report
  <2>6. batch[k] \in ReportForms
    BY <1>3, <2>2
  <2>7. batch[k].account \in Accounts
    BY <2>6 DEF ReportForms
  <2> QED BY <2>2, <2>4, <2>5, <2>7
<1>5. ASSUME NEW id \in Ids \ new PROVE reports'[id] = reports[id]
  <2>1. id \in Nat /\ (id < nextId \/ id >= nextId + Len(batch))
    BY <1>3, ReversalsAssumption DEF Ids
  <2>2. id < nextId <=> id < nextId'
    BY <1>3, <2>1
  <2>3. rows'[id] = rows[id]
    BY <1>2, <1>3, <2>1, OldRows
  <2> QED BY <2>2, <2>3, ReportStays
<1>6. CASE new = {}
  <2>1. \A id \in Ids : reports'[id] = reports[id]
    BY <1>5, <1>6
  <2> QED BY <2>1 DEF reports
<1>7. CASE new # {}
  <2>1. \A id \in new : reports'[id] \in [account : Accounts, slug : Slugs,
                                          status : {"reported"}]
    BY <1>4
  <2>2. ASSUME NEW id \in new, NEW other \in new, id # other
        PROVE  reports'[id].account # reports'[other].account
    <3>1. /\ id \in Nat /\ other \in Nat
          /\ id - nextId + 1 # other - nextId + 1
      BY <1>3, <2>2, ReversalsAssumption DEF Ids
    <3>2. batch[id - nextId + 1].account # batch[other - nextId + 1].account
      BY <1>3, <1>4, <3>1 DEF Insertable
    <3> QED BY <1>4, <3>2
  <2>3. ASSUME NEW id \in new, NEW old \in Ids, Promise!Standing(old)
        PROVE  ~(/\ reports'[id].account = reports[old].account
                 /\ reports'[id].slug = reports[old].slug)
    <3>1. rows[old] \in Rows \cup {NoRow}
      BY DEF RevInv, TypeOK
    <3>2. /\ rows[old] # NoRow /\ reports[old].status = Status(rows[old])
          /\ reports[old].account = rows[old].account /\ reports[old].slug = rows[old].slug
      BY <2>3, <3>1, ReportForm DEF Promise!Standing
    <3>3. Live(old)
      BY <2>3, <3>2 DEF Promise!Standing, Status, Live, reports
    <3>4. ~(rows[old].account = batch[id - nextId + 1].account /\ rows[old].slug = slug)
      BY <1>3, <1>4, <3>3 DEF Insertable
    <3> QED BY <1>4, <3>2, <3>4
  <2>4. Promise!File(new)
    <3>1. \A id \in new : reports[id] = Promise!Unused
      BY <1>4
    <3>2. \A id \in Ids \ new : reports'[id] = reports[id]
      BY <1>5
    <3>3. \A id, other \in new :
            /\ reports'[id].slug = reports'[other].slug
            /\ id # other => ~Promise!SameSubject(reports'[id], reports'[other])
      BY <1>4, <2>2 DEF Promise!SameSubject
    <3>4. \A id \in new, old \in Ids :
            Promise!Standing(old) => ~Promise!SameSubject(reports'[id], reports[old])
      BY <2>3 DEF Promise!SameSubject
    <3> HIDE DEF new
    <3> QED BY <2>1, <3>1, <3>2, <3>3, <3>4 DEF Promise!File, reports
  <2>5. new \in (SUBSET Ids) \ {{}}
    BY <1>7
  <2> QED BY <2>4, <2>5 DEF Promise!Next
<1> QED BY <1>6, <1>7

\* Every step is a step of the registry, or none.
LEMMA RegistryStep == RevInv /\ [Next]_vars => [Promise!Next]_reports
<1> SUFFICES ASSUME RevInv, [Next]_vars
             PROVE  Promise!Next \/ UNCHANGED reports
  OBVIOUS
<1>1. CASE UNCHANGED <<rows, nextId>>
  BY <1>1 DEF reports, Report
<1>2. ASSUME NEW r \in Requests, Arrive(r) \/ Break(r)
      PROVE  UNCHANGED <<rows, nextId>>
  BY <1>2 DEF Arrive, Break
<1>3. ASSUME NEW r \in Requests, Step(r)
      PROVE  Promise!Next \/ UNCHANGED reports
  <2>1. CASE CreateRefused(r) \/ ExpungeRead(r) \/ AdminRefused(r) \/ Audit(r) \/ ReadBack(r)
    BY <1>1, <2>1 DEF CreateRefused, ExpungeRead, AdminRefused, Audit, ReadBack
  <2> QED
    BY <1>3, <2>1, CreateReports, ExpungeCommitReports, ModifyReports, RemoveReports,
       EraseReports DEF Step
<1>4. CASE UNCHANGED vars
  BY <1>1, <1>4 DEF vars
<1> QED BY <1>1, <1>2, <1>3, <1>4 DEF Next

\* The table implements the registry, whatever requests run at the same time and
\* wherever they stop.
THEOREM ImplementsRegistry == Spec => KeepsRegistry
<1>1. RevInv /\ [Next]_vars => [Promise!Next]_([id \in Ids |-> Report(id)])
  BY RegistryStep DEF reports
<1> QED BY <1>1, InitReports, RevInvariant, PTL DEF Spec, KeepsRegistry, Promise!Spec
=============================================================================
