----------------------------- MODULE Reversals -----------------------------
(***************************************************************************)
(* The handlers that change reversal reports: marketplaces create and      *)
(* expunge them (api/v1/reversals), admins modify, delete and erase them   *)
(* (api/v1/admin).  Requests run concurrently, in one process or several;  *)
(* what they share is the reversals table of the public database and the   *)
(* admin_audits table of the private one, and a step of a request is one   *)
(* statement or one commit there.  No transaction spans both databases.    *)
(*                                                                         *)
(* Any statement may fail, with or without having taken effect, and the    *)
(* process of a request may die between two steps: either way the client   *)
(* gets an error or no answer, which is the same to it.                    *)
(***************************************************************************)
EXTENDS Naturals, Sequences, FiniteSets

CONSTANTS
  Requests,       \* the requests of a run
  Accounts,
  Slugs,
  Batches,        \* the batches of reports a marketplace may send
  Updates,        \* the updates an admin may send
  FirstRows,      \* the reports filed before, as a sequence
  MaxId,          \* bound: identifiers ever handed out
  Nobody          \* not a request

Ids == 1..MaxId
Sources == {"none", "direct", "related_user"}


VARIABLES
  rows,     \* rows[id]: a row of the table, or NoRow
  nextId,   \* the identifier the next inserted row gets
  audits,   \* the requests with a row in admin_audits
  req,      \* req[r]: what request r asks, once it has arrived
  pc,       \* pc[r]: where r is in its handler
  seen,     \* seen[r]: the row r read
  applied,  \* the requests whose change is in the table (history)
  answer    \* answer[r]: what the client of r was told

vars == <<rows, nextId, audits, req, pc, seen, applied, answer>>

NoRow == [account |-> "none"]
Nothing == [kind |-> "nothing"]

Live(id) == rows[id] # NoRow /\ ~rows[id].deleted

\* ValidateSourceAndRelatedID.
ValidSource(source, related) == related <=> source = "related_user"

\* Reports as they are sent: valid in the batch of a request or not, and valid in
\* the table.
ReportForms == [account : Accounts, source : Sources, related : BOOLEAN]
FiledForms ==
  {f \in [account : Accounts, slug : Slugs, source : Sources, related : BOOLEAN] :
     ValidSource(f.source, f.related)}

ASSUME ReversalsAssumption ==
  /\ Nobody \notin Requests
  /\ MaxId \in Nat
  /\ FirstRows \in Seq(FiledForms) /\ Len(FirstRows) <= MaxId
  /\ Batches \subseteq Seq(ReportForms)
  /\ Updates \subseteq
       [source : Sources \cup {"keep"}, related : BOOLEAN, time : BOOLEAN,
        expunge : BOOLEAN]

\* The requests that may arrive.
Asked ==
  [kind : {"create"}, slug : Slugs, batch : Batches]
    \cup [kind : {"expunge"}, slug : Slugs, id : Ids]
    \cup [kind : {"modify"}, id : Ids, update : Updates]
    \cup [kind : {"remove"}, id : Ids]
    \cup [kind : {"erase"}, account : Accounts]

IsAdmin(r) == req[r].kind \in {"modify", "remove", "erase"}

\* BeforeCreate fills in a new row.
Row(report, slug) ==
  [account |-> report.account, slug |-> slug, source |-> report.source,
   related |-> report.related, expungedBy |-> Nobody, deleted |-> FALSE]

Init ==
  /\ rows = [id \in Ids |-> IF id <= Len(FirstRows)
                            THEN Row(FirstRows[id], FirstRows[id].slug)
                            ELSE NoRow]
  /\ nextId = Len(FirstRows) + 1
  /\ audits = {}
  /\ req = [r \in Requests |-> Nothing]
  /\ pc = [r \in Requests |-> "new"]
  /\ seen = [r \in Requests |-> NoRow]
  /\ applied = {}
  /\ answer = [r \in Requests |-> "none"]

-----------------------------------------------------------------------------
(* Helpers for the steps.                                                  *)

Is(r, kind, place) == pc[r] = place /\ req[r].kind = kind

Goto(r, place) == pc' = [pc EXCEPT ![r] = place] /\ UNCHANGED answer

Answer(r, said) ==
  /\ pc' = [pc EXCEPT ![r] = "done"]
  /\ answer' = [answer EXCEPT ![r] = said]

\* The request goes on, or its statement took effect and it learns of an error.
ProceedOr(r, go) == go \/ Answer(r, "error")

Arrive(r) ==
  /\ pc[r] = "new"
  /\ \E asked \in Asked : req' = [req EXCEPT ![r] = asked]
  /\ Goto(r, "start")
  /\ UNCHANGED <<rows, nextId, audits, seen, applied>>

\* A statement fails without effect, or the process dies: wherever it is.
Break(r) ==
  /\ pc[r] \notin {"new", "done"}
  /\ Answer(r, "error")
  /\ UNCHANGED <<rows, nextId, audits, req, seen, applied>>

-----------------------------------------------------------------------------
(* createReversals: one INSERT of the whole batch.                         *)

Insertable_NoIndex(slug, batch) ==
  /\ \A k \in 1..Len(batch) : ValidSource(batch[k].source, batch[k].related)
  /\ \A j, k \in 1..Len(batch) : j # k => batch[j].account # batch[k].account

\* Validation passes and the unique index takes every row of the batch.
Insertable(slug, batch) ==
  /\ \A k \in 1..Len(batch) : ValidSource(batch[k].source, batch[k].related)
  /\ \A j, k \in 1..Len(batch) : j # k => batch[j].account # batch[k].account
  /\ \A k \in 1..Len(batch), id \in Ids :
       ~(Live(id) /\ rows[id].account = batch[k].account /\ rows[id].slug = slug)

Create(r) ==
  /\ Is(r, "create", "start")
  /\ LET batch == req[r].batch
         slug == req[r].slug
     IN
     /\ Insertable(slug, batch)
     /\ nextId + Len(batch) <= MaxId + 1
     /\ nextId' = nextId + Len(batch)
     /\ rows' = [id \in Ids |-> IF id \in nextId..(nextId + Len(batch) - 1)
                                THEN Row(batch[id - nextId + 1], slug)
                                ELSE rows[id]]
  /\ applied' = applied \cup {r}
  /\ ProceedOr(r, Answer(r, "ok"))
  /\ UNCHANGED <<audits, req, seen>>

CreateRefused(r) ==
  /\ Is(r, "create", "start")
  /\ ~Insertable(req[r].slug, req[r].batch)
  /\ Answer(r, "error")
  /\ UNCHANGED <<rows, nextId, audits, req, seen, applied>>

-----------------------------------------------------------------------------
(* expungeReversal: a transaction at PostgreSQL's default, READ COMMITTED. *)

ExpungeAllowed_AnyOwner(slug, row) == row.expungedBy = Nobody

\* Read finds a live row; the owner and the expunged_at checks are on what was
\* read.  The row is not locked.
ExpungeAllowed(slug, row) == row.slug = slug /\ row.expungedBy = Nobody

ExpungeRead(r) ==
  /\ Is(r, "expunge", "start")
  /\ LET id == req[r].id IN
     IF Live(id) /\ ExpungeAllowed(req[r].slug, rows[id])
     THEN /\ seen' = [seen EXCEPT ![r] = rows[id]]
          /\ Goto(r, "update")
     ELSE /\ Answer(r, "error")
          /\ UNCHANGED seen
  /\ UNCHANGED <<rows, nextId, audits, req, applied>>

\* Update and commit.  The update waits for a concurrent one of the same row
\* and looks at the row again: it only has to be there still, not deleted.
UpdateFinds_Anything(id) == TRUE

UpdateFinds(id) == Live(id)

ExpungeCommit(r) ==
  /\ Is(r, "expunge", "update")
  /\ LET id == req[r].id IN
     IF UpdateFinds(id)
     THEN /\ IF Live(id)
             THEN /\ rows' = [rows EXCEPT ![id].expungedBy = r]
                  /\ applied' = applied \cup {r}
             ELSE UNCHANGED <<rows, applied>>
          /\ ProceedOr(r, Answer(r, "ok"))
     ELSE /\ Answer(r, "error")
          /\ UNCHANGED <<rows, applied>>
  /\ UNCHANGED <<nextId, audits, req, seen>>

-----------------------------------------------------------------------------
(* The admin handlers: a statement in the public database, the audit in    *)
(* the private one, then (modifyReversal) a Read for the answer.           *)

\* dto.ReversalUpdates: "keep" is an absent source; an update with a reversed_at or
\* an expunged_at has a valid one, and which reversed_at it is matters in Status.
ValidUpdate(u) ==
  /\ u.source # "keep" \/ u.related \/ u.time \/ u.expunge
  /\ ValidSource(u.source, u.related)

\* ToFields: a source other than related_user nullifies related_steam_id.
Modified_KeepsRelated(row, u, r) ==
  [row EXCEPT !.source = IF u.source = "keep" THEN @ ELSE u.source,
              !.related = @ \/ u.related,
              !.expungedBy = IF u.expunge THEN r ELSE @]

Modified_StoresAbsent(row, u, r) ==
  [row EXCEPT !.source = u.source,
              !.related = IF u.source = "keep" THEN @ ELSE u.related,
              !.expungedBy = IF u.expunge THEN r ELSE @]

Modified(row, u, r) ==
  [row EXCEPT !.source = IF u.source = "keep" THEN @ ELSE u.source,
              !.related = IF u.source = "keep" THEN @ ELSE u.related,
              !.expungedBy = IF u.expunge THEN r ELSE @]

Modify(r) ==
  /\ Is(r, "modify", "start")
  /\ LET id == req[r].id IN
     /\ ValidUpdate(req[r].update)
     /\ Live(id)
     /\ rows' = [rows EXCEPT ![id] = Modified(@, req[r].update, r)]
  /\ applied' = applied \cup {r}
  /\ ProceedOr(r, Goto(r, "audit"))
  /\ UNCHANGED <<nextId, audits, req, seen>>

\* Delete sets deleted_at.
Remove(r) ==
  /\ Is(r, "remove", "start")
  /\ Live(req[r].id)
  /\ rows' = [rows EXCEPT ![req[r].id].deleted = TRUE]
  /\ applied' = applied \cup {r}
  /\ ProceedOr(r, Goto(r, "audit"))
  /\ UNCHANGED <<nextId, audits, req, seen>>

\* DeleteAllUserReports deletes the rows themselves, the soft-deleted too.
Doomed(a) == {id \in Ids : rows[id] # NoRow /\ rows[id].account = a}

Erase(r) ==
  /\ Is(r, "erase", "start")
  /\ Doomed(req[r].account) # {}
  /\ rows' = [id \in Ids |-> IF id \in Doomed(req[r].account) THEN NoRow ELSE rows[id]]
  /\ applied' = applied \cup {r}
  /\ ProceedOr(r, Goto(r, "audit"))
  /\ UNCHANGED <<nextId, audits, req, seen>>

\* Validation fails or RowsAffected is 0.
AdminRefused(r) ==
  /\ IsAdmin(r) /\ pc[r] = "start"
  /\ \/ req[r].kind = "modify" /\ ~(ValidUpdate(req[r].update) /\ Live(req[r].id))
     \/ req[r].kind = "remove" /\ ~Live(req[r].id)
     \/ req[r].kind = "erase" /\ Doomed(req[r].account) = {}
  /\ Answer(r, "error")
  /\ UNCHANGED <<rows, nextId, audits, req, seen, applied>>

Audit_BestEffort(r) ==
  /\ pc[r] = "audit"
  /\ audits' \in {audits, audits \cup {r}}
  /\ ProceedOr(r, IF req[r].kind = "modify" THEN Goto(r, "read") ELSE Answer(r, "ok"))
  /\ UNCHANGED <<rows, nextId, req, seen, applied>>

Audit(r) ==
  /\ pc[r] = "audit"
  /\ audits' = audits \cup {r}
  /\ ProceedOr(r, IF req[r].kind = "modify" THEN Goto(r, "read") ELSE Answer(r, "ok"))
  /\ UNCHANGED <<rows, nextId, req, seen, applied>>

\* modifyReversal answers with the row as it is now, if it is still there.
ReadBack(r) ==
  /\ Is(r, "modify", "read")
  /\ LET id == req[r].id IN
     IF Live(id)
     THEN /\ seen' = [seen EXCEPT ![r] = rows[id]]
          /\ Answer(r, "ok")
     ELSE /\ Answer(r, "error")
          /\ UNCHANGED seen
  /\ UNCHANGED <<rows, nextId, audits, req, applied>>

-----------------------------------------------------------------------------
Step(r) ==
  \/ Create(r)
  \/ CreateRefused(r)
  \/ ExpungeRead(r)
  \/ ExpungeCommit(r)
  \/ Modify(r)
  \/ Remove(r)
  \/ Erase(r)
  \/ AdminRefused(r)
  \/ Audit(r)
  \/ ReadBack(r)

Next == \E r \in Requests : Arrive(r) \/ Step(r) \/ Break(r)

Spec == Init /\ [][Next]_vars

-----------------------------------------------------------------------------
Rows ==
  [account : Accounts, slug : Slugs, source : Sources, related : BOOLEAN,
   expungedBy : Requests \cup {Nobody}, deleted : BOOLEAN]

\* The types of the variables.
TypeOK ==
  /\ rows \in [Ids -> Rows \cup {NoRow}]
  /\ nextId \in 1..(MaxId + 1)
  /\ audits \subseteq Requests
  /\ req \in [Requests -> Asked \cup {Nothing}]
  /\ pc \in [Requests -> {"new", "start", "update", "audit", "read", "done"}]
  /\ seen \in [Requests -> Rows \cup {NoRow}]
  /\ applied \subseteq Requests
  /\ answer \in [Requests -> {"none", "ok", "error"}]

\* A success the client was told of stays true: the report it expunged is
\* expunged and the one it deleted deleted, or erased since, whatever ran
\* between the statements of the handler and whatever ran after.
AckedStands ==
  \A r \in Requests :
    /\ answer[r] = "ok"
    /\ req[r].kind \in {"expunge", "remove"}
    /\ rows[req[r].id] # NoRow
    => IF req[r].kind = "expunge" THEN rows[req[r].id].expungedBy # Nobody
                                  ELSE rows[req[r].id].deleted

\* The audit trail: an audit is only of a change that was made, and an admin
\* who is told of success has been audited.
AuditTrail ==
  /\ audits \subseteq applied
  /\ \A r \in Requests : answer[r] = "ok" /\ IsAdmin(r) => r \in audits

\* Only its own marketplace, or an admin, expunges a report, although the
\* owner is checked on a row read in an earlier statement.
OwnerExpunges ==
  \A id \in Ids :
    rows[id] # NoRow /\ rows[id].expungedBy # Nobody =>
      LET by == req[rows[id].expungedBy] IN
      /\ by.kind \in {"expunge", "modify"}
      /\ by.id = id
      /\ by.kind = "expunge" => by.slug = rows[id].slug

\* Whatever updates a report goes through, it names a related account exactly
\* when its source is related_user (ValidateSourceAndRelatedID checks only one
\* request at a time).
SourceConsistent ==
  \A id \in Ids : rows[id] # NoRow => ValidSource(rows[id].source, rows[id].related)

\* "Verify expunged at was NOT updated" (reversals_test.go), "reversal has
\* already been expunged" (expungeReversal): a report is expunged only once.
ExpungedOnce ==
  \A r, s \in Requests :
    /\ r # s
    /\ answer[r] = "ok" /\ req[r].kind = "expunge"
    /\ answer[s] = "ok" /\ req[s].kind = "expunge"
    => req[r].id # req[s].id

\* The table as its readers see it implements the registry.
Report(id) ==
  IF rows[id] # NoRow
  THEN [account |-> rows[id].account, slug |-> rows[id].slug,
        status |-> IF rows[id].deleted THEN "removed"
                   ELSE IF rows[id].expungedBy # Nobody THEN "expunged"
                   ELSE "reported"]
  ELSE [status |-> IF id < nextId THEN "erased" ELSE "unused"]

Promise == INSTANCE Registry WITH report <- [id \in Ids |-> Report(id)]

\* Reports stand once per account and marketplace, and are never un-expunged,
\* undeleted or un-erased, in any interleaving of the handlers' statements.
KeepsRegistry == Promise!Spec
=============================================================================
