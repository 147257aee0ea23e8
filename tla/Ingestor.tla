------------------------------ MODULE Ingestor ------------------------------
(***************************************************************************)
(* The CSFloat ingestor of ingestors/csfloat: onWork of the elected        *)
(* instance is sync().  It resumes after the newest warning that the       *)
(* reversal table holds, fetches the warnings page by page and inserts     *)
(* them one by one.  Nothing else records how far it got.                  *)
(*                                                                         *)
(* The table is reduced to the live csfloat rows, one per Steam account    *)
(* (the partial unique index of repository/public/public.go), each with    *)
(* the reporter_internal_id of the warning it came from.  CSFloat itself   *)
(* is external: it serves the settled warnings, those older than the five  *)
(* minutes fetch() leaves, in ascending order after the cursor.            *)
(***************************************************************************)
EXTENDS Elector, Sequences, FiniteSetsExt

CONSTANTS
  Accounts,       \* Steam accounts
  NWarnings,      \* bound: the warnings CSFloat ever has are 1..NWarnings
  AccountOf,      \* AccountOf[w]: the account warning w is about
  Poison,         \* the warnings Create refuses (BeforeCreate fails)
  PageLimit,      \* limit of one fetch, 1000 in the code
  MaxApiReports,  \* bound: reports CSFloat creates through the API
  MaxRemovals,    \* bound: reports admins remove
  MaxCollisions   \* bound: warnings whose insert hits a used primary key

Warnings == 1..NWarnings

ASSUME IngestorAssumption ==
  /\ NWarnings \in Nat
  /\ AccountOf \in [Warnings -> Accounts]
  /\ Poison \subseteq Warnings
  /\ PageLimit \in Nat \ {0}
  /\ MaxApiReports \in Nat
  /\ MaxRemovals \in Nat
  /\ MaxCollisions \in Nat

VARIABLES
  live,        \* live[a]: what the live csfloat row of account a came from
  feed,        \* the settled warnings are 1..feed
  sync,        \* sync[i]: instance i inside sync(): where, the cursor, the
               \*   warnings still to process, the next cursor (0: nil)
  removed,     \* the accounts an admin has removed a report of
  passed,      \* the warnings passed over because an insert hit a used key
  apiReports,
  removals

tableVars == <<live, feed, removed, passed, apiReports, removals>>
vars == <<electorVars, sync, tableVars>>

Absent == -1    \* no live row
NoRid == 0      \* a row from the API: reporter_internal_id is NULL

Idle == [at |-> "list", cursor |-> 0, todo |-> <<>>, next |-> 0]
Returned == [Idle EXCEPT !.at = "end"]

Init ==
  /\ ElectorInit
  /\ live = [a \in Accounts |-> Absent]
  /\ feed = 0
  /\ sync = [i \in Instances |-> Idle]
  /\ removed = {}
  /\ apiReports = 0
  /\ passed = {}
  /\ removals = 0

SyncStates ==
  [at : {"list", "check", "fetch", "process", "end"},
   cursor : 0..NWarnings, todo : Seq(Warnings), next : 0..NWarnings]

At(i, place) == pc[i] = "work" /\ sync[i].at = place

-----------------------------------------------------------------------------
(* The steps of sync().                                                    *)

Newest == Max({live[a] : a \in Accounts} \cup {0})

\* Every sync starts with the first warning.
Resume_FromStart == 0

\* The reporter_internal_id of the first row in descending order; PostgreSQL
\* puts NULL first.
Resume == IF \E a \in Accounts : live[a] = NoRid THEN 0 ELSE Newest

List(i) ==
  /\ At(i, "list")
  /\ \/ /\ sync' = [sync EXCEPT ![i].at = "check", ![i].cursor = Resume]
        /\ UNCHANGED electorVars
     \/ /\ faults < MaxFaults
        /\ faults' = faults + 1
        /\ sync' = [sync EXCEPT ![i] = Returned]
        /\ UNCHANGED <<pc, holder, cancelled, lost, losses, crashes>>
  /\ UNCHANGED tableVars

\* The select at the top of the page loop.
CheckContext(i) ==
  /\ At(i, "check")
  /\ sync' = [sync EXCEPT ![i] = IF i \in cancelled
                                 THEN Returned
                                 ELSE [sync[i] EXCEPT !.at = "fetch"]]
  /\ UNCHANGED <<electorVars, tableVars>>

\* CSFloat's answer: the first PageLimit settled warnings after the cursor.
Page(cursor) ==
  LET last == Min({cursor + PageLimit, feed})
  IN  [k \in 1..(last - cursor) |-> cursor + k]

Fetch_SkipsOne(i) ==
  /\ At(i, "fetch")
  /\ LET page == Page(sync[i].cursor) IN
     IF page = <<>>
     THEN sync' = [sync EXCEPT ![i] = Returned]
     ELSE sync' = [sync EXCEPT ![i].at = "process",
                               ![i].todo = page,
                               ![i].next = page[Len(page)] + 1]
  /\ UNCHANGED <<electorVars, tableVars>>

\* The page arrives, empty or with the next cursor if there may be more.
Fetch(i) ==
  /\ At(i, "fetch")
  /\ LET page == Page(sync[i].cursor)
         last == page[Len(page)]
     IN
     IF page = <<>>
     THEN sync' = [sync EXCEPT ![i] = Returned]
     ELSE \E next \in {last} \cup (IF last = feed THEN {0} ELSE {}) :
            sync' = [sync EXCEPT ![i].at = "process",
                                 ![i].todo = page,
                                 ![i].next = next]
  /\ UNCHANGED <<electorVars, tableVars>>

\* The request does not carry the context of Run.
FetchFails_NoContext(i) ==
  /\ At(i, "fetch")
  /\ faults < MaxFaults
  /\ faults' = faults + 1
  /\ sync' = [sync EXCEPT ![i] = Returned]
  /\ UNCHANGED <<pc, holder, cancelled, lost, losses, crashes, tableVars>>

\* The request fails, for its cancelled context or a fault.
FetchFails(i) ==
  /\ At(i, "fetch")
  /\ \/ i \in cancelled /\ UNCHANGED electorVars
     \/ /\ faults < MaxFaults
        /\ faults' = faults + 1
        /\ UNCHANGED <<pc, holder, cancelled, lost, losses, crashes>>
  /\ sync' = [sync EXCEPT ![i] = Returned]
  /\ UNCHANGED tableVars

\* process() goes on to the next warning; after the last one sync() goes on to
\* the next page or returns.
Advance(i) ==
  LET s == sync[i] IN
  sync' = [sync EXCEPT ![i] =
             IF Len(s.todo) > 1 THEN [s EXCEPT !.todo = Tail(s.todo)]
             ELSE IF s.next = 0 THEN Returned
             ELSE [Idle EXCEPT !.at = "check", !.cursor = s.next]]

Refuses(w) == w \in Poison
Duplicate(w) == live[AccountOf[w]] # Absent
Inserted(w) == live' = [live EXCEPT ![AccountOf[w]] = w]

\* Create succeeds.
Insert(i) ==
  /\ At(i, "process")
  /\ LET w == Head(sync[i].todo) IN
     /\ ~Refuses(w)
     /\ ~Duplicate(w)
     /\ Inserted(w)
  /\ Advance(i)
  /\ UNCHANGED <<electorVars, feed, removed, passed, apiReports, removals>>

SkipDuplicate_Aborts(i) ==
  /\ At(i, "process")
  /\ LET w == Head(sync[i].todo) IN ~Refuses(w) /\ Duplicate(w)
  /\ sync' = [sync EXCEPT ![i] = Returned]
  /\ UNCHANGED <<electorVars, tableVars>>

\* Create fails on the unique index: the account is reported already.
SkipDuplicate(i) ==
  /\ At(i, "process")
  /\ LET w == Head(sync[i].todo) IN ~Refuses(w) /\ Duplicate(w)
  /\ Advance(i)
  /\ UNCHANGED <<electorVars, tableVars>>

\* Create fails on the primary key, another row has the generated identifier:
\* the same error code, so the warning is passed over as well.
SkipCollision(i) ==
  /\ At(i, "process")
  /\ LET w == Head(sync[i].todo) IN
     /\ ~Refuses(w)
     /\ Cardinality(passed) < MaxCollisions
     /\ passed' = passed \cup {w}
  /\ Advance(i)
  /\ UNCHANGED <<electorVars, live, feed, removed, apiReports, removals>>

\* Create refuses the warning: the sync ends.
AbortSync(i) ==
  /\ At(i, "process")
  /\ Refuses(Head(sync[i].todo))
  /\ sync' = [sync EXCEPT ![i] = Returned]
  /\ UNCHANGED <<electorVars, tableVars>>

InsertFails_GoesOn(i) ==
  /\ At(i, "process")
  /\ faults < MaxFaults
  /\ faults' = faults + 1
  /\ ~Refuses(Head(sync[i].todo))
  /\ Advance(i)
  /\ UNCHANGED <<pc, holder, cancelled, lost, losses, crashes, tableVars>>

\* The connection fails under Create, before or after the row was committed.
InsertFails(i) ==
  /\ At(i, "process")
  /\ faults < MaxFaults
  /\ faults' = faults + 1
  /\ LET w == Head(sync[i].todo) IN
     /\ ~Refuses(w)
     /\ UNCHANGED live \/ (~Duplicate(w) /\ Inserted(w))
  /\ sync' = [sync EXCEPT ![i] = Returned]
  /\ UNCHANGED <<pc, holder, cancelled, lost, losses, crashes,
                 feed, removed, passed, apiReports, removals>>

\* sync() has returned, so onWork does.
EndWork(i) ==
  /\ At(i, "end")
  /\ FinishWork(i)
  /\ sync' = [sync EXCEPT ![i] = Idle]
  /\ UNCHANGED tableVars

-----------------------------------------------------------------------------
(* What happens around the ingestor.                                       *)

\* Another warning becomes five minutes old.
Settle ==
  /\ feed < NWarnings
  /\ feed' = feed + 1
  /\ UNCHANGED <<electorVars, sync, live, removed, passed, apiReports, removals>>

\* CSFloat reports an account through the API (createReversals): no
\* reporter_internal_id.
ApiReport(a) ==
  /\ apiReports < MaxApiReports
  /\ apiReports' = apiReports + 1
  /\ live[a] = Absent
  /\ live' = [live EXCEPT ![a] = NoRid]
  /\ UNCHANGED <<electorVars, sync, feed, removed, passed, removals>>

\* An admin deletes a report, softly, or all reports of its account.
Remove(a) ==
  /\ removals < MaxRemovals
  /\ removals' = removals + 1
  /\ live[a] # Absent
  /\ live' = [live EXCEPT ![a] = Absent]
  /\ removed' = removed \cup {a}
  /\ UNCHANGED <<electorVars, sync, feed, passed, apiReports>>

\* The process dies and takes its sync with it.
CrashSync(i) ==
  /\ Crash(i)
  /\ sync' = [sync EXCEPT ![i] = Idle]
  /\ UNCHANGED tableVars

\* The steps of the elector that leave sync() alone.
ElectorOnly ==
  /\ (\E i \in Instances : RunStep(i) \/ Environment(i)) \/ Reap
  /\ UNCHANGED <<sync, tableVars>>

SyncStep(i) ==
  \/ List(i)
  \/ CheckContext(i)
  \/ Fetch(i)
  \/ Insert(i)
  \/ SkipDuplicate(i)
  \/ AbortSync(i)
  \/ EndWork(i)

Next ==
  \/ ElectorOnly
  \/ Settle
  \/ \E i \in Instances :
       \/ SyncStep(i)
       \/ FetchFails(i)
       \/ InsertFails(i)
       \/ SkipCollision(i)
       \/ CrashSync(i)
  \/ \E a \in Accounts : ApiReport(a) \/ Remove(a)

\* Run and sync() go on and the database reaps dead sessions; nothing around the
\* ingestor is ever due.  The HTTP client has no timeout, so CSFloat's answer is
\* not due either: a request ends for sure only when its context is cancelled.
Fairness ==
  /\ \A i \in Instances :
       /\ WF_vars(RunStep(i) /\ UNCHANGED <<sync, tableVars>>)
       /\ WF_vars(SyncStep(i) /\ ~At(i, "fetch"))
       /\ WF_vars(FetchFails(i) /\ i \in cancelled)
  /\ WF_vars(Reap /\ UNCHANGED <<sync, tableVars>>)

Spec == Init /\ [][Next]_vars /\ Fairness

-----------------------------------------------------------------------------
\* The types of the variables.
TypeOK ==
  /\ ElectorTypeOK
  /\ live \in [Accounts -> {Absent, NoRid} \cup Warnings]
  /\ feed \in 0..NWarnings
  /\ sync \in [Instances -> SyncStates]
  /\ removed \subseteq Accounts
  /\ passed \subseteq Warnings
  /\ apiReports \in 0..MaxApiReports
  /\ removals \in 0..MaxRemovals

Reported(w) == live[AccountOf[w]] # Absent \/ AccountOf[w] \in removed

\* No warning is missed: where the next sync resumes, and where a running one
\* has got to, every warning before has its account reported, unless an admin
\* removed the report or its row hit a used primary key.  It holds across
\* failing calls, crashes, two leaders at once and reports from the API, because
\* sync() inserts in ascending order and stops at the first other error.
NothingMissed ==
  /\ \A w \in 1..Resume : Reported(w) \/ w \in passed
  /\ \A i \in Instances : \A w \in 1..sync[i].cursor : Reported(w) \/ w \in passed

\* The ingestors implement the delivery of warnings in order: no crash, failing
\* call, second leader or report from the API makes one file a warning while an
\* earlier one is still to be dealt with: process() takes the warnings in the order
\* of the feed and stops at the first error that is not a duplicate.
Promise == INSTANCE Delivery WITH report <- live, NoReport <- Absent, Own <- NoRid

DeliversInOrder == Promise!Spec

\* While the leader keeps its session and CSFloat does not use the API, every
\* inserted warning is newer than all that are in the table: a removed report
\* never comes back below a report that stayed.
InsertsAtTip ==
  [][\A i \in Instances :
       Insert(i) /\ losses = 0 /\ apiReports = 0
         => Head(sync[i].todo) > Newest]_vars

\* "Fetch the most recent reversals created by CSFloat" (sync()): the sync
\* resumes after the newest warning in the table.
ResumesAfterNewest == Resume = Newest

\* No request to CSFloat hangs for ever.
CSFloatAnswers == \A i \in Instances : []<>~At(i, "fetch")

\* If CSFloat answers, one instance stays up and none is stopped again and again,
\* every settled warning before the first one that Create refuses is reported in
\* the end.  (An instance that always is stopped and started again at the wrong
\* moment keeps the lock from the other.)
Delivered ==
  CSFloatAnswers /\ <>[](cancelled = {}) /\ (\E i \in Instances : <>[](pc[i] # "down"))
    => \A w \in Warnings :
         (\A p \in Poison : w < p) => (feed >= w ~> Reported(w))

\* A stopped instance leaves Run, in the middle of a sync too, and also when
\* CSFloat never answers the request it waits for (Stop waits for the loop).
StopEnds ==
  \A i \in Instances : i \in cancelled ~> (pc[i] \in {"done", "down"} \/ i \notin cancelled)
=============================================================================
