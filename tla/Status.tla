------------------------------- MODULE Status -------------------------------
(***************************************************************************)
(* The public, read-only endpoints: the status of an account and its       *)
(* search count (api/v1/users), the recent reports (listRecentHandler) and *)
(* the statistics (api/v1/stats), over a table of reports that changes     *)
(* under them.  They share nothing but the table: each has its own query,  *)
(* its own idea of which reports stand, and its own clock.                 *)
(*                                                                         *)
(* An account may have a report of every marketplace; which one is left    *)
(* out.  Identifiers do not tell when a trade was reversed: the client     *)
(* gives that time, or an admin changes it.  Time is counted in parts of a *)
(* day.  Every instance has a clock of its own, which may be stepped back: *)
(* a reading of a clock is any time at all.                                *)
(***************************************************************************)
EXTENDS Integers, FiniteSetsExt

CONSTANTS
  Accounts,
  Requests,    \* bound: the requests of a run
  DaysAsked,   \* the days a client may ask for, 7 to 365 in the code
  DayLength,   \* the parts of a day
  Epoch,       \* the first time an admin may give a report
  Limits,      \* the limits of recent reports, 1 to 100 in the code
  MaxId,       \* bound: the identifiers of reports are 1..MaxId
  MaxTime      \* bound: no clock shows more

Ids == 1..MaxId

\* What a clock may show.
Clock == 1..MaxTime

ASSUME StatusAssumption ==
  /\ IsFiniteSet(Accounts)
  /\ IsFiniteSet(Requests)
  /\ MaxId \in Nat
  /\ MaxTime \in Nat
  /\ DayLength \in Nat \ {0}
  /\ Epoch \in Nat \ {0}
  /\ DaysAsked \subseteq Nat \ {0}
  /\ Limits \subseteq Nat \ {0}

VARIABLES
  rows,     \* rows[id]: NoRow or a report
  stamped,  \* history: the latest time a report was given its time at, by the
            \* clock of the instance that did
  counts,   \* counts[a]: the search_counts row of account a, 0 if none
  request   \* request[q]: how far it is, with what it holds

vars == <<rows, stamped, counts, request>>

NoRow == [at |-> 0]

Reports == [account : Accounts, at : Nat \ {0}, expunged : BOOLEAN, deleted : BOOLEAN]

Init ==
  /\ rows = [id \in Ids |-> NoRow]
  /\ stamped = 0
  /\ counts = [a \in Accounts |-> 0]
  /\ request = [q \in Requests |-> [at |-> "new"]]

Day(t) == t \div DayLength

-----------------------------------------------------------------------------
(* The queries.                                                            *)

\* GORM adds deleted_at IS NULL to every query of the model ...
Found == {id \in Ids : rows[id] # NoRow /\ ~rows[id].deleted}

\* ... and the statistics say it themselves, with expunged_at IS NULL.
Standing == {id \in Ids : rows[id] # NoRow /\ ~rows[id].deleted /\ ~rows[id].expunged}

\* fetchUserStatus lists the reports of the account by descending identifier,
\* the expunged ones included ...
Listed(a) == {id \in Found : rows[id].account = a}

HasReversed(a) == \E id \in Listed(a) : ~rows[id].expunged

Visited_All(a) == Listed(a)

\* ... and visits them down to the first that is not expunged.
Visited(a) == {id \in Listed(a) : \A s \in Listed(a) : rows[s].expunged \/ s <= id}

LastReversal(a) == Max({rows[id].at : id \in Visited(a)})

\* listRecentHandler: by descending time and identifier, ExcludeExpunged.
Before(j, id) == rows[j].at > rows[id].at \/ (rows[j].at = rows[id].at /\ j > id)

Shown_Expunged == Found

Shown == {id \in Found : ~rows[id].expunged}

Recent(n) == {id \in Shown : Cardinality({j \in Shown : Before(j, id)}) < n}

\* SummaryStats: distinct accounts, in all and in the last 24 hours, which have
\* no end.
Flagged == {rows[id].account : id \in Standing}
Flagged24h(now) == {rows[id].account : id \in {s \in Standing : rows[s].at + DayLength >= now}}

\* SELECT SUM(count), and what a client does with the days.
Total(f) == MapThenSumSet(LAMBDA x : f[x], DOMAIN f)

\* DailyCounts: from the start of the window's first day, one entry per day up
\* to today, 0 where the query has none.
WindowStart_DaysBefore(today, days) == today - days

WindowStart(today, days) == today + 1 - days

DailyCounts(today, days) ==
  LET first == WindowStart(today, days)
      found == {id \in Standing : rows[id].at >= first * DayLength}
  IN  [d \in first..today |-> Cardinality({id \in found : Day(rows[id].at) = d})]

-----------------------------------------------------------------------------
(* The table changes.                                                      *)

Latest(now) == IF now > stamped THEN now ELSE stamped

\* BeforeCreate: no time after the filing instance's; no time at all is its own.
ReversedAt_KeepsZero(asked, now) == IF asked > now THEN {} ELSE {asked}

ReversedAt(asked, now) ==
  IF asked > now THEN {} ELSE IF asked = 0 THEN {now} ELSE {asked}

File(id) ==
  /\ rows[id] = NoRow
  /\ \E a \in Accounts, now \in Clock :
       /\ \E asked \in 0..MaxTime : \E at \in ReversedAt(asked, now) :
            rows' = [rows EXCEPT ![id] =
                       [account |-> a, at |-> at, expunged |-> FALSE, deleted |-> FALSE]]
       /\ stamped' = Latest(now)
  /\ UNCHANGED <<counts, request>>

\* expungeReversal, or an admin's update of expunged_at alone.
Expunge(id) ==
  /\ id \in Shown
  /\ rows' = [rows EXCEPT ![id].expunged = TRUE]
  /\ UNCHANGED <<stamped, counts, request>>

\* The times ReversalUpdates.Validate lets an admin give a report.
ModifiedAt(now) == Epoch..now

\* modifyReversal with a reversed_at, and perhaps an expunged_at.  A report can be
\* moved to another time, an expunged one too, and no update takes an expunged_at
\* back.
Modify(id) ==
  /\ id \in Found
  /\ \E now \in Clock :
       /\ \E at \in ModifiedAt(now), expunged \in {rows[id].expunged, TRUE} :
            rows' = [rows EXCEPT ![id].at = at, ![id].expunged = expunged]
       /\ stamped' = Latest(now)
  /\ UNCHANGED <<counts, request>>

\* An admin deletes a report, for GORM to leave it out from then on ...
Delete(id) ==
  /\ id \in Found
  /\ rows' = [rows EXCEPT ![id].deleted = TRUE]
  /\ UNCHANGED <<stamped, counts, request>>

\* ... or erases an account's, the deleted ones too.
Erase(a) ==
  LET erased == {id \in Ids : rows[id] # NoRow /\ rows[id].account = a} IN
  /\ erased # {}
  /\ rows' = [id \in Ids |-> IF id \in erased THEN NoRow ELSE rows[id]]
  /\ UNCHANGED <<stamped, counts, request>>

-----------------------------------------------------------------------------
(* The requests that take more than one statement.                         *)

\* fetchUserStatus has its reports; if the query fails it ends there.
LookUp(q) ==
  /\ request[q].at = "new"
  /\ \E a \in Accounts : request' = [request EXCEPT ![q] = [at |-> "listed", account |-> a]]
  /\ UNCHANGED <<rows, stamped, counts>>

\* Increment is one INSERT ... ON CONFLICT DO UPDATE.  PostgreSQL looks for the
\* account's row, finds none ...
FindNone(q) ==
  /\ request[q].at = "listed"
  /\ counts[request[q].account] = 0
  /\ request' = [request EXCEPT ![q].at = "inserting"]
  /\ UNCHANGED <<rows, stamped, counts>>

\* ... and inserts one and commits, unless another request has by now;
InsertSearch(q) ==
  /\ request[q].at = "inserting"
  /\ counts[request[q].account] = 0
  /\ counts' = [counts EXCEPT ![request[q].account] = 1]
  /\ request' = [request EXCEPT ![q].at = "counted"]
  /\ UNCHANGED <<rows, stamped>>

\* SET count = search_counts.count + 1
OnConflict_Excluded(count) == 1

OnConflict(count) == count + 1

\* found sooner or later, the row is locked, updated and committed.
UpdateSearch(q) ==
  /\ request[q].at \in {"listed", "inserting"}
  /\ counts[request[q].account] # 0
  /\ counts' = [counts EXCEPT ![request[q].account] = OnConflict(@)]
  /\ request' = [request EXCEPT ![q].at = "counted"]
  /\ UNCHANGED <<rows, stamped>>

\* Increment fails before its commit, or its answer is lost after it, which is one
\* of the steps above: the error is logged and the status answered all the same.
CountFails(q) ==
  /\ request[q].at \in {"listed", "inserting"}
  /\ request' = [request EXCEPT ![q] = [at |-> "done"]]
  /\ UNCHANGED <<rows, stamped, counts>>

\* DailyCounts reads the clock ...
ReadClock(q) ==
  /\ request[q].at = "new"
  /\ \E days \in DaysAsked, now \in Clock :
       request' = [request EXCEPT ![q] = [at |-> "clock", today |-> Day(now), days |-> days]]
  /\ UNCHANGED <<rows, stamped, counts>>

\* ... and then the table.
CountDays(q) ==
  /\ request[q].at = "clock"
  /\ request' = [request EXCEPT ![q] = [at |-> "done"]]
  /\ UNCHANGED <<rows, stamped, counts>>

Next ==
  \/ \E id \in Ids : File(id) \/ Expunge(id) \/ Modify(id) \/ Delete(id)
  \/ \E a \in Accounts : Erase(a)
  \/ \E q \in Requests :
       \/ LookUp(q) \/ FindNone(q) \/ InsertSearch(q) \/ UpdateSearch(q) \/ CountFails(q)
       \/ ReadClock(q) \/ CountDays(q)

Spec == Init /\ [][Next]_vars

-----------------------------------------------------------------------------
\* The types of the variables.
TypeOK ==
  /\ rows \in [Ids -> Reports \cup {NoRow}]
  /\ stamped \in 0..MaxTime
  /\ counts \in [Accounts -> Nat]
  /\ request \in [Requests ->
       [at : {"new", "done"}]
         \cup [at : {"listed", "inserting", "counted"}, account : Accounts]
         \cup [at : {"clock"}, today : Nat, days : DaysAsked]]

\* The endpoints agree on who has reversed a trade, each with its own query: the
\* summary flags the accounts whose status says so, and an account among the
\* recent reports, whatever the limit, is one of them.  Those flagged in the last
\* 24 hours of one instance's clock are found in the days that another counts from
\* its own, which may show any time: each has a report there, or one after the
\* last of the days, so long as the days begin before the first one's today.
EndpointsAgree ==
  /\ Flagged = {a \in Accounts : HasReversed(a)}
  /\ \A n \in Limits :
       /\ {rows[id].account : id \in Recent(n)} \subseteq Flagged
       /\ Flagged # {} => Recent(n) # {}
  /\ \A now, other \in Clock, days \in DaysAsked :
       Day(other) + 1 - days < Day(now) =>
         Cardinality(Flagged24h(now)) <=
           Total(DailyCounts(Day(other), days))
             + Cardinality({id \in Standing : Day(rows[id].at) > Day(other)})

\* The summary's searches are the statuses whose count was committed, answered or
\* not, also when several requests look up an account at once, for the first time
\* too; and the accounts it says were searched are theirs.
SearchesCounted ==
  LET searches == {q \in Requests : request[q].at = "counted"} IN
  /\ Total(counts) = Cardinality(searches)
  /\ {a \in Accounts : counts[a] # 0} = {request[q].account : q \in searches}

\* The time of an account's status is that of one of its reports, also after an
\* admin has moved them.  It is not before that of its newest standing report,
\* which it is when nothing was expunged ("the most recent reversal (highest ID)",
\* users_test.go), and not after every clock by which reports were filed or moved.
LastReversalSound ==
  \A a \in Accounts : HasReversed(a) =>
    LET newest == Max(Listed(a) \cap Standing) IN
    /\ LastReversal(a) \in {rows[id].at : id \in Listed(a)}
    /\ LastReversal(a) <= stamped
    /\ LastReversal(a) >= rows[newest].at
    /\ Listed(a) \subseteq Standing => LastReversal(a) = rows[newest].at

\* The days of an answer are as many as were asked for, and their counts add up to
\* the reports that stand in those days when the table is read: none falls between
\* two days.  The days are those up to the day the clock was read; a report of a
\* later day, filed after midnight or by a clock ahead of this one, is left out.
DaysAddUp ==
  [][\A q \in Requests : CountDays(q) =>
       LET today == request[q].today
           asked == request[q].days
           days == DailyCounts(today, asked)
       IN  /\ Cardinality(DOMAIN days) = asked
           /\ Total(days) =
                Cardinality({id \in Standing : today - Day(rows[id].at) \in 0..(asked - 1)})]_vars
=============================================================================
