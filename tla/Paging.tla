------------------------------- MODULE Paging -------------------------------
(***************************************************************************)
(* Listing and exporting reports page by page (listReversalsHandler,       *)
(* exportReversals).  A client walks: it asks for a page, and goes on with *)
(* the cursor of the answer until an answer has none.  Each page is one    *)
(* SELECT; between two of them reports are filed, deleted and erased.      *)
(*                                                                         *)
(* An identifier is generated before its row is committed, by any of the   *)
(* instances, so rows do not appear in the order of their identifiers.     *)
(* A request that fails changes nothing and the client repeats it.         *)
(***************************************************************************)
EXTENDS Naturals, Sequences, FiniteSetsExt

CONSTANTS
  Clients,        \* the walks of a run
  Accounts,
  Slugs,
  Any,            \* a filter or limit the client does not give
  Endpoints,      \* list and export
  DefaultLimit,   \* DefaultLimit[e], MaxLimit[e]: page sizes of endpoint e
  MaxLimit,
  LimitsAsked,    \* the limits a client may give
  MaxId           \* bound: the identifiers of reports are 1..MaxId

Ids == 1..MaxId

ASSUME PagingAssumption ==
  /\ Any \notin Accounts \cup Slugs
  /\ DefaultLimit \in [Endpoints -> Nat \ {0}]
  /\ MaxLimit \in [Endpoints -> Nat]
  /\ LimitsAsked \subseteq Nat
  /\ Any \notin Nat
  /\ MaxId \in Nat

VARIABLES
  rows,    \* rows[id]: Unused, Erased or a row of the table
  ask,     \* ask[c]: the filters and the limit of client c's requests
  cursor,  \* cursor[c]: the cursor of c's next request
  pages,   \* pages[c]: the pages c has received, each a set of identifiers
  kept,    \* kept[c]: matching reports that were there all along (history)
  pc       \* pc[c]: new, walk, done or refused

vars == <<rows, ask, cursor, pages, kept, pc>>

Unused == [status |-> "unused"]
Erased == [status |-> "erased"]

Live(id) == rows[id].status = "live"

\* Without a cursor there is no condition on the identifier.
NoCursor == MaxId + 1

NoAsk == [account |-> Any, slug |-> Any, limit |-> 0]

Init ==
  /\ rows = [id \in Ids |-> Unused]
  /\ ask = [c \in Clients |-> NoAsk]
  /\ cursor = [c \in Clients |-> NoCursor]
  /\ pages = [c \in Clients |-> <<>>]
  /\ kept = [c \in Clients |-> {}]
  /\ pc = [c \in Clients |-> "new"]

-----------------------------------------------------------------------------
(* The query of buildListQuery, for the options listReversals sets.        *)

Matches(a, row) ==
  /\ a.account = Any \/ row.account = a.account
  /\ a.slug = Any \/ row.slug = a.slug

Below_Inclusive(id, cur) == id <= cur

Below(id, cur) == id < cur

Matching(a, cur) == {id \in Ids : Live(id) /\ Matches(a, rows[id]) /\ Below(id, cur)}

\* ORDER BY id DESC LIMIT n.
Newest(S, n) == {id \in S : Cardinality({j \in S : j > id}) < n}

\* The next cursor is left out of a page that is not full.
IsLastPage_Early(page, n) == Cardinality(page) <= n

IsLastPage(page, n) == page = {} \/ Cardinality(page) # n

NextCursor_Below(page) == Min(page) - 1

NextCursor(page) == Min(page)

-----------------------------------------------------------------------------
\* The limit of the request; more than the maximum is refused.
Limit(e, asked) == IF asked = Any THEN DefaultLimit[e] ELSE asked

TooMuch(e, asked) == asked # Any /\ asked > MaxLimit[e]

Start(c) ==
  /\ pc[c] = "new"
  /\ \E e \in Endpoints, asked \in LimitsAsked \cup {Any},
        account \in Accounts \cup {Any}, slug \in Slugs \cup {Any} :
       LET a == [account |-> account, slug |-> slug, limit |-> Limit(e, asked)] IN
       IF TooMuch(e, asked)
       THEN /\ pc' = [pc EXCEPT ![c] = "refused"]
            /\ UNCHANGED <<ask, kept>>
       ELSE /\ pc' = [pc EXCEPT ![c] = "walk"]
            /\ ask' = [ask EXCEPT ![c] = a]
            /\ kept' = [kept EXCEPT ![c] = Matching(a, NoCursor)]
  /\ UNCHANGED <<rows, cursor, pages>>

\* The cursor of the request is handed back with an empty page.
ReadPage_EchoesCursor(c) ==
  LET page == Newest(Matching(ask[c], cursor[c]), ask[c].limit) IN
  /\ pc[c] = "walk"
  /\ IF page = {}
     THEN UNCHANGED <<pages, cursor, pc>>
     ELSE /\ pages' = [pages EXCEPT ![c] = Append(@, page)]
          /\ cursor' = [cursor EXCEPT ![c] = NextCursor(page)]
          /\ UNCHANGED pc
  /\ UNCHANGED <<rows, ask, kept>>

ReadPage(c) ==
  /\ pc[c] = "walk"
  /\ LET page == Newest(Matching(ask[c], cursor[c]), ask[c].limit) IN
     /\ pages' = [pages EXCEPT ![c] = Append(@, page)]
     /\ IF IsLastPage(page, ask[c].limit)
        THEN /\ pc' = [pc EXCEPT ![c] = "done"]
             /\ UNCHANGED cursor
        ELSE /\ cursor' = [cursor EXCEPT ![c] = NextCursor(page)]
             /\ UNCHANGED pc
  /\ UNCHANGED <<rows, ask, kept>>

\* A report is filed: the account has no live one of that marketplace.
File(id) ==
  /\ rows[id] = Unused
  /\ \E account \in Accounts, slug \in Slugs :
       /\ ~ \E j \in Ids : Live(j) /\ rows[j].account = account /\ rows[j].slug = slug
       /\ rows' = [rows EXCEPT ![id] =
                     [status |-> "live", account |-> account, slug |-> slug]]
  /\ UNCHANGED <<ask, cursor, pages, kept, pc>>

Gone(ids) == kept' = [c \in Clients |-> kept[c] \ ids]

\* An admin deletes a report.
Remove(id) ==
  /\ Live(id)
  /\ rows' = [rows EXCEPT ![id].status = "deleted"]
  /\ Gone({id})
  /\ UNCHANGED <<ask, cursor, pages, pc>>

\* An admin erases an account's reports.
Erase(a) ==
  LET ids == {id \in Ids : rows[id].status \in {"live", "deleted"} /\ rows[id].account = a} IN
  /\ ids # {}
  /\ rows' = [id \in Ids |-> IF id \in ids THEN Erased ELSE rows[id]]
  /\ Gone(ids)
  /\ UNCHANGED <<ask, cursor, pages, pc>>

Next ==
  \/ \E c \in Clients : Start(c) \/ ReadPage(c)
  \/ \E id \in Ids : File(id) \/ Remove(id)
  \/ \E a \in Accounts : Erase(a)

\* A client that walks goes on walking.
Fairness == \A c \in Clients : WF_vars(ReadPage(c))

Spec == Init /\ [][Next]_vars /\ Fairness

-----------------------------------------------------------------------------
Received(c) == UNION {pages[c][k] : k \in DOMAIN pages[c]}

\* The types of the variables.
TypeOK ==
  /\ rows \in [Ids -> {Unused, Erased}
                        \cup [status : {"live", "deleted"}, account : Accounts, slug : Slugs]]
  /\ ask \in [Clients -> [account : Accounts \cup {Any}, slug : Slugs \cup {Any}, limit : Nat]]
  /\ cursor \in [Clients -> 1..NoCursor]
  /\ pages \in [Clients -> Seq(SUBSET Ids)]
  /\ kept \in [Clients -> SUBSET Ids]
  /\ pc \in [Clients -> {"new", "walk", "done", "refused"}]

\* A walk never goes back: each page is below all pages before it, so no report
\* comes twice, whatever is filed or deleted between the pages.
PagesDescend ==
  \A c \in Clients : \A j, k \in DOMAIN pages[c] :
    j < k => \A x \in pages[c][j], y \in pages[c][k] : y < x

\* A finished walk has received every matching report that was there from its
\* first page to its last, unless it asked for pages of no reports: the cursor
\* skips nothing and is not left out too early.
NothingSkipped ==
  \A c \in Clients :
    pc[c] = "done" /\ ask[c].limit > 0 => kept[c] \subseteq Received(c)

\* A walk ends, also while reports keep being filed.
WalkEnds == \A c \in Clients : pc[c] = "walk" ~> pc[c] = "done"
=============================================================================
