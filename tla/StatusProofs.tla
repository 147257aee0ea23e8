----------------------------- MODULE StatusProofs -----------------------------
(***************************************************************************)
(* Proofs about Status for any accounts, requests, reports, days and       *)
(* limits: the time of an account's status is sound, the endpoints agree,  *)
(* every search is counted, and the days of an answer add up.  A sum over  *)
(* a set is defined by recursion; what is needed of it is proved once      *)
(* (TotalOfParts): counting the parts of a set and adding up counts the    *)
(* set.                                                                    *)
(***************************************************************************)
EXTENDS Status, FiniteSetTheorems, WellFoundedInduction, TLAPS

-----------------------------------------------------------------------------
(* Least and greatest elements.                                            *)

\* A set of numbers up to n has a least element: of the sets of what lies below
\* one of its elements one is minimal for inclusion, hence empty.
LEMMA LeastOf ==
  ASSUME NEW n \in Nat, NEW S \in SUBSET (1..n), S # {}
  PROVE  \E x \in S : \A y \in S : x <= y
<1> DEFINE Under(z) == {j \in S : j < z}
           T == {Under(z) : z \in S}
<1>1. T \subseteq FiniteSubsetsOf(1..n) /\ T # {}
  <2>1. IsFiniteSet(1..n)
    BY FS_Interval
  <2>2. ASSUME NEW z \in S PROVE Under(z) \in FiniteSubsetsOf(1..n)
    BY <2>1, FS_Subset DEF FiniteSubsetsOf
  <2> QED BY <2>2
<1>2. PICK u \in T : \A v \in T : ~(<<v, u>> \in StrictSubsetOrdering(1..n))
  BY <1>1, FS_StrictSubsetOrderingWellFounded, WFMin
<1>3. PICK x \in S : u = Under(x)
  BY <1>2
<1>4. ASSUME NEW y \in S PROVE x <= y
  <2>1. SUFFICES ASSUME y < x PROVE FALSE
    OBVIOUS
  <2>2. Under(y) \subseteq Under(x) /\ y \in Under(x) /\ y \notin Under(y)
    <3>1. ASSUME NEW j \in S, j < y PROVE j < x
      BY <2>1, <3>1
    <3>2. Under(y) \subseteq Under(x)
      BY <3>1
    <3>3. y \in Under(x)
      BY <2>1
    <3>4. y \notin Under(y)
      OBVIOUS
    <3> QED BY <3>2, <3>3, <3>4
  <2>3. <<Under(y), Under(x)>> \in StrictSubsetOrdering(1..n)
    BY <2>2 DEF StrictSubsetOrdering
  <2> QED BY <1>2, <1>3, <2>3
<1> QED BY <1>4

\* Max is the greatest element of a set of numbers up to n.
LEMMA MaxOf ==
  ASSUME NEW n \in Nat, NEW S \in SUBSET (1..n), S # {}
  PROVE  Max(S) \in S /\ \A y \in S : y <= Max(S)
<1> DEFINE Flip(x) == n + 1 - x
           T == {Flip(x) : x \in S}
<1>1. T \in SUBSET (1..n) /\ T # {}
  <2>1. ASSUME NEW x \in S PROVE Flip(x) \in 1..n
    OBVIOUS
  <2> QED BY <2>1
<1>2. PICK t \in T : \A u \in T : t <= u
  BY <1>1, LeastOf
<1>3. PICK x \in S : t = Flip(x)
  BY <1>2
<1>4. \A y \in S : Flip(x) <= Flip(y)
  BY <1>2, <1>3
<1>5. \A y \in S : x >= y
  BY <1>4
<1>6. Max(S) \in S /\ \A y \in S : Max(S) >= y
  BY <1>3, <1>5 DEF Max
<1> QED BY <1>6

-----------------------------------------------------------------------------
(* Sums.                                                                   *)

\* A nonempty collection of subsets of a finite set has one that is minimal for
\* inclusion.
LEMMA SmallestSet ==
  ASSUME NEW D, IsFiniteSet(D), NEW B \in SUBSET (SUBSET D), B # {}
  PROVE  \E u \in B : \A v \in B : ~(v \subseteq u /\ v # u)
<1>1. B \subseteq FiniteSubsetsOf(D)
  BY FS_Subset DEF FiniteSubsetsOf
<1>2. PICK u \in B : \A v \in B : ~(<<v, u>> \in StrictSubsetOrdering(D))
  BY <1>1, FS_StrictSubsetOrderingWellFounded, WFMin
<1>3. ASSUME NEW v \in B, v \subseteq u, v # u PROVE FALSE
  BY <1>2, <1>3 DEF StrictSubsetOrdering
<1> QED BY <1>3

\* The element a sum takes first, and what the sum over a set is, by that over
\* the others.
Pick(s) == CHOOSE y \in s : TRUE

Sums(f, g) ==
  g = [s \in SUBSET (DOMAIN f) |-> IF s = {} THEN 0 ELSE f[Pick(s)] + g[s \ {Pick(s)}]]

\* Total is the sum over the whole domain.
LEMMA TotalIsSum == ASSUME NEW f PROVE Total(f) = (CHOOSE g : Sums(f, g))[DOMAIN f]
BY Zenon DEF Total, MapThenSumSet, MapThenFoldSet, Sums, Pick

\* Two functions that add the same up are the same.
LEMMA SumsUnique ==
  ASSUME NEW f, IsFiniteSet(DOMAIN f), NEW g, Sums(f, g), NEW h, Sums(f, h)
  PROVE  g[DOMAIN f] = h[DOMAIN f]
<1> DEFINE B == {s \in SUBSET (DOMAIN f) : g[s] # h[s]}
<1>1. SUFFICES ASSUME B # {} PROVE FALSE
  OBVIOUS
<1>2. PICK s \in B : \A v \in B : ~(v \subseteq s /\ v # s)
  <2>1. B \in SUBSET (SUBSET (DOMAIN f))
    OBVIOUS
  <2> HIDE DEF B
  <2> QED BY <1>1, <2>1, SmallestSet
<1>3. CASE s = {}
  BY <1>3 DEF Sums
<1>4. CASE s # {}
  <2>1. Pick(s) \in s
    BY <1>4 DEF Pick
  <2>2. g[s \ {Pick(s)}] = h[s \ {Pick(s)}]
    BY <1>2, <2>1
  <2>3. g[s] = f[Pick(s)] + g[s \ {Pick(s)}] /\ h[s] = f[Pick(s)] + h[s \ {Pick(s)}]
    BY <1>4 DEF Sums
  <2> QED BY <2>2, <2>3
<1> QED BY <1>3, <1>4

\* Counting the elements of Q by their key and adding the counts up counts those
\* with a key there is a count of.
LEMMA TotalOfParts ==
  ASSUME NEW Q, IsFiniteSet(Q), NEW D, IsFiniteSet(D), NEW key,
         NEW f, f = [d \in D |-> Cardinality({q \in Q : key[q] = d})]
  PROVE  Total(f) = Cardinality({q \in Q : key[q] \in D})
<1> DEFINE Part(s) == {q \in Q : key[q] \in s}
           h == [s \in SUBSET D |-> Cardinality(Part(s))]
<1>1. DOMAIN f = D
  OBVIOUS
<1>2. ASSUME NEW s \in SUBSET D, s # {}
      PROVE  h[s] = f[Pick(s)] + h[s \ {Pick(s)}]
  <2>1. PICK p : p = Pick(s)
    OBVIOUS
  <2>2. p \in s
    BY <1>2, <2>1 DEF Pick
  <2> DEFINE One == {q \in Q : key[q] = p}
             Rest == Part(s \ {p})
  <2>3. IsFiniteSet(One) /\ IsFiniteSet(Rest)
    BY FS_Subset
  <2>4. One \cup Rest = Part(s) /\ One \cap Rest = {}
    BY <2>2
  <2>5. Cardinality(One) \in Nat /\ Cardinality(Rest) \in Nat
    BY <2>3, FS_CardinalityType
  <2>6. f[p] = Cardinality(One) /\ h[s] = Cardinality(Part(s)) /\ h[s \ {p}] = Cardinality(Rest)
    BY <2>2
  <2> HIDE DEF One, Rest, Part, h
  <2>7. Cardinality(One \cup Rest) = Cardinality(One) + Cardinality(Rest) - Cardinality({})
    BY <2>3, <2>4, FS_Union
  <2>8. Cardinality(Part(s)) = Cardinality(One) + Cardinality(Rest)
    BY <2>4, <2>5, <2>7, FS_EmptySet
  <2> QED BY <2>1, <2>6, <2>8
<1>3. h[{}] = 0
  <2>1. Part({}) = {}
    OBVIOUS
  <2> QED BY <2>1, FS_EmptySet
<1>4. Sums(f, h)
  <2>1. h = [s \in SUBSET D |-> h[s]]
    OBVIOUS
  <2>2. \A s \in SUBSET D :
          h[s] = IF s = {} THEN 0 ELSE f[Pick(s)] + h[s \ {Pick(s)}]
    <3> HIDE DEF h
    <3> QED BY <1>2, <1>3
  <2> HIDE DEF h
  <2>3. h = [s \in SUBSET D |-> IF s = {} THEN 0 ELSE f[Pick(s)] + h[s \ {Pick(s)}]]
    BY <2>1, <2>2
  <2> QED BY <1>1, <2>3, Zenon DEF Sums
<1>5. PICK g : g = CHOOSE x : Sums(f, x)
  OBVIOUS
<1> HIDE DEF h
<1>6. Sums(f, g)
  BY <1>4, <1>5, Zenon
<1>7. g[D] = h[D]
  BY <1>1, <1>4, <1>6, SumsUnique
<1>8. Total(f) = h[D]
  BY <1>1, <1>5, <1>7, TotalIsSum, Zenon
<1> QED BY <1>8 DEF h

-----------------------------------------------------------------------------
(* Days.                                                                   *)

\* A time lies in its day.
LEMMA DayBounds ==
  ASSUME NEW t \in Nat
  PROVE  Day(t) \in Nat /\ Day(t) * DayLength <= t /\ t < (Day(t) + 1) * DayLength
BY StatusAssumption DEF Day

\* Days follow each other.
LEMMA LaterDay ==
  ASSUME NEW d \in Int, NEW e \in Int, d <= e
  PROVE  d * DayLength <= e * DayLength
BY StatusAssumption

\* A time is on the day d or later iff it is not before the day's start.
LEMMA OnOrAfter ==
  ASSUME NEW t \in Nat, NEW d \in Int
  PROVE  t >= d * DayLength <=> Day(t) >= d
<1>1. Day(t) \in Nat /\ Day(t) * DayLength <= t /\ t < (Day(t) + 1) * DayLength
  BY DayBounds
<1>2. DayLength \in Nat
  BY StatusAssumption
<1>3. ASSUME Day(t) >= d PROVE t >= d * DayLength
  <2>1. d * DayLength <= Day(t) * DayLength
    BY <1>1, <1>3, LaterDay
  <2> QED BY <1>1, <1>2, <2>1
<1>4. ASSUME Day(t) < d PROVE t < d * DayLength
  <2>1. (Day(t) + 1) * DayLength <= d * DayLength
    BY <1>1, <1>4, LaterDay
  <2> QED BY <1>1, <1>2, <2>1
<1> QED BY <1>1, <1>2, <1>3, <1>4

-----------------------------------------------------------------------------
(* The invariant: no report has a time after every clock by which reports  *)
(* were filed or moved, and an account's count is the number of the        *)
(* requests whose search of it was committed.                              *)

Stamped == \A id \in Ids : rows[id].at <= stamped

Committed == {"counted"}

Searched(a) == {q \in Requests : request[q].at \in Committed /\ request[q].account = a}

CountsMatch == \A a \in Accounts : counts[a] = Cardinality(Searched(a))

StatusInv == TypeOK /\ Stamped /\ CountsMatch

\* The latest clock is one, and not before the one read.
LEMMA LatestClock ==
  ASSUME stamped \in 0..MaxTime, NEW now \in Clock
  PROVE  Latest(now) \in 0..MaxTime /\ now <= Latest(now) /\ stamped <= Latest(now)
BY StatusAssumption DEF Latest, Clock

\* A row that is found is a report.
LEMMA FoundRow ==
  ASSUME TypeOK, NEW id \in Found
  PROVE  id \in Ids /\ rows[id] \in Reports
BY DEF TypeOK, Found

\* The times of the rows are numbers.
LEMMA RowTimes ==
  ASSUME TypeOK, NEW id \in Ids
  PROVE  rows[id].at \in Nat /\ (rows[id] # NoRow => rows[id] \in Reports)
BY DEF TypeOK, Reports, NoRow

\* The invariant holds initially.
LEMMA StatusInit == Init => StatusInv
<1> SUFFICES ASSUME Init PROVE StatusInv
  OBVIOUS
<1>1. TypeOK /\ Stamped
  BY StatusAssumption DEF Init, TypeOK, Stamped, NoRow
<1>2. ASSUME NEW a \in Accounts PROVE counts[a] = Cardinality(Searched(a))
  <2>1. Searched(a) = {}
    BY DEF Init, Searched, Committed
  <2> QED BY <2>1, FS_EmptySet DEF Init
<1> QED BY <1>1, <1>2 DEF StatusInv, CountsMatch

\* A report takes the place of a row: what is left to show is that its time is not
\* after the latest clock.
LEMMA RowKeeps ==
  ASSUME StatusInv, NEW id \in Ids, NEW new \in Reports \cup {NoRow},
         rows' = [rows EXCEPT ![id] = new], UNCHANGED <<counts, request>>,
         stamped' \in 0..MaxTime, stamped <= stamped', new.at <= stamped'
  PROVE  TypeOK' /\ Stamped'
<1>1. TypeOK'
  BY DEF StatusInv, TypeOK
<1>2. ASSUME NEW k \in Ids PROVE rows'[k].at <= stamped'
  <2>1. rows[k].at \in Nat /\ rows[k].at <= stamped /\ stamped \in Nat /\ stamped' \in Nat
    BY RowTimes, StatusAssumption DEF StatusInv, Stamped, TypeOK
  <2>2. rows'[k] = IF k = id THEN new ELSE rows[k]
    BY DEF StatusInv, TypeOK
  <2> QED BY <2>1, <2>2
<1> QED BY <1>1, <1>2 DEF Stamped

\* A report is filed.
LEMMA FileKeeps ==
  ASSUME StatusInv, NEW id \in Ids, File(id)
  PROVE  TypeOK' /\ Stamped'
<1>1. PICK a \in Accounts, now \in Clock :
        /\ \E asked \in 0..MaxTime : \E at \in ReversedAt(asked, now) :
             rows' = [rows EXCEPT ![id] =
                        [account |-> a, at |-> at, expunged |-> FALSE, deleted |-> FALSE]]
        /\ stamped' = Latest(now)
  BY DEF File
<1>2. PICK asked \in 0..MaxTime : \E at \in ReversedAt(asked, now) :
        rows' = [rows EXCEPT ![id] =
                   [account |-> a, at |-> at, expunged |-> FALSE, deleted |-> FALSE]]
  BY <1>1
<1>3. PICK at \in ReversedAt(asked, now) :
        rows' = [rows EXCEPT ![id] =
                   [account |-> a, at |-> at, expunged |-> FALSE, deleted |-> FALSE]]
  BY <1>2
<1>4. at \in 1..now /\ now \in Nat
  BY StatusAssumption DEF ReversedAt, Clock
<1>5. PICK new : new = [account |-> a, at |-> at, expunged |-> FALSE, deleted |-> FALSE]
  OBVIOUS
<1>6. new \in Reports /\ new.at = at
  BY <1>4, <1>5 DEF Reports
<1>7. rows' = [rows EXCEPT ![id] = new] /\ UNCHANGED <<counts, request>>
  BY <1>3, <1>5 DEF File
<1>8. stamped' \in 0..MaxTime /\ now <= stamped' /\ stamped <= stamped'
  BY <1>1, LatestClock DEF StatusInv, TypeOK
<1>9. new.at <= stamped'
  BY <1>4, <1>6, <1>8, StatusAssumption
<1> QED BY <1>6, <1>7, <1>8, <1>9, RowKeeps

\* A report is moved to another time.
LEMMA ModifyKeeps ==
  ASSUME StatusInv, NEW id \in Ids, Modify(id)
  PROVE  TypeOK' /\ Stamped'
<1>1. PICK now \in Clock :
        /\ \E at \in ModifiedAt(now), expunged \in {rows[id].expunged, TRUE} :
             rows' = [rows EXCEPT ![id].at = at, ![id].expunged = expunged]
        /\ stamped' = Latest(now)
  BY DEF Modify
<1>2. PICK at \in ModifiedAt(now), expunged \in {rows[id].expunged, TRUE} :
        rows' = [rows EXCEPT ![id].at = at, ![id].expunged = expunged]
  BY <1>1
<1>3. rows[id] \in Reports
  BY FoundRow DEF StatusInv, Modify
<1>4. at \in 1..now /\ now \in Nat
  BY StatusAssumption DEF ModifiedAt, Clock
<1>5. PICK new : new = [rows[id] EXCEPT !.at = at, !.expunged = expunged]
  OBVIOUS
<1>6. new \in Reports /\ new.at = at
  <2>1. expunged \in BOOLEAN
    BY <1>3 DEF Reports
  <2>2. at \in Nat \ {0}
    BY <1>4
  <2> QED BY <1>3, <1>5, <2>1, <2>2 DEF Reports
<1>7. rows' = [rows EXCEPT ![id] = new] /\ UNCHANGED <<counts, request>>
  BY <1>2, <1>5 DEF Modify, StatusInv, TypeOK
<1>8. stamped' \in 0..MaxTime /\ now <= stamped' /\ stamped <= stamped'
  BY <1>1, LatestClock DEF StatusInv, TypeOK
<1>9. new.at <= stamped'
  BY <1>4, <1>6, <1>8, StatusAssumption
<1> QED BY <1>6, <1>7, <1>8, <1>9, RowKeeps

\* A report is expunged or deleted: its time stays.
LEMMA ChangeKeeps ==
  ASSUME StatusInv, NEW id \in Ids, Expunge(id) \/ Delete(id)
  PROVE  TypeOK' /\ Stamped'
<1>1. rows[id] \in Reports
  BY FoundRow DEF StatusInv, Expunge, Delete, Shown
<1>2. PICK new : new \in Reports /\ new.at = rows[id].at /\ rows' = [rows EXCEPT ![id] = new]
  <2>1. CASE Expunge(id)
    <3>1. [rows[id] EXCEPT !.expunged = TRUE] \in Reports
      BY <1>1 DEF Reports
    <3>2. [rows[id] EXCEPT !.expunged = TRUE].at = rows[id].at
      BY <1>1 DEF Reports
    <3>3. rows' = [rows EXCEPT ![id] = [rows[id] EXCEPT !.expunged = TRUE]]
      BY <2>1 DEF Expunge, StatusInv, TypeOK
    <3> QED BY <3>1, <3>2, <3>3
  <2>2. CASE Delete(id)
    <3>1. [rows[id] EXCEPT !.deleted = TRUE] \in Reports
      BY <1>1 DEF Reports
    <3>2. [rows[id] EXCEPT !.deleted = TRUE].at = rows[id].at
      BY <1>1 DEF Reports
    <3>3. rows' = [rows EXCEPT ![id] = [rows[id] EXCEPT !.deleted = TRUE]]
      BY <2>2 DEF Delete, StatusInv, TypeOK
    <3> QED BY <3>1, <3>2, <3>3
  <2> QED BY <2>1, <2>2
<1>3. UNCHANGED <<stamped, counts, request>>
  BY DEF Expunge, Delete
<1>4. stamped' \in 0..MaxTime /\ stamped <= stamped' /\ new.at <= stamped'
  BY <1>2, <1>3, StatusAssumption DEF StatusInv, TypeOK, Stamped
<1> QED BY <1>2, <1>3, <1>4, RowKeeps

\* The reports of an account are erased.
LEMMA EraseKeeps ==
  ASSUME StatusInv, NEW a \in Accounts, Erase(a)
  PROVE  TypeOK' /\ Stamped'
<1>1. UNCHANGED <<stamped, counts, request>>
  BY DEF Erase
<1>2. rows' \in [Ids -> Reports \cup {NoRow}]
      /\ \A id \in Ids : rows'[id] = NoRow \/ rows'[id] = rows[id]
  BY DEF Erase, StatusInv, TypeOK
<1>3. TypeOK'
  BY <1>1, <1>2 DEF StatusInv, TypeOK
<1>4. NoRow.at <= stamped
  BY StatusAssumption DEF NoRow, StatusInv, TypeOK
<1>5. Stamped'
  BY <1>1, <1>2, <1>4 DEF StatusInv, Stamped
<1> QED BY <1>3, <1>5

\* Where a request stands, and what it holds.
States ==
  [at : {"new", "done"}]
    \cup [at : {"listed", "inserting", "counted"}, account : Accounts]
    \cup [at : {"clock"}, today : Nat, days : DaysAsked]

\* A request that looks an account up has the account, and keeps it.
LEMMA SearchMoves ==
  ASSUME StatusInv, NEW q \in Requests, request[q].at \in {"listed", "inserting"},
         NEW at \in {"inserting", "counted"},
         request' = [request EXCEPT ![q].at = at]
  PROVE  \E new \in States :
           /\ request' = [request EXCEPT ![q] = new]
           /\ new.at = at /\ new.account = request[q].account
           /\ request[q].account \in Accounts
<1>1. request[q] \in [at : {"listed", "inserting", "counted"}, account : Accounts]
  BY DEF StatusInv, TypeOK
<1>2. PICK new : new = [request[q] EXCEPT !.at = at]
  OBVIOUS
<1>3. new \in States /\ new.at = at /\ new.account = request[q].account
  BY <1>1, <1>2 DEF States
<1>4. request' = [request EXCEPT ![q] = new]
  BY <1>2 DEF StatusInv, TypeOK
<1> QED BY <1>1, <1>3, <1>4

\* The searches that were committed change with the request that moves, only.
LEMMA SearchedMoves ==
  ASSUME StatusInv, NEW q \in Requests, NEW new,
         request' = [request EXCEPT ![q] = new], request[q].at \notin Committed,
         NEW a \in Accounts
  PROVE  Searched(a)' = IF new.at \in Committed /\ new.account = a
                        THEN Searched(a) \cup {q} ELSE Searched(a)
BY DEF StatusInv, TypeOK, Searched

\* An account's searches are a set that can be counted.
LEMMA SearchedFinite ==
  ASSUME NEW a
  PROVE  IsFiniteSet(Searched(a)) /\ Cardinality(Searched(a)) \in Nat
BY StatusAssumption, FS_Subset, FS_CardinalityType DEF Searched

\* A request goes on and nothing is counted.
LEMMA NotCounted ==
  ASSUME StatusInv, NEW q \in Requests, NEW new \in States,
         request' = [request EXCEPT ![q] = new], UNCHANGED <<rows, stamped, counts>>,
         request[q].at \notin Committed, new.at \notin Committed
  PROVE  StatusInv'
<1>1. TypeOK' /\ Stamped'
  BY DEF StatusInv, TypeOK, Stamped, States
<1>2. \A a \in Accounts : Searched(a)' = Searched(a)
  BY SearchedMoves
<1> QED BY <1>1, <1>2 DEF StatusInv, CountsMatch

\* A request's search is committed, and the count of its account grows by one.
LEMMA CountGrows ==
  ASSUME StatusInv, NEW q \in Requests, NEW new \in States,
         request' = [request EXCEPT ![q] = new], request[q].at \notin Committed,
         new.at \in Committed, NEW b \in Accounts, new.account = b,
         UNCHANGED <<rows, stamped>>, counts' = [counts EXCEPT ![b] = counts[b] + 1]
  PROVE  StatusInv'
<1>1. TypeOK' /\ Stamped'
  BY DEF StatusInv, TypeOK, Stamped, States
<1>2. ASSUME NEW a \in Accounts PROVE counts'[a] = Cardinality(Searched(a)')
  <2>1. CASE a = b
    <3>1. Searched(a)' = Searched(a) \cup {q}
      BY <2>1, SearchedMoves
    <3>2. q \notin Searched(a)
      BY DEF Searched
    <3>3. Cardinality(Searched(a) \cup {q}) = Cardinality(Searched(a)) + 1
      BY <3>2, SearchedFinite, FS_AddElement
    <3>4. counts'[a] = counts[a] + 1
      BY <2>1 DEF StatusInv, TypeOK
    <3> QED BY <3>1, <3>3, <3>4 DEF StatusInv, CountsMatch
  <2>2. CASE a # b
    <3>1. Searched(a)' = Searched(a)
      BY <2>2, SearchedMoves
    <3>2. counts'[a] = counts[a]
      BY <2>2 DEF StatusInv, TypeOK
    <3> QED BY <3>1, <3>2 DEF StatusInv, CountsMatch
  <2> QED BY <2>1, <2>2
<1> QED BY <1>1, <1>2 DEF StatusInv, CountsMatch

\* A step of an upsert: it finds no row, inserts one, or updates one.
LEMMA SearchKeeps ==
  ASSUME StatusInv, NEW q \in Requests,
         FindNone(q) \/ InsertSearch(q) \/ UpdateSearch(q)
  PROVE  StatusInv'
<1>1. PICK b : b = request[q].account
  OBVIOUS
<1>2. request[q].at \in {"listed", "inserting"} /\ UNCHANGED <<rows, stamped>>
  BY DEF FindNone, InsertSearch, UpdateSearch
<1>3. request[q].at \notin Committed
  BY <1>2 DEF Committed
<1>4. PICK at \in {"inserting", "counted"} :
        /\ request' = [request EXCEPT ![q].at = at]
        /\ at \notin Committed => UNCHANGED counts
        /\ at \in Committed =>
             counts' = [counts EXCEPT ![b] = IF counts[b] = 0 THEN 1 ELSE counts[b] + 1]
  <2>1. CASE FindNone(q)
    BY <2>1 DEF FindNone, Committed
  <2>2. CASE InsertSearch(q)
    BY <1>1, <2>2 DEF InsertSearch, Committed
  <2>3. CASE UpdateSearch(q)
    BY <1>1, <2>3 DEF UpdateSearch, OnConflict, Committed
  <2> QED BY <2>1, <2>2, <2>3
<1>5. PICK new \in States :
        /\ request' = [request EXCEPT ![q] = new]
        /\ new.at = at /\ new.account = request[q].account
        /\ request[q].account \in Accounts
  BY <1>2, <1>4, SearchMoves
<1>6. CASE at \notin Committed
  BY <1>2, <1>3, <1>4, <1>5, <1>6, NotCounted
<1>7. CASE at \in Committed
  <2>1. b \in Accounts /\ new.account = b
    BY <1>1, <1>5
  <2>2. counts' = [counts EXCEPT ![b] = counts[b] + 1]
    BY <1>4, <1>7, <2>1 DEF StatusInv, TypeOK
  <2> QED BY <1>2, <1>3, <1>5, <1>7, <2>1, <2>2, CountGrows
<1> QED BY <1>6, <1>7

\* A lookup begins or fails to count, or the clock is read, or the days after it.
LEMMA ReadKeeps ==
  ASSUME StatusInv, NEW q \in Requests,
         LookUp(q) \/ CountFails(q) \/ ReadClock(q) \/ CountDays(q)
  PROVE  StatusInv'
<1>1. request[q].at \notin Committed /\ UNCHANGED <<rows, stamped, counts>>
  BY DEF LookUp, CountFails, ReadClock, CountDays, Committed
<1>2. CASE LookUp(q)
  <2>1. PICK a \in Accounts : request' = [request EXCEPT ![q] = [at |-> "listed", account |-> a]]
    BY <1>2 DEF LookUp
  <2>2. PICK new : new = [at |-> "listed", account |-> a]
    OBVIOUS
  <2>3. new \in States /\ new.at \notin Committed
    BY <2>2 DEF States, Committed
  <2> QED BY <1>1, <2>1, <2>2, <2>3, NotCounted
<1>3. CASE ReadClock(q)
  <2>1. PICK days \in DaysAsked, now \in Clock :
          request' = [request EXCEPT ![q] = [at |-> "clock", today |-> Day(now), days |-> days]]
    BY <1>3 DEF ReadClock
  <2>2. Day(now) \in Nat
    BY DayBounds, StatusAssumption DEF Clock
  <2>3. PICK new : new = [at |-> "clock", today |-> Day(now), days |-> days]
    OBVIOUS
  <2>4. new \in States /\ new.at \notin Committed
    BY <2>2, <2>3 DEF States, Committed
  <2> QED BY <1>1, <2>1, <2>3, <2>4, NotCounted
<1>4. CASE CountFails(q) \/ CountDays(q)
  <2>1. PICK new : new = [at |-> "done"]
    OBVIOUS
  <2>2. request' = [request EXCEPT ![q] = new]
    BY <1>4, <2>1 DEF CountFails, CountDays
  <2>3. new \in States /\ new.at \notin Committed
    BY <2>1 DEF States, Committed
  <2> QED BY <1>1, <2>2, <2>3, NotCounted
<1> QED BY <1>2, <1>3, <1>4

\* Every step keeps the invariant.
LEMMA StatusStep == StatusInv /\ [Next]_vars => StatusInv'
<1> SUFFICES ASSUME StatusInv, [Next]_vars PROVE StatusInv'
  OBVIOUS
<1>1. ASSUME UNCHANGED <<counts, request>> PROVE CountsMatch'
  BY <1>1 DEF StatusInv, CountsMatch, Searched
<1>2. ASSUME NEW id \in Ids, File(id) \/ Expunge(id) \/ Modify(id) \/ Delete(id)
      PROVE  StatusInv'
  <2>1. TypeOK' /\ Stamped'
    BY <1>2, FileKeeps, ModifyKeeps, ChangeKeeps
  <2>2. UNCHANGED <<counts, request>>
    BY <1>2 DEF File, Expunge, Modify, Delete
  <2> QED BY <1>1, <2>1, <2>2 DEF StatusInv
<1>3. ASSUME NEW a \in Accounts, Erase(a) PROVE StatusInv'
  <2>1. UNCHANGED <<counts, request>>
    BY <1>3 DEF Erase
  <2> QED BY <1>1, <1>3, <2>1, EraseKeeps DEF StatusInv
<1>4. ASSUME NEW q \in Requests,
             \/ LookUp(q) \/ FindNone(q) \/ InsertSearch(q) \/ UpdateSearch(q) \/ CountFails(q)
             \/ ReadClock(q) \/ CountDays(q)
      PROVE  StatusInv'
  BY <1>4, SearchKeeps, ReadKeeps
<1>5. CASE UNCHANGED vars
  BY <1>1, <1>5 DEF vars, StatusInv, TypeOK, Stamped
<1> QED BY <1>2, <1>3, <1>4, <1>5 DEF Next

-----------------------------------------------------------------------------
(* The time of a status.                                                   *)

\* The reports visited are those from the newest standing one on; their times
\* are a set of numbers up to the present.
LEMMA StatusSound == StatusInv => LastReversalSound
<1> SUFFICES ASSUME StatusInv, NEW a \in Accounts, HasReversed(a)
    PROVE  LET newest == Max(Listed(a) \cap Standing) IN
           /\ LastReversal(a) \in {rows[id].at : id \in Listed(a)}
           /\ LastReversal(a) <= stamped
           /\ LastReversal(a) >= rows[newest].at
           /\ Listed(a) \subseteq Standing => LastReversal(a) = rows[newest].at
  BY DEF LastReversalSound
<1> DEFINE S == Listed(a) \cap Standing
           newest == Max(S)
           T == {rows[id].at : id \in Visited(a)}
<1>1. S \in SUBSET (1..MaxId) /\ S # {}
  BY DEF HasReversed, Listed, Found, Standing, Ids
<1>2. newest \in S /\ \A y \in S : y <= newest
  BY <1>1, MaxOf, StatusAssumption
<1>3. newest \in Visited(a)
  <2>1. \A s \in Listed(a) : ~rows[s].expunged => s \in S
    BY DEF Listed, Found, Standing
  <2> QED BY <1>2, <2>1 DEF Visited
<1>4. ASSUME NEW id \in Listed(a) PROVE rows[id].at \in 1..stamped
  <2>1. id \in Ids /\ rows[id] \in Reports
    BY <1>4, FoundRow DEF Listed, StatusInv
  <2>2. stamped \in Nat
    BY StatusAssumption DEF StatusInv, TypeOK
  <2> QED BY <2>1, <2>2 DEF StatusInv, Stamped, Reports
<1>5. Visited(a) \subseteq Listed(a)
  BY DEF Visited
<1>6. T \in SUBSET (1..stamped) /\ T # {} /\ stamped \in Nat
  BY <1>3, <1>4, <1>5, StatusAssumption DEF StatusInv, TypeOK
<1>7. Max(T) \in T /\ \A y \in T : y <= Max(T)
  BY <1>6, MaxOf
<1>8. LastReversal(a) = Max(T)
  BY DEF LastReversal
<1>9. LastReversal(a) \in {rows[id].at : id \in Listed(a)}
  BY <1>5, <1>7, <1>8
<1>10. LastReversal(a) \in 1..stamped /\ rows[newest].at \in T /\ rows[newest].at \in 1..stamped
  <2>1. rows[newest].at \in T
    BY <1>3
  <2>2. LastReversal(a) \in T
    BY <1>7, <1>8
  <2> HIDE DEF T
  <2> QED BY <1>6, <2>1, <2>2
<1>11. LastReversal(a) <= stamped /\ LastReversal(a) >= rows[newest].at
  <2> HIDE DEF T
  <2>1. rows[newest].at <= LastReversal(a)
    BY <1>7, <1>8, <1>10
  <2> QED BY <1>6, <1>10, <2>1
<1>12. ASSUME Listed(a) \subseteq Standing PROVE LastReversal(a) = rows[newest].at
  <2>1. ASSUME NEW id \in Visited(a) PROVE id = newest
    <3>1. ~rows[newest].expunged /\ newest \in Listed(a)
      BY <1>2 DEF Standing
    <3>2. id \in S /\ newest <= id /\ id <= newest
      BY <1>2, <1>5, <1>12, <2>1, <3>1 DEF Visited
    <3> QED BY <1>1, <1>2, <3>2
  <2>2. \A t \in T : t = rows[newest].at
    BY <2>1
  <2> QED BY <1>7, <1>8, <2>2
<1> QED BY <1>9, <1>11, <1>12

-----------------------------------------------------------------------------
(* The endpoints.                                                          *)

\* The reports that stand are finitely many, none after the latest clock.
LEMMA StandingFacts ==
  ASSUME StatusInv
  PROVE  /\ IsFiniteSet(Standing)
         /\ \A id \in Standing :
              rows[id].at \in 1..stamped /\ rows[id].account \in Accounts
         /\ stamped \in Nat
<1>1. IsFiniteSet(Standing)
  <2>1. IsFiniteSet(Ids)
    BY FS_Interval, StatusAssumption DEF Ids
  <2> QED BY <2>1, FS_Subset DEF Standing
<1>2. stamped \in Nat
  BY StatusAssumption DEF StatusInv, TypeOK
<1>3. ASSUME NEW id \in Standing
      PROVE  rows[id].at \in 1..stamped /\ rows[id].account \in Accounts
  <2>1. id \in Ids /\ rows[id] \in Reports
    BY <1>3, FoundRow DEF Standing, Found, StatusInv
  <2> QED BY <1>2, <2>1 DEF StatusInv, Stamped, Reports
<1> QED BY <1>1, <1>2, <1>3

\* Of the reports that stand, one is after all others: the newest of the latest
\* time.
LEMMA LatestStanding ==
  ASSUME StatusInv, Standing # {}
  PROVE  \E id \in Standing : \A j \in Standing : ~Before(j, id)
<1> DEFINE Times == {rows[id].at : id \in Standing}
<1>1. Times \in SUBSET (1..stamped) /\ Times # {} /\ stamped \in Nat
  BY StandingFacts
<1>2. PICK t : t \in Times /\ \A u \in Times : u <= t
  <2> HIDE DEF Times
  <2> QED BY <1>1, MaxOf
<1> DEFINE Last == {id \in Standing : rows[id].at = t}
<1>3. Last \in SUBSET (1..MaxId) /\ Last # {}
  BY <1>2 DEF Standing, Ids
<1>4. PICK id : id \in Last /\ \A j \in Last : j <= id
  <2> HIDE DEF Last
  <2> QED BY <1>3, MaxOf, StatusAssumption
<1>5. ASSUME NEW j \in Standing PROVE ~Before(j, id)
  <2>1. rows[j].at \in Times /\ rows[j].at <= t /\ rows[id].at = t
    BY <1>2, <1>4
  <2>2. rows[j].at \in Nat /\ t \in Nat /\ j \in Nat /\ id \in Nat
    BY <1>1, <1>2, <1>3, <1>4, StandingFacts DEF Standing, Ids
  <2>3. rows[j].at = t => j <= id
    BY <1>4
  <2> HIDE DEF Times, Last
  <2> QED BY <2>1, <2>2, <2>3 DEF Before
<1> QED BY <1>4, <1>5

\* Some report is recent, whatever the limit, if any stands.
LEMMA SomeRecent ==
  ASSUME StatusInv, NEW n \in Limits, Standing # {}
  PROVE  Recent(n) # {}
<1>1. PICK id \in Standing : \A j \in Standing : ~Before(j, id)
  BY LatestStanding
<1>2. {j \in Standing : Before(j, id)} = {}
  BY <1>1
<1>3. Cardinality({j \in Standing : Before(j, id)}) = 0
  BY <1>2, FS_EmptySet
<1>4. 0 < n
  BY StatusAssumption
<1>5. Shown = Standing
  BY DEF Shown, Found, Standing
<1> QED BY <1>3, <1>4, <1>5 DEF Recent

\* The days of a window add up to the reports that stand and whose time lies in
\* the window.
LEMMA WindowTotal ==
  ASSUME StatusInv, NEW today \in Nat, NEW days \in Nat \ {0}
  PROVE  Total(DailyCounts(today, days)) =
           Cardinality({id \in Standing : Day(rows[id].at) \in (today + 1 - days)..today})
<1> DEFINE first == today + 1 - days
           found == {id \in Standing : rows[id].at >= first * DayLength}
           key == [id \in Standing |-> Day(rows[id].at)]
<1>1. ASSUME NEW id \in Standing
      PROVE  Day(rows[id].at) \in Nat /\ (id \in found <=> Day(rows[id].at) >= first)
  BY StandingFacts, DayBounds, OnOrAfter
<1>2. IsFiniteSet(found) /\ IsFiniteSet(first..today)
  <2>1. IsFiniteSet(found)
    BY StandingFacts, FS_Subset
  <2>2. first \in Int
    OBVIOUS
  <2> QED BY <2>1, <2>2, FS_Interval
<1>3. DailyCounts(today, days) =
        [d \in first..today |-> Cardinality({id \in found : key[id] = d})]
  <2>1. \A d : {id \in found : Day(rows[id].at) = d} = {id \in found : key[id] = d}
    OBVIOUS
  <2> QED BY <2>1 DEF DailyCounts, WindowStart
<1>4. {id \in found : key[id] \in first..today} =
        {id \in Standing : Day(rows[id].at) \in first..today}
  BY <1>1
<1> HIDE DEF found, key
<1>5. Total(DailyCounts(today, days)) = Cardinality({id \in found : key[id] \in first..today})
  BY <1>2, <1>3, TotalOfParts
<1> QED BY <1>4, <1>5

\* The accounts of the last 24 hours of a clock have reports in the days counted
\* from another, or after them.
LEMMA FlaggedCounted ==
  ASSUME StatusInv, NEW now \in Nat, NEW today \in Nat, NEW days \in Nat \ {0},
         today + 1 - days < Day(now)
  PROVE  Cardinality(Flagged24h(now)) <=
           Total(DailyCounts(today, days))
             + Cardinality({id \in Standing : Day(rows[id].at) > today})
<1> DEFINE late == {s \in Standing : rows[s].at + DayLength >= now}
           window == {id \in Standing : Day(rows[id].at) \in (today + 1 - days)..today}
           after == {id \in Standing : Day(rows[id].at) > today}
<1>1. Day(now) \in Nat /\ Day(now) * DayLength <= now /\ DayLength \in Nat
  BY DayBounds, StatusAssumption
<1>2. ASSUME NEW s \in late PROVE s \in window \cup after
  <2>1. rows[s].at \in Nat /\ rows[s].at + DayLength >= now
    BY StandingFacts
  <2>2. (Day(now) - 1) * DayLength <= rows[s].at
    <3>1. (Day(now) - 1) * DayLength = Day(now) * DayLength - DayLength
      BY <1>1
    <3>2. Day(now) * DayLength \in Nat
      BY <1>1
    <3> QED BY <1>1, <2>1, <3>1, <3>2
  <2>3. Day(rows[s].at) \in Nat /\ Day(rows[s].at) >= Day(now) - 1
    <3>1. PICK t, d : t = rows[s].at /\ d = Day(now) - 1
      OBVIOUS
    <3>2. t \in Nat /\ d \in Int /\ t >= d * DayLength
      BY <1>1, <2>1, <2>2, <3>1
    <3>3. Day(t) \in Nat /\ Day(t) >= d
      BY <3>2, OnOrAfter, DayBounds
    <3> QED BY <3>1, <3>3
  <2>4. today + 1 - days <= Day(rows[s].at)
    BY <1>1, <2>3
  <2> QED BY <2>3, <2>4
<1>3. IsFiniteSet(late) /\ IsFiniteSet(window) /\ IsFiniteSet(after)
  BY StandingFacts, FS_Subset
<1>4. late \in SUBSET (window \cup after)
  BY <1>2
<1>5. Flagged24h(now) = {rows[id].account : id \in late}
  BY DEF Flagged24h
<1>6. window \cap after = {}
  <2>1. ASSUME NEW s \in Standing PROVE Day(rows[s].at) \in Nat
    BY StandingFacts, DayBounds
  <2> QED BY <2>1
<1>7. Total(DailyCounts(today, days)) = Cardinality(window)
  BY WindowTotal
<1> HIDE DEF late, window
<1>8. Cardinality(Flagged24h(now)) <= Cardinality(late) /\ IsFiniteSet(Flagged24h(now))
  <2> DEFINE f == [id \in late |-> rows[id].account]
  <2>1. f \in Surjection(late, Flagged24h(now))
    BY <1>5 DEF Surjection
  <2> QED BY <1>3, <2>1, FS_Surjection
<1> HIDE DEF after
<1>9. IsFiniteSet(window \cup after)
      /\ Cardinality(window \cup after) = Cardinality(window) + Cardinality(after) - Cardinality({})
  BY <1>3, <1>6, FS_Union
<1>10. Cardinality(late) <= Cardinality(window \cup after)
  BY <1>4, <1>9, FS_Subset
<1>11. /\ Cardinality(Flagged24h(now)) \in Nat /\ Cardinality(late) \in Nat
       /\ Cardinality(window) \in Nat /\ Cardinality(after) \in Nat /\ Cardinality({}) = 0
  BY <1>3, <1>8, FS_CardinalityType, FS_EmptySet
<1>12. Cardinality(Flagged24h(now)) <= Total(DailyCounts(today, days)) + Cardinality(after)
  BY <1>7, <1>8, <1>9, <1>10, <1>11
<1> QED BY <1>12 DEF after

\* The searches of all accounts are the requests whose search was committed, and
\* the accounts with a count are those of the requests.
LEMMA SearchesMatch == StatusInv => SearchesCounted
<1> SUFFICES ASSUME StatusInv PROVE SearchesCounted
  OBVIOUS
<1> DEFINE Q == {q \in Requests : request[q].at = "counted"}
           key == [q \in Q |-> request[q].account]
<1>1. IsFiniteSet(Q) /\ IsFiniteSet(Accounts)
  BY StatusAssumption, FS_Subset
<1>2. ASSUME NEW a \in Accounts
      PROVE  Searched(a) = {q \in Q : key[q] = a}
  BY DEF Searched, Committed
<1>3. counts = [a \in Accounts |-> Cardinality({q \in Q : key[q] = a})]
  <2> HIDE DEF Q, key
  <2>1. counts = [a \in Accounts |-> counts[a]]
    BY DEF StatusInv, TypeOK
  <2>2. \A a \in Accounts : counts[a] = Cardinality({q \in Q : key[q] = a})
    BY <1>2 DEF StatusInv, CountsMatch
  <2> QED BY <2>1, <2>2
<1>4. ASSUME NEW q \in Q PROVE key[q] \in Accounts /\ key[q] = request[q].account
  BY DEF StatusInv, TypeOK
<1>5. {q \in Q : key[q] \in Accounts} = Q
  BY <1>4
<1>6. Total(counts) = Cardinality(Q)
  <2> HIDE DEF Q, key
  <2>1. Total(counts) = Cardinality({q \in Q : key[q] \in Accounts})
    BY <1>1, <1>3, TotalOfParts
  <2> QED BY <1>5, <2>1
<1>7. ASSUME NEW a \in Accounts
      PROVE  counts[a] # 0 <=> a \in {request[q].account : q \in Q}
  <2>1. counts[a] = Cardinality(Searched(a))
    BY DEF StatusInv, CountsMatch
  <2>2. counts[a] = 0 <=> Searched(a) = {}
    BY <2>1, SearchedFinite, FS_EmptySet
  <2>3. Searched(a) # {} <=> \E q \in Q : request[q].account = a
    BY DEF Searched, Committed
  <2> QED BY <2>2, <2>3
<1>8. {a \in Accounts : counts[a] # 0} = {request[q].account : q \in Q}
  BY <1>4, <1>7
<1> QED BY <1>6, <1>8 DEF SearchesCounted

\* The invariant makes the endpoints agree.
LEMMA StatusAgree == StatusInv => EndpointsAgree
<1> SUFFICES ASSUME StatusInv PROVE EndpointsAgree
  OBVIOUS
<1>1. Shown = Standing
  BY DEF Shown, Found, Standing
<1>2. Flagged = {a \in Accounts : HasReversed(a)}
  <2>1. \A id \in Standing : rows[id].account \in Accounts
    BY StandingFacts
  <2>2. \A a : HasReversed(a) <=> \E id \in Standing : rows[id].account = a
    BY DEF HasReversed, Listed, Found, Standing
  <2> QED BY <2>1, <2>2 DEF Flagged
<1>3. ASSUME NEW n \in Limits
      PROVE  /\ {rows[id].account : id \in Recent(n)} \subseteq Flagged
             /\ Flagged # {} => Recent(n) # {}
  <2>1. {rows[id].account : id \in Recent(n)} \subseteq Flagged
    BY <1>1 DEF Recent, Flagged
  <2>2. Flagged # {} => Standing # {}
    BY DEF Flagged
  <2> QED BY <2>1, <2>2, SomeRecent
<1>4. ASSUME NEW now \in Clock, NEW other \in Clock, NEW days \in DaysAsked,
             Day(other) + 1 - days < Day(now)
      PROVE  Cardinality(Flagged24h(now)) <=
               Total(DailyCounts(Day(other), days))
                 + Cardinality({id \in Standing : Day(rows[id].at) > Day(other)})
  <2>1. now \in Nat /\ Day(other) \in Nat /\ days \in Nat \ {0}
    BY DayBounds, StatusAssumption DEF Clock
  <2> QED BY <1>4, <2>1, FlaggedCounted
<1> QED BY <1>2, <1>3, <1>4 DEF EndpointsAgree

\* The days of an answer, once the invariant holds.
LEMMA DaysStep ==
  ASSUME StatusInv, NEW q \in Requests, CountDays(q)
  PROVE  LET today == request[q].today
             asked == request[q].days
             days == DailyCounts(today, asked)
         IN  /\ Cardinality(DOMAIN days) = asked
             /\ Total(days) =
                  Cardinality({id \in Standing : today - Day(rows[id].at) \in 0..(asked - 1)})
<1>1. PICK today, asked : today = request[q].today /\ asked = request[q].days
  OBVIOUS
<1>2. today \in Nat /\ asked \in Nat \ {0}
  BY <1>1, StatusAssumption DEF CountDays, StatusInv, TypeOK
<1>3. DOMAIN DailyCounts(today, asked) = (today + 1 - asked)..today
  BY DEF DailyCounts, WindowStart
<1>4. Cardinality((today + 1 - asked)..today) = asked
  BY <1>2, FS_Interval
<1>5. ASSUME NEW id \in Standing
      PROVE  Day(rows[id].at) \in (today + 1 - asked)..today
               <=> today - Day(rows[id].at) \in 0..(asked - 1)
  <2>1. Day(rows[id].at) \in Nat
    BY StandingFacts, DayBounds
  <2> QED BY <1>2, <2>1
<1>6. {id \in Standing : Day(rows[id].at) \in (today + 1 - asked)..today} =
        {id \in Standing : today - Day(rows[id].at) \in 0..(asked - 1)}
  BY <1>5
<1>7. Total(DailyCounts(today, asked)) =
        Cardinality({id \in Standing : today - Day(rows[id].at) \in 0..(asked - 1)})
  BY <1>2, <1>6, WindowTotal
<1> QED BY <1>1, <1>3, <1>4, <1>7

\* Every variable keeps its type.
THEOREM StatusTypes == Spec => []TypeOK
<1>1. StatusInv => TypeOK
  BY DEF StatusInv
<1> QED BY <1>1, StatusInit, StatusStep, PTL DEF Spec

\* The time of a status is that of a report, however often reports were moved: not
\* before that of the newest report that stands, and not after every clock by which
\* reports were filed or moved.
THEOREM TimeOfStatus == Spec => []LastReversalSound
BY StatusInit, StatusStep, StatusSound, PTL DEF Spec

\* The endpoints agree on who has reversed a trade, and on the last 24 hours
\* whatever the clocks of the instances that answer.
THEOREM Agreement == Spec => []EndpointsAgree
BY StatusInit, StatusStep, StatusAgree, PTL DEF Spec

\* The searches of the summary are those committed, however upserts interleave.
THEOREM AllSearches == Spec => []SearchesCounted
BY StatusInit, StatusStep, SearchesMatch, PTL DEF Spec

\* The days of an answer add up to the reports that stand in them.
THEOREM DaysTotal == Spec => DaysAddUp
<1>1. StatusInv /\ [Next]_vars =>
        [\A q \in Requests : CountDays(q) =>
           LET today == request[q].today
               asked == request[q].days
               days == DailyCounts(today, asked)
           IN  /\ Cardinality(DOMAIN days) = asked
               /\ Total(days) =
                    Cardinality({id \in Standing : today - Day(rows[id].at) \in 0..(asked - 1)})]_vars
  BY DaysStep
<1> QED BY <1>1, StatusInit, StatusStep, PTL DEF Spec, DaysAddUp
=============================================================================
