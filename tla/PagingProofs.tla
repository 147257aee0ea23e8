---------------------------- MODULE PagingProofs ----------------------------
(***************************************************************************)
(* Proofs about Paging for any clients, accounts, marketplaces, limits and *)
(* any number of reports: a walk repeats nothing and skips nothing.        *)
(***************************************************************************)
EXTENDS Paging, FiniteSetTheorems, WellFoundedInduction, TLAPS

-----------------------------------------------------------------------------
(* The page of a query.                                                    *)

\* Sets of identifiers are finite.
LEMMA IdsFinite == ASSUME NEW S \in SUBSET Ids PROVE IsFiniteSet(S)
<1>1. IsFiniteSet(Ids)
  BY FS_Interval, PagingAssumption DEF Ids
<1> QED BY <1>1, FS_Subset

\* A set of identifiers has a least element: of the sets of what lies below one
\* of its elements one is minimal for inclusion, hence empty.
LEMMA LeastOf ==
  ASSUME NEW S \in SUBSET Ids, S # {}
  PROVE  \E x \in S : \A y \in S : x <= y
<1> DEFINE Under(z) == {j \in S : j < z}
           T == {Under(z) : z \in S}
<1>1. T \subseteq FiniteSubsetsOf(Ids) /\ T # {}
  <2>1. ASSUME NEW z \in S PROVE Under(z) \in FiniteSubsetsOf(Ids)
    BY IdsFinite DEF FiniteSubsetsOf
  <2> QED BY <2>1
<1>2. PICK u \in T : \A v \in T : ~(<<v, u>> \in StrictSubsetOrdering(Ids))
  BY <1>1, FS_StrictSubsetOrderingWellFounded, WFMin
<1>3. PICK x \in S : u = Under(x)
  BY <1>2
<1>4. ASSUME NEW y \in S PROVE x <= y
  <2>1. SUFFICES ASSUME y < x PROVE FALSE
    BY DEF Ids
  <2>2. Under(y) \subseteq Under(x) /\ y \in Under(x) /\ y \notin Under(y)
    <3>1. x \in Int /\ y \in Int
      BY DEF Ids
    <3>2. ASSUME NEW j \in S, j < y PROVE j < x
      BY <2>1, <3>2 DEF Ids
    <3>3. Under(y) \subseteq Under(x)
      BY <3>2
    <3>4. y \in Under(x)
      BY <2>1
    <3>5. y \notin Under(y)
      BY <3>1
    <3> QED BY <3>3, <3>4, <3>5
  <2>3. <<Under(y), Under(x)>> \in StrictSubsetOrdering(Ids)
    BY <2>2 DEF StrictSubsetOrdering
  <2> QED BY <1>2, <1>3, <2>3
<1> QED BY <1>4

\* Min is the least element of a set of identifiers.
LEMMA MinOf ==
  ASSUME NEW S \in SUBSET Ids, S # {}
  PROVE  Min(S) \in S /\ \A y \in S : Min(S) <= y
<1>1. \E x \in S : \A y \in S : x <= y
  BY LeastOf
<1> QED BY <1>1 DEF Min

\* A set of identifiers has a greatest element.
LEMMA GreatestOf ==
  ASSUME NEW S \in SUBSET Ids, S # {}
  PROVE  \E x \in S : \A y \in S : y <= x
<1> DEFINE Flip(x) == MaxId + 1 - x
           T == {Flip(x) : x \in S}
<1>1. T \in SUBSET Ids /\ T # {}
  <2>1. ASSUME NEW x \in S PROVE Flip(x) \in Ids
    BY PagingAssumption DEF Ids
  <2> QED BY <2>1
<1>2. PICK t \in T : \A u \in T : t <= u
  BY <1>1, LeastOf
<1>3. PICK x \in S : t = Flip(x)
  BY <1>2
<1>4. \A y \in S : Flip(x) <= Flip(y)
  BY <1>2, <1>3
<1> QED BY <1>3, <1>4, PagingAssumption DEF Ids

\* A page has identifiers of the query only.
LEMMA NewestWithin == ASSUME NEW S, NEW n PROVE Newest(S, n) \subseteq S
BY DEF Newest

\* A page has every identifier of the query above one it has.
LEMMA NewestUpward ==
  ASSUME NEW S \in SUBSET Ids, NEW n \in Nat,
         NEW x \in Newest(S, n), NEW y \in S, y > x
  PROVE  y \in Newest(S, n)
<1> DEFINE Above(z) == {j \in S : j > z}
<1>1. Above(y) \in SUBSET Above(x)
  <2>1. x \in S
    BY NewestWithin
  <2>2. ASSUME NEW j \in S, j > y PROVE j > x
    BY <2>1, <2>2 DEF Ids
  <2> QED BY <2>2
<1>2. IsFiniteSet(Above(x)) /\ IsFiniteSet(Above(y))
  BY IdsFinite
<1>3. Cardinality(Above(y)) <= Cardinality(Above(x))
  BY <1>1, <1>2, FS_Subset
<1>4. Cardinality(Above(x)) \in Nat /\ Cardinality(Above(y)) \in Nat
  BY <1>2, FS_CardinalityType
<1>5. Cardinality(Above(x)) < n
  BY DEF Newest
<1> HIDE DEF Above
<1>6. Cardinality(Above(y)) < n
  BY <1>3, <1>4, <1>5
<1> QED BY <1>6 DEF Newest, Above

\* A page that is empty or not full is the whole query: no cursor is needed.
LEMMA LastPageIsAll ==
  ASSUME NEW S \in SUBSET Ids, NEW n \in Nat \ {0}, IsLastPage(Newest(S, n), n)
  PROVE  Newest(S, n) = S
<1> DEFINE page == Newest(S, n)
           Above(z) == {j \in S : j > z}
<1>1. page \in SUBSET S
  BY NewestWithin
<1>2. SUFFICES ASSUME S \ page # {} PROVE FALSE
  BY <1>1
<1>3. PICK x \in S \ page : \A y \in S \ page : y <= x
  BY <1>1, <1>2, GreatestOf
<1>4. page = Above(x)
  <2>1. ASSUME NEW y \in S, y > x PROVE y \in page
    BY <1>3, <2>1 DEF Ids
  <2>2. ASSUME NEW y \in page PROVE y > x
    <3>1. y \in S /\ y # x
      BY <1>1, <1>3
    <3>2. ~(x > y)
      BY <1>3, NewestUpward
    <3> QED BY <3>1, <3>2 DEF Ids
  <2> QED BY <1>1, <2>1, <2>2
<1>5. ~(Cardinality(Above(x)) < n)
  BY <1>3 DEF Newest
<1>6. IsFiniteSet(page) /\ Cardinality(page) \in Nat
  BY <1>1, IdsFinite, FS_CardinalityType
<1>7. Cardinality(page) >= n
  BY <1>4, <1>5, <1>6
<1>8. page # {}
  BY <1>6, <1>7, FS_EmptySet
<1>9. Cardinality(page) > n
  BY <1>6, <1>7, <1>8 DEF IsLastPage
<1>10. Min(page) \in page /\ \A y \in page : Min(page) <= y
  BY <1>1, <1>8, MinOf
<1> DEFINE m == Min(page)
<1>11. m \in page /\ \A y \in page : m <= y
  BY <1>10
<1> HIDE DEF m
<1>12. Above(m) = page \ {m}
  <2>1. ASSUME NEW y \in S, y > m PROVE y \in page \ {m}
    BY <1>11, <2>1, <1>1, NewestUpward DEF Ids
  <2>2. ASSUME NEW y \in page \ {m} PROVE y \in S /\ y > m
    <3>1. y \in Ids /\ m \in Ids /\ y \in S
      BY <1>1, <1>11
    <3>2. m <= y /\ y # m
      BY <1>11
    <3> QED BY <3>1, <3>2 DEF Ids
  <2> QED BY <2>1, <2>2
<1>13. Cardinality(Above(m)) = Cardinality(page) - 1
  BY <1>6, <1>11, <1>12, FS_RemoveElement
<1>14. Cardinality(Above(m)) < n
  BY <1>11 DEF Newest
<1> QED BY <1>6, <1>9, <1>13, <1>14

\* The cursor of a full page is one of its identifiers, and the least.
LEMMA CursorOf ==
  ASSUME NEW S \in SUBSET Ids, NEW n, ~IsLastPage(Newest(S, n), n)
  PROVE  /\ NextCursor(Newest(S, n)) \in Newest(S, n)
         /\ \A y \in Newest(S, n) : NextCursor(Newest(S, n)) <= y
<1>1. Newest(S, n) # {}
  BY DEF IsLastPage
<1>2. Newest(S, n) \in SUBSET Ids
  BY NewestWithin
<1> QED BY <1>1, <1>2, MinOf DEF NextCursor

\* What a query has above the cursor of a full page is on that page.
LEMMA AboveCursor ==
  ASSUME NEW S \in SUBSET Ids, NEW n \in Nat, ~IsLastPage(Newest(S, n), n),
         NEW y \in S, y >= NextCursor(Newest(S, n))
  PROVE  y \in Newest(S, n)
<1> DEFINE m == NextCursor(Newest(S, n))
<1>1. m \in Newest(S, n)
  BY CursorOf
<1>2. m \in Ids /\ y \in Ids
  BY <1>1, NewestWithin
<1>3. CASE y = m
  BY <1>1, <1>3
<1>4. CASE y > m
  BY <1>1, <1>4, NewestUpward
<1> QED BY <1>2, <1>3, <1>4 DEF Ids

-----------------------------------------------------------------------------
(* Types.                                                                  *)

Reports == [status : {"live", "deleted"}, account : Accounts, slug : Slugs]

\* A step other than a read of a page keeps the types.
LEMMA TypingRows ==
  ASSUME TypeOK, NEW id \in Ids, File(id) \/ Remove(id)
  PROVE  TypeOK'
<1>1. CASE File(id)
  BY <1>1 DEF TypeOK, File
<1>2. CASE Remove(id)
  <2>1. rows[id] \in Reports
    BY <1>2 DEF TypeOK, Remove, Live, Unused, Erased, Reports
  <2>2. [rows[id] EXCEPT !.status = "deleted"] \in Reports
    BY <2>1 DEF Reports
  <2>3. rows' = [rows EXCEPT ![id] = [rows[id] EXCEPT !.status = "deleted"]]
    BY <1>2 DEF Remove
  <2>4. rows' \in [Ids -> {Unused, Erased} \cup Reports]
    BY <2>2, <2>3 DEF TypeOK, Reports
  <2>5. kept' \in [Clients -> SUBSET Ids]
    BY <1>2 DEF TypeOK, Remove, Gone
  <2> QED BY <1>2, <2>4, <2>5 DEF TypeOK, Remove, Reports
<1> QED BY <1>1, <1>2

LEMMA TypingErase ==
  ASSUME TypeOK, NEW a \in Accounts, Erase(a)
  PROVE  TypeOK'
BY DEF TypeOK, Erase, Gone

LEMMA TypingStart ==
  ASSUME TypeOK, NEW c \in Clients, Start(c)
  PROVE  TypeOK'
<1> DEFINE Asks == [account : Accounts \cup {Any}, slug : Slugs \cup {Any}, limit : Nat]
<1>1. \E a \in Asks :
        \/ /\ pc' = [pc EXCEPT ![c] = "refused"]
           /\ UNCHANGED <<ask, kept>>
        \/ /\ pc' = [pc EXCEPT ![c] = "walk"]
           /\ ask' = [ask EXCEPT ![c] = a]
           /\ kept' = [kept EXCEPT ![c] = Matching(a, NoCursor)]
  <2>1. \A e \in Endpoints, asked \in LimitsAsked \cup {Any} : Limit(e, asked) \in Nat
    BY PagingAssumption DEF Limit
  <2> QED BY <2>1 DEF Start
<1>2. UNCHANGED <<rows, cursor, pages>>
  BY DEF Start
<1>3. ask' \in [Clients -> Asks]
  <2> HIDE DEF Asks
  <2>1. ask \in [Clients -> Asks]
    BY DEF TypeOK, Asks
  <2> QED BY <1>1, <2>1
<1>4. kept' \in [Clients -> SUBSET Ids]
  <2>1. \A a, cur : Matching(a, cur) \in SUBSET Ids
    BY DEF Matching
  <2>2. kept \in [Clients -> SUBSET Ids]
    BY DEF TypeOK
  <2> HIDE DEF Asks
  <2> QED BY <1>1, <2>1, <2>2
<1>5. pc' \in [Clients -> {"new", "walk", "done", "refused"}]
  BY <1>1 DEF TypeOK
<1> QED BY <1>2, <1>3, <1>4, <1>5 DEF TypeOK

LEMMA TypingReadPage ==
  ASSUME TypeOK, NEW c \in Clients, ReadPage(c)
  PROVE  TypeOK'
<1> DEFINE S == Matching(ask[c], cursor[c])
           page == Newest(S, ask[c].limit)
<1>1. S \in SUBSET Ids /\ page \in SUBSET Ids
  BY DEF Matching, Newest
<1>2. pages' \in [Clients -> Seq(SUBSET Ids)]
  <2>1. pages' = [pages EXCEPT ![c] = Append(pages[c], page)]
    BY DEF ReadPage
  <2>2. Append(pages[c], page) \in Seq(SUBSET Ids)
    BY <1>1 DEF TypeOK
  <2> HIDE DEF page
  <2> QED BY <2>1, <2>2 DEF TypeOK
<1>3. cursor' \in [Clients -> 1..NoCursor] /\ pc' \in [Clients -> {"new", "walk", "done", "refused"}]
  <2>1. CASE IsLastPage(page, ask[c].limit)
    BY <2>1 DEF ReadPage, TypeOK
  <2>2. CASE ~IsLastPage(page, ask[c].limit)
    <3>1. NextCursor(page) \in Ids
      BY <1>1, <2>2, CursorOf
    <3>2. NextCursor(page) \in 1..NoCursor
      BY <3>1, PagingAssumption DEF Ids, NoCursor
    <3>3. cursor' = [cursor EXCEPT ![c] = NextCursor(page)] /\ pc' = pc
      BY <2>2 DEF ReadPage
    <3> HIDE DEF page
    <3> QED BY <3>2, <3>3 DEF TypeOK
  <2> QED BY <2>1, <2>2
<1> QED BY <1>2, <1>3 DEF TypeOK, ReadPage

LEMMA TypingInit == Init => TypeOK
<1>1. NoCursor \in 1..NoCursor
  BY PagingAssumption DEF NoCursor
<1> QED BY <1>1 DEF Init, TypeOK, NoAsk

LEMMA TypingStep == TypeOK /\ [Next]_vars => TypeOK'
<1> SUFFICES ASSUME TypeOK, [Next]_vars PROVE TypeOK'
  OBVIOUS
<1>1. CASE UNCHANGED vars
  BY <1>1 DEF vars, TypeOK
<1>2. CASE Next
  BY <1>2, TypingRows, TypingErase, TypingStart, TypingReadPage DEF Next
<1> QED BY <1>1, <1>2

\* Every variable keeps its type.
THEOREM Typing == Spec => []TypeOK
BY TypingInit, TypingStep, PTL DEF Spec

-----------------------------------------------------------------------------
(* The walk.  Inductive is, for each client: what it has received lies at  *)
(* or above its cursor, and what was there all along and lies at or above  *)
(* its cursor has been received.                                           *)

\* What a client has received is not below its cursor.
Above(c) == \A k \in DOMAIN pages[c], x \in Ids : x \in pages[c][k] => cursor[c] <= x

\* Reports kept for a walk are still there and still match its filters.
KeptMatch(c) == \A x \in kept[c] : Live(x) /\ Matches(ask[c], rows[x])

\* What was there all along has been received down to the cursor.
KeptReceived(c) ==
  pc[c] = "walk" => \A x \in kept[c] : cursor[c] <= x => x \in Received(c)

\* A client that has not started has no page and no cursor.
Fresh(c) == pc[c] = "new" => pages[c] = <<>> /\ cursor[c] = NoCursor

WalkInv ==
  /\ PagesDescend
  /\ NothingSkipped
  /\ \A c \in Clients : Above(c) \/ pc[c] = "done"
  /\ \A c \in Clients : KeptMatch(c) /\ Fresh(c)
  /\ \A c \in Clients : ask[c].limit > 0 => KeptReceived(c)

LEMMA WalkInit == Init => WalkInv
BY DEF Init, WalkInv, PagesDescend, NothingSkipped, Above, KeptMatch, Fresh, KeptReceived

\* Reports may be filed, deleted and erased during a walk.
LEMMA WalkRows ==
  ASSUME TypeOK, WalkInv, NEW id \in Ids, File(id) \/ Remove(id)
  PROVE  WalkInv'
<1>1. CASE File(id)
  <2>1. \A x \in Ids : x # id => rows'[x] = rows[x]
    BY <1>1 DEF File, TypeOK
  <2>2. ~Live(id)
    BY <1>1 DEF File, Live, Unused
  <2>3. \A c \in Clients : KeptMatch(c)'
    BY <1>1, <2>1, <2>2 DEF File, KeptMatch, WalkInv, TypeOK, Live, Matches
  <2> QED
    BY <1>1, <2>3 DEF File, WalkInv, PagesDescend, NothingSkipped, Received, Above,
                      KeptReceived, Fresh
<1>2. CASE Remove(id)
  <2>1. \A x \in Ids : x # id => rows'[x] = rows[x]
    BY <1>2 DEF Remove, TypeOK
  <2>2. \A c \in Clients : kept'[c] = kept[c] \ {id}
    BY <1>2 DEF Remove, Gone
  <2>3. \A c \in Clients : KeptMatch(c)'
    BY <1>2, <2>1, <2>2 DEF Remove, KeptMatch, WalkInv, TypeOK, Live, Matches
  <2> QED
    BY <1>2, <2>2, <2>3 DEF Remove, WalkInv, PagesDescend, NothingSkipped, Received, Above,
                            KeptReceived, Fresh
<1> QED BY <1>1, <1>2

LEMMA WalkErase ==
  ASSUME TypeOK, WalkInv, NEW a \in Accounts, Erase(a)
  PROVE  WalkInv'
<1> DEFINE ids == {id \in Ids : rows[id].status \in {"live", "deleted"} /\ rows[id].account = a}
<1>1. \A x \in Ids \ ids : rows'[x] = rows[x]
  BY DEF Erase
<1>2. \A c \in Clients : kept'[c] = kept[c] \ ids
  BY DEF Erase, Gone
<1> HIDE DEF ids
<1>3. \A c \in Clients : KeptMatch(c)'
  BY <1>1, <1>2 DEF Erase, KeptMatch, WalkInv, TypeOK, Live, Matches
<1> QED
  BY <1>2, <1>3 DEF Erase, WalkInv, PagesDescend, NothingSkipped, Received, Above,
                    KeptReceived, Fresh

\* A walk starts with every matching report ahead of it.
LEMMA WalkStart ==
  ASSUME TypeOK, WalkInv, NEW c \in Clients, Start(c)
  PROVE  WalkInv'
<1>1. pages' = pages /\ cursor' = cursor /\ rows' = rows
  BY DEF Start
<1>2. \A d \in Clients \ {c} : pc'[d] = pc[d] /\ ask'[d] = ask[d] /\ kept'[d] = kept[d]
  BY DEF Start, TypeOK
<1>3. pc[c] = "new" /\ pc'[c] \in {"walk", "refused"}
  BY DEF Start, TypeOK
<1>4. \/ ask' = ask /\ kept' = kept
      \/ kept'[c] = Matching(ask'[c], NoCursor)
  BY DEF Start, TypeOK
<1>5. KeptMatch(c)'
  BY <1>1, <1>4 DEF KeptMatch, WalkInv, Matching, Live, Matches
<1>6. KeptReceived(c)'
  <2>1. cursor'[c] = MaxId + 1
    BY <1>1, <1>3 DEF WalkInv, Fresh, NoCursor
  <2>2. kept'[c] \in SUBSET Ids
    BY TypingStart DEF TypeOK
  <2>3. \A x \in Ids : ~(MaxId + 1 <= x)
    BY PagingAssumption DEF Ids
  <2> QED BY <2>1, <2>2, <2>3 DEF KeptReceived
<1>7. PagesDescend'
  BY <1>1 DEF WalkInv, PagesDescend
<1>8. NothingSkipped'
  BY <1>1, <1>2, <1>3 DEF WalkInv, NothingSkipped, Received
<1>9. \A d \in Clients : (Above(d) \/ pc[d] = "done")'
  BY <1>1, <1>2, <1>3 DEF WalkInv, Above
<1>10. \A d \in Clients : KeptMatch(d)' /\ Fresh(d)'
  BY <1>1, <1>2, <1>3, <1>5 DEF WalkInv, KeptMatch, Fresh, Live, Matches
<1>11. \A d \in Clients : (ask[d].limit > 0 => KeptReceived(d))'
  BY <1>1, <1>2, <1>6 DEF WalkInv, KeptReceived, Received
<1> QED BY <1>7, <1>8, <1>9, <1>10, <1>11 DEF WalkInv

\* Other clients do not see a client read its page.
LEMMA ReadPageOthers ==
  ASSUME TypeOK, NEW c \in Clients, ReadPage(c), NEW d \in Clients \ {c}
  PROVE  /\ pages'[d] = pages[d] /\ cursor'[d] = cursor[d] /\ pc'[d] = pc[d]
         /\ ask' = ask /\ kept' = kept /\ rows' = rows
BY DEF ReadPage, TypeOK

\* What a client has received after one more page.
LEMMA ReceivedAppend ==
  ASSUME TypeOK, NEW c \in Clients, NEW page \in SUBSET Ids,
         pages' = [pages EXCEPT ![c] = Append(@, page)]
  PROVE  /\ DOMAIN pages'[c] = 1..Len(pages[c]) + 1
         /\ DOMAIN pages[c] = 1..Len(pages[c]) /\ Len(pages[c]) \in Nat
         /\ \A k \in 1..Len(pages[c]) : pages'[c][k] = pages[c][k]
         /\ pages'[c][Len(pages[c]) + 1] = page
         /\ Received(c)' = Received(c) \cup page
<1> DEFINE n == Len(pages[c])
<1>1. pages'[c] = Append(pages[c], page)
  BY DEF TypeOK
<1>2. pages[c] \in Seq(SUBSET Ids)
  BY DEF TypeOK
<1>3. /\ n \in Nat /\ DOMAIN pages[c] = 1..n /\ DOMAIN pages'[c] = 1..n + 1
      /\ \A k \in 1..n : pages'[c][k] = pages[c][k]
      /\ pages'[c][n + 1] = page
  BY <1>1, <1>2
<1> HIDE DEF n
<1>4. 1..n + 1 = (1..n) \cup {n + 1}
  BY <1>3
<1>5. Received(c)' = Received(c) \cup page
  BY <1>3, <1>4 DEF Received
<1> QED BY <1>3, <1>5 DEF n

\* A page lies below what was received before it, and brings all that was there
\* all along down to the next cursor, or to the end.
LEMMA WalkReadPage ==
  ASSUME TypeOK, WalkInv, NEW c \in Clients, ReadPage(c)
  PROVE  WalkInv'
<1> DEFINE S == Matching(ask[c], cursor[c])
           page == Newest(S, ask[c].limit)
           n == Len(pages[c])
<1>1. pc[c] = "walk" /\ pages' = [pages EXCEPT ![c] = Append(@, page)]
  BY DEF ReadPage
<1>2. S \in SUBSET Ids /\ page \in SUBSET Ids
  BY DEF Matching, Newest
<1>3. \A x \in page : x \in S /\ x < cursor[c]
  BY NewestWithin DEF Matching, Below
<1>4. ask[c].limit \in Nat
  BY DEF TypeOK
<1>5. \/ pc'[c] = "done" /\ IsLastPage(page, ask[c].limit)
      \/ /\ pc'[c] = "walk" /\ ~IsLastPage(page, ask[c].limit)
         /\ cursor'[c] = NextCursor(page)
  BY DEF ReadPage, TypeOK
<1>6. /\ DOMAIN pages'[c] = 1..n + 1
      /\ DOMAIN pages[c] = 1..n /\ n \in Nat
      /\ \A k \in 1..n : pages'[c][k] = pages[c][k]
      /\ pages'[c][n + 1] = page
      /\ Received(c)' = Received(c) \cup page
  BY <1>1, <1>2, ReceivedAppend
<1>7. ask' = ask /\ kept' = kept /\ rows' = rows
  BY DEF ReadPage
<1>8. cursor[c] \in Nat
  BY DEF TypeOK
<1>9. Above(c)
  BY <1>1 DEF WalkInv
\* What was there all along is in S as long as it lies below the cursor.
<1>10. \A x \in kept[c] : x < cursor[c] => x \in S
  <2>1. kept[c] \subseteq Ids /\ KeptMatch(c)
    BY DEF TypeOK, WalkInv
  <2> QED BY <2>1 DEF KeptMatch, Matching, Below
<1>11. ask[c].limit > 0 => \A x \in kept[c] : x \in Received(c) \/ x \in S
  <2> SUFFICES ASSUME ask[c].limit > 0, NEW x \in kept[c], x \notin S PROVE x \in Received(c)
    OBVIOUS
  <2>1. cursor[c] <= x
    BY <1>8, <1>10 DEF TypeOK, Ids
  <2> QED BY <1>1, <2>1 DEF WalkInv, KeptReceived
<1> HIDE DEF S, page, n
<1>12. PagesDescend'
  <2>1. ASSUME NEW j \in 1..n + 1, NEW k \in 1..n + 1, j < k,
               NEW x \in pages'[c][j], NEW y \in pages'[c][k]
        PROVE  y < x
    <3>1. j \in 1..n
      BY <1>6, <2>1
    <3>2. x \in pages[c][j] /\ x \in Ids
      BY <1>6, <3>1, <2>1 DEF TypeOK
    <3>3. CASE k \in 1..n
      BY <1>6, <2>1, <3>1, <3>2, <3>3 DEF WalkInv, PagesDescend
    <3>4. CASE k = n + 1
      <4>1. y < cursor[c] /\ y \in Ids
        BY <1>2, <1>3, <1>6, <2>1, <3>4
      <4>2. cursor[c] <= x
        BY <1>6, <1>9, <3>1, <3>2 DEF Above
      <4> QED BY <1>8, <3>2, <4>1, <4>2 DEF Ids
    <3> QED BY <1>6, <3>3, <3>4
  <2>2. \A j, k \in DOMAIN pages'[c] : j < k => \A x \in pages'[c][j], y \in pages'[c][k] : y < x
    BY <1>6, <2>1
  <2>3. ASSUME NEW d \in Clients \ {c}
        PROVE  \A j, k \in DOMAIN pages'[d] : j < k => \A x \in pages'[d][j], y \in pages'[d][k] : y < x
    BY ReadPageOthers DEF WalkInv, PagesDescend
  <2> QED BY <2>2, <2>3 DEF PagesDescend
<1>13. NothingSkipped'
  <2>1. ASSUME pc'[c] = "done", ask[c].limit > 0 PROVE kept[c] \subseteq Received(c)'
    <3>1. page = S
      BY <1>2, <1>4, <1>5, <2>1, LastPageIsAll DEF page
    <3> QED BY <1>6, <1>11, <2>1, <3>1
  <2>2. ASSUME NEW d \in Clients \ {c}, pc'[d] = "done", ask[d].limit > 0
        PROVE  kept[d] \subseteq Received(d)'
    BY <2>2, ReadPageOthers DEF WalkInv, NothingSkipped, Received
  <2> QED BY <1>7, <2>1, <2>2 DEF NothingSkipped
<1>14. Above(c)' \/ pc'[c] = "done"
  <2> SUFFICES ASSUME pc'[c] = "walk", ~IsLastPage(page, ask[c].limit),
                      cursor'[c] = NextCursor(page)
               PROVE  Above(c)'
    BY <1>5
  <2>1. cursor'[c] \in page /\ \A y \in page : cursor'[c] <= y
    BY <1>2, CursorOf DEF page
  <2>2. cursor'[c] < cursor[c] /\ cursor'[c] \in Ids
    BY <1>2, <1>3, <2>1
  <2>3. ASSUME NEW k \in 1..n + 1, NEW x \in Ids, x \in pages'[c][k] PROVE cursor'[c] <= x
    <3>1. CASE k \in 1..n
      <4>1. cursor[c] <= x
        BY <1>6, <1>9, <2>3, <3>1 DEF Above
      <4> QED BY <1>8, <2>2, <4>1 DEF Ids
    <3>2. CASE k = n + 1
      BY <1>6, <2>1, <2>3, <3>2
    <3> QED BY <1>6, <3>1, <3>2
  <2> QED BY <1>6, <2>3 DEF Above
<1>15. ask[c].limit > 0 => KeptReceived(c)'
  <2> SUFFICES ASSUME ask[c].limit > 0, ~IsLastPage(page, ask[c].limit),
                      cursor'[c] = NextCursor(page), NEW x \in kept[c], cursor'[c] <= x
               PROVE  x \in Received(c)'
    BY <1>5, <1>7 DEF KeptReceived
  <2>1. CASE x \in Received(c)
    BY <1>6, <2>1
  <2>2. CASE x \in S
    <3>1. cursor'[c] \in Nat
      BY TypingReadPage DEF TypeOK
    <3>2. x \in page
      BY <1>2, <1>4, <2>2, <3>1, AboveCursor DEF page, Ids
    <3> QED BY <1>6, <3>2
  <2> QED BY <1>11, <2>1, <2>2
<1>16. KeptMatch(c)' /\ Fresh(c)'
  BY <1>5, <1>7 DEF WalkInv, KeptMatch, Fresh, Live, Matches
<1>17. ASSUME NEW d \in Clients \ {c}
       PROVE  /\ (Above(d) \/ pc[d] = "done")' /\ KeptMatch(d)' /\ Fresh(d)'
              /\ (ask[d].limit > 0 => KeptReceived(d))'
  BY ReadPageOthers DEF WalkInv, Above, KeptMatch, Fresh, KeptReceived, Received, Live, Matches
<1> QED BY <1>7, <1>12, <1>13, <1>14, <1>15, <1>16, <1>17 DEF WalkInv

LEMMA WalkStep == TypeOK /\ WalkInv /\ [Next]_vars => WalkInv'
<1> SUFFICES ASSUME TypeOK, WalkInv, [Next]_vars PROVE WalkInv'
  OBVIOUS
<1>1. CASE UNCHANGED vars
  BY <1>1 DEF vars, WalkInv, PagesDescend, NothingSkipped, Above, KeptMatch, Fresh,
              KeptReceived, Received, Live, Matches
<1>2. CASE Next
  BY <1>2, WalkRows, WalkErase, WalkStart, WalkReadPage DEF Next
<1> QED BY <1>1, <1>2

LEMMA WalkAlways == Spec => []WalkInv
BY TypingInit, TypingStep, WalkInit, WalkStep, PTL DEF Spec

\* No walk repeats a report or goes back, whatever is filed, deleted or erased
\* between its pages.
THEOREM Descends == Spec => []PagesDescend
<1>1. WalkInv => PagesDescend
  BY DEF WalkInv
<1> QED BY <1>1, WalkAlways, PTL

\* A finished walk has received every matching report that was there all along.
THEOREM SkipsNothing == Spec => []NothingSkipped
<1>1. WalkInv => NothingSkipped
  BY DEF WalkInv
<1> QED BY <1>1, WalkAlways, PTL

-----------------------------------------------------------------------------
(* What ends a walk.  Each page with a cursor lowers the cursor, so a walk *)
(* that goes on asking comes to an end; that it goes on is the fairness of *)
(* its client.                                                             *)

\* A page with a cursor lowers the cursor.
LEMMA CursorFalls ==
  ASSUME TypeOK, NEW c \in Clients, ReadPage(c)
  PROVE  \/ pc'[c] = "done"
         \/ pc'[c] = "walk" /\ cursor'[c] \in Ids /\ cursor'[c] < cursor[c]
<1> DEFINE S == Matching(ask[c], cursor[c])
           page == Newest(S, ask[c].limit)
<1>1. S \in SUBSET Ids
  BY DEF Matching
<1>2. \A x \in page : x \in Ids /\ x < cursor[c]
  BY NewestWithin DEF Matching, Below
<1>3. CASE IsLastPage(page, ask[c].limit)
  BY <1>3 DEF ReadPage, TypeOK
<1>4. CASE ~IsLastPage(page, ask[c].limit)
  <2>1. NextCursor(page) \in page
    BY <1>1, <1>4, CursorOf
  <2>2. cursor' = [cursor EXCEPT ![c] = NextCursor(page)] /\ pc' = pc /\ pc[c] = "walk"
    BY <1>4 DEF ReadPage
  <2> HIDE DEF page
  <2> QED BY <1>2, <2>1, <2>2 DEF TypeOK
<1> QED BY <1>3, <1>4

\* The pages of a walk and the identifiers below its cursor are together no
\* more than all identifiers.
ShortWalk(c) ==
  IF pc[c] \in {"new", "walk"} THEN Len(pages[c]) + cursor[c] <= NoCursor
                               ELSE Len(pages[c]) <= NoCursor

ShortWalks == \A c \in Clients : ShortWalk(c)

LEMMA ShortStep == TypeOK /\ ShortWalks /\ [Next]_vars => ShortWalks'
<1> SUFFICES ASSUME TypeOK, ShortWalks, [Next]_vars PROVE ShortWalks'
  OBVIOUS
<1>1. NoCursor \in Nat
  BY PagingAssumption DEF NoCursor
<1>2. \A c \in Clients : Len(pages[c]) \in Nat /\ cursor[c] \in Nat \ {0}
  BY <1>1 DEF TypeOK
<1>3. CASE UNCHANGED <<pages, cursor, pc>>
  BY <1>3 DEF ShortWalks, ShortWalk
<1>4. ASSUME NEW c \in Clients, Start(c) PROVE ShortWalks'
  <2>1. /\ pages' = pages /\ cursor' = cursor
        /\ pc[c] = "new" /\ \A d \in Clients \ {c} : pc'[d] = pc[d]
    BY <1>4 DEF Start, TypeOK
  <2>2. Len(pages[c]) + cursor[c] <= NoCursor
    BY <2>1 DEF ShortWalks, ShortWalk
  <2>3. Len(pages[c]) <= NoCursor
    BY <1>1, <1>2, <2>2
  <2> QED BY <2>1, <2>2, <2>3 DEF ShortWalks, ShortWalk
<1>5. ASSUME NEW c \in Clients, ReadPage(c) PROVE ShortWalks'
  <2>1. Len(pages[c]) + cursor[c] <= NoCursor
    BY <1>5 DEF ReadPage, ShortWalks, ShortWalk
  <2>2. Len(pages'[c]) = Len(pages[c]) + 1
    <3>1. PICK page : pages' = [pages EXCEPT ![c] = Append(pages[c], page)]
      BY <1>5 DEF ReadPage
    <3> QED BY <3>1 DEF TypeOK
  <2>3. ShortWalk(c)'
    <3>1. CASE pc'[c] = "done"
      BY <1>1, <1>2, <2>1, <2>2, <3>1 DEF ShortWalk
    <3>2. CASE pc'[c] = "walk" /\ cursor'[c] \in Ids /\ cursor'[c] < cursor[c]
      <4>1. Len(pages'[c]) + cursor'[c] <= NoCursor
        BY <1>1, <1>2, <2>1, <2>2, <3>2 DEF Ids
      <4> QED BY <3>2, <4>1 DEF ShortWalk
    <3> QED BY <1>5, <3>1, <3>2, CursorFalls
  <2>4. ASSUME NEW d \in Clients \ {c} PROVE ShortWalk(d)'
    BY <1>5, ReadPageOthers DEF ShortWalks, ShortWalk
  <2> QED BY <2>3, <2>4 DEF ShortWalks
<1>6. CASE UNCHANGED vars
  BY <1>3, <1>6 DEF vars
<1>7. CASE \E id \in Ids : File(id) \/ Remove(id)
  BY <1>3, <1>7 DEF File, Remove
<1>8. CASE \E a \in Accounts : Erase(a)
  BY <1>3, <1>8 DEF Erase
<1> QED BY <1>4, <1>5, <1>6, <1>7, <1>8 DEF Next

\* No walk takes more pages than there are identifiers, and one: whatever is
\* filed meanwhile, listReversals gives no cursor for ever.
THEOREM WalksAreShort == Spec => [](\A c \in Clients : Len(pages[c]) <= MaxId + 1)
<1>1. Init => ShortWalks
  BY PagingAssumption DEF Init, ShortWalks, ShortWalk, NoCursor
<1>2. TypeOK /\ ShortWalks => \A c \in Clients : Len(pages[c]) <= MaxId + 1
  BY PagingAssumption DEF TypeOK, ShortWalks, ShortWalk, NoCursor
<1> QED BY <1>1, <1>2, ShortStep, Typing, PTL DEF Spec
=============================================================================
