--------------------------- MODULE IngestorProofs ---------------------------
(***************************************************************************)
(* Proofs about Ingestor for any instances, accounts and feeds, any page   *)
(* limit and any number of faults: no warning is missed, and while there   *)
(* is one leader the table grows at its tip.  What the election does is    *)
(* taken from ElectorProofs.                                               *)
(***************************************************************************)
EXTENDS Ingestor, ElectorProofs, FiniteSetTheorems, WellFoundedInduction

-----------------------------------------------------------------------------
(* Least and greatest elements.                                            *)

\* What a row may come from.
Origins == {Absent, NoRid} \cup Warnings

\* A set of origins has a greatest element: of the sets of what lies above one of
\* its elements one is minimal for inclusion, hence empty.
LEMMA GreatestOf ==
  ASSUME NEW S \in SUBSET Origins, S # {}
  PROVE  \E x \in S : \A y \in S : x >= y
<1> DEFINE Over(z) == {j \in S : j > z}
           T == {Over(z) : z \in S}
<1>0. Origins \in SUBSET Int
  BY IngestorAssumption DEF Origins, Absent, NoRid, Warnings
<1>1. T \subseteq FiniteSubsetsOf(Origins) /\ T # {}
  <2>1. IsFiniteSet(Origins)
    <3>1. IsFiniteSet((-1)..NWarnings)
      BY FS_Interval, IngestorAssumption
    <3>2. Origins \subseteq (-1)..NWarnings
      BY IngestorAssumption DEF Origins, Absent, NoRid, Warnings
    <3> QED BY <3>1, <3>2, FS_Subset
  <2>2. ASSUME NEW z \in S PROVE Over(z) \in FiniteSubsetsOf(Origins)
    BY <2>1, FS_Subset DEF FiniteSubsetsOf
  <2> QED BY <2>2
<1>2. PICK u \in T : \A v \in T : ~(<<v, u>> \in StrictSubsetOrdering(Origins))
  BY <1>1, FS_StrictSubsetOrderingWellFounded, WFMin
<1>3. PICK x \in S : u = Over(x)
  BY <1>2
<1>4. ASSUME NEW y \in S PROVE x >= y
  <2>1. SUFFICES ASSUME y > x PROVE FALSE
    BY <1>0
  <2>2. Over(y) \subseteq Over(x) /\ y \in Over(x) /\ y \notin Over(y)
    <3>1. x \in Int /\ y \in Int
      BY <1>0
    <3>2. ASSUME NEW j \in S, j > y PROVE j > x
      BY <1>0, <2>1, <3>2
    <3>3. Over(y) \subseteq Over(x)
      BY <3>2
    <3>4. y \in Over(x)
      BY <2>1
    <3>5. y \notin Over(y)
      BY <3>1
    <3> QED BY <3>3, <3>4, <3>5
  <2>3. <<Over(y), Over(x)>> \in StrictSubsetOrdering(Origins)
    BY <2>2 DEF StrictSubsetOrdering
  <2> QED BY <1>2, <1>3, <2>3
<1> QED BY <1>4

\* Newest is one of the rows' origins, or 0, and none is greater.
LEMMA NewestOf ==
  ASSUME TypeOK
  PROVE  /\ Newest \in 0..NWarnings
         /\ \A a \in Accounts : live[a] <= Newest
         /\ Newest # 0 => \E a \in Accounts : live[a] = Newest
<1> DEFINE S == {live[a] : a \in Accounts} \cup {0}
<1>1. S \in SUBSET Origins /\ 0 \in S
  BY DEF TypeOK, Origins, NoRid
<1>2. \E x \in S : \A y \in S : x >= y
  BY <1>1, GreatestOf
<1>3. Max(S) \in S /\ \A y \in S : Max(S) >= y
  BY <1>2 DEF Max
<1>4. Newest = Max(S)
  BY DEF Newest
<1>5. \A x \in S : x \in Int /\ x <= NWarnings
  BY <1>1, IngestorAssumption DEF Origins, Absent, NoRid, Warnings
<1>6. \A a \in Accounts : live[a] \in S
  OBVIOUS
<1> HIDE DEF S
<1>7. Newest \in Int /\ Newest >= 0 /\ Newest <= NWarnings
  BY <1>1, <1>3, <1>4, <1>5
<1>8. \A a \in Accounts : live[a] <= Newest
  BY <1>3, <1>4, <1>5, <1>6
<1>9. Newest # 0 => \E a \in Accounts : live[a] = Newest
  BY <1>3, <1>4 DEF S
<1> QED BY <1>7, <1>8, <1>9, IngestorAssumption

\* The smaller of two numbers.
LEMMA MinOfTwo ==
  ASSUME NEW m \in Nat, NEW n \in Nat
  PROVE  Min({m, n}) = IF m <= n THEN m ELSE n
BY DEF Min

\* A page runs from the cursor, without a gap, and ends at a settled warning.
LEMMA PageOf ==
  ASSUME NEW c \in 0..NWarnings, feed \in 0..NWarnings, Page(c) # <<>>
  PROVE  /\ Page(c) \in Seq(Warnings)
         /\ Len(Page(c)) \in Nat \ {0}
         /\ \A k \in 1..Len(Page(c)) : Page(c)[k] = c + k
<1> DEFINE last == IF c + PageLimit <= feed THEN c + PageLimit ELSE feed
<1>1. /\ NWarnings \in Nat
      /\ PageLimit \in Nat
      /\ c \in Nat /\ feed \in Nat /\ feed <= NWarnings
      /\ c + PageLimit \in Nat
  BY IngestorAssumption
<1>2. Page(c) = [k \in 1..(last - c) |-> c + k]
  BY <1>1, MinOfTwo DEF Page
<1>3. last \in Nat /\ last <= NWarnings
  BY <1>1
<1> HIDE DEF last
<1>4. last - c > 0
  <2> SUFFICES ASSUME ~(last - c > 0) PROVE FALSE
    OBVIOUS
  <2>1. 1..(last - c) = {}
    BY <1>1, <1>3
  <2> QED BY <1>2, <2>1
<1>5. \A k \in 1..(last - c) : c + k \in Warnings
  BY <1>1, <1>3 DEF Warnings
<1>6. Page(c) \in Seq(Warnings) /\ Len(Page(c)) = last - c
  BY <1>1, <1>2, <1>3, <1>4, <1>5
<1> QED BY <1>1, <1>2, <1>3, <1>4, <1>6

-----------------------------------------------------------------------------
(* The invariant.                                                          *)

Handled(w) == Reported(w) \/ w \in passed

\* What a sync still has to process runs on without a gap, to the next cursor
\* if there is one.
Contiguous(s) ==
  /\ s.todo # <<>>
  /\ \A k \in 1..Len(s.todo) : s.todo[k] = s.todo[1] + k - 1
  /\ s.next \in {0, s.todo[Len(s.todo)]}

\* Everything below what a sync has still to process has been handled.
SyncReached(i) ==
  /\ \A w \in 1..sync[i].cursor : Handled(w)
  /\ sync[i].at = "process" =>
       /\ Contiguous(sync[i])
       /\ \A w \in Warnings : w < sync[i].todo[1] => Handled(w)

\* And so has everything up to any row of the table.
ReachInv ==
  /\ \A a \in Accounts : live[a] \in Warnings => \A w \in 1..live[a] : Handled(w)
  /\ \A i \in Instances : SyncReached(i)

\* The rows are below what the only leader has still to process.
Ahead(i) ==
  \A a \in Accounts :
    /\ sync[i].at \in {"check", "fetch"} => live[a] <= sync[i].cursor
    /\ sync[i].at = "process" => live[a] < sync[i].todo[1]

TipInv ==
  /\ \A i \in Instances : pc[i] # "work" => sync[i] = Idle
  /\ lost # {} => losses # 0
  /\ apiReports = 0 => \A a \in Accounts : live[a] # NoRid
  /\ losses = 0 /\ apiReports = 0 => \A i \in Instances : pc[i] = "work" => Ahead(i)

IngestorInv == LockInv /\ TypeOK /\ ReachInv /\ TipInv

\* Where a sync resumes, everything before has been handled.
LEMMA ResumeReached ==
  ASSUME TypeOK, ReachInv
  PROVE  Resume \in 0..NWarnings /\ \A w \in 1..Resume : Handled(w)
<1>1. CASE Resume = 0
  BY <1>1, IngestorAssumption
<1>2. CASE Resume # 0
  <2>1. Resume = Newest /\ Newest # 0
    BY <1>2 DEF Resume
  <2>2. PICK a \in Accounts : live[a] = Newest
    BY <2>1, NewestOf
  <2>3. Newest \in Warnings
    BY <2>1, NewestOf, IngestorAssumption DEF Warnings
  <2> QED BY <2>1, <2>2, <2>3, NewestOf DEF ReachInv
<1> QED BY <1>1, <1>2

\* A sync that has not begun, and one that has returned.
LEMMA IdleIsState == Idle \in SyncStates /\ Returned \in SyncStates
<1>1. <<>> \in Seq(Warnings)
  OBVIOUS
<1>2. 0 \in 0..NWarnings
  BY IngestorAssumption
<1> QED BY <1>1, <1>2 DEF Idle, Returned, SyncStates

\* The invariant holds initially.
LEMMA IngestorInit == Init => IngestorInv
<1> SUFFICES ASSUME Init PROVE IngestorInv
  OBVIOUS
<1>1. ElectorInv
  BY ElectorInitInv DEF Init
<1>2. TypeOK
  <2>1. Idle \in SyncStates
    BY IdleIsState
  <2>2. sync \in [Instances -> SyncStates]
    BY <2>1 DEF Init
  <2>3. ElectorTypeOK
    BY <1>1 DEF ElectorInv
  <2> QED BY <2>2, <2>3, IngestorAssumption DEF Init, TypeOK
<1>3. ReachInv /\ TipInv
  BY IngestorAssumption
    DEF Init, ElectorInit, ReachInv, SyncReached, TipInv, Idle, Warnings, Absent, NoRid
<1> QED BY <1>1, <1>2, <1>3 DEF IngestorInv, ElectorInv

\* A step takes part in the election, or is a fault that this has no part in.
LEMMA ElectionStep ==
  ASSUME [Next]_vars
  PROVE  \/ [ElectorNext]_electorVars
         \/ /\ faults < MaxFaults
            /\ faults' = faults + 1
            /\ UNCHANGED <<pc, holder, cancelled, lost, losses, crashes>>
<1>1. CASE ElectorOnly
  BY <1>1 DEF ElectorOnly, ElectorNext
<1>2. ASSUME NEW i \in Instances, SyncStep(i), ~List(i) PROVE [ElectorNext]_electorVars
  <2>1. CASE EndWork(i)
    BY <2>1 DEF EndWork, ElectorNext
  <2>2. CASE CheckContext(i) \/ Fetch(i) \/ Insert(i) \/ SkipDuplicate(i) \/ AbortSync(i)
    BY <2>2 DEF CheckContext, Fetch, Insert, SkipDuplicate, AbortSync
  <2> QED BY <1>2, <2>1, <2>2 DEF SyncStep
<1>3. ASSUME NEW i \in Instances, SkipCollision(i) \/ CrashSync(i)
      PROVE  [ElectorNext]_electorVars
  BY <1>3 DEF SkipCollision, CrashSync, ElectorNext
<1>4. ASSUME NEW i \in Instances, List(i) \/ FetchFails(i) \/ InsertFails(i)
      PROVE  \/ UNCHANGED electorVars
             \/ /\ faults < MaxFaults
                /\ faults' = faults + 1
                /\ UNCHANGED <<pc, holder, cancelled, lost, losses, crashes>>
  BY <1>4 DEF List, FetchFails, InsertFails
<1>5. CASE \/ Settle \/ UNCHANGED vars
           \/ \E a \in Accounts : ApiReport(a) \/ Remove(a)
  BY <1>5 DEF Settle, vars, ApiReport, Remove
<1> QED BY <1>1, <1>2, <1>3, <1>4, <1>5 DEF Next

\* Either keeps the election's invariant.
LEMMA ElectionKeeps ==
  ASSUME IngestorInv, [Next]_vars
  PROVE  ElectorInv'
<1> USE DEF IngestorInv, TypeOK, ElectorInv
<1>1. CASE [ElectorNext]_electorVars
  BY <1>1, ElectorTyping, ElectorLocking
<1>2. CASE /\ faults < MaxFaults
           /\ faults' = faults + 1
           /\ UNCHANGED <<pc, holder, cancelled, lost, losses, crashes>>
  BY <1>2, ElectorAssumption DEF ElectorTypeOK, LockInv
<1> QED BY <1>1, <1>2, ElectionStep

-----------------------------------------------------------------------------
(* Facts about single steps.                                               *)

\* What has been handled stays so: a row leaves the table only with its account
\* noted as removed.
LEMMA HandledStays ==
  ASSUME TypeOK, removed \subseteq removed', passed \subseteq passed',
         \A a \in Accounts : live[a] # Absent => live'[a] # Absent \/ a \in removed'
  PROVE  \A w \in Warnings : Handled(w) => Handled(w)'
BY IngestorAssumption DEF Handled, Reported

\* Where Advance goes,
Advanced(s) ==
  IF Len(s.todo) > 1 THEN [s EXCEPT !.todo = Tail(s.todo)]
  ELSE IF s.next = 0 THEN Returned
  ELSE [Idle EXCEPT !.at = "check", !.cursor = s.next]

\* from a sync that has something to process.
LEMMA AdvanceTo ==
  ASSUME NEW s \in SyncStates, Contiguous(s)
  PROVE  /\ Advanced(s) \in SyncStates
         /\ \/ /\ Advanced(s).at = s.at /\ Advanced(s).cursor = s.cursor
               /\ Contiguous(Advanced(s)) /\ Advanced(s).todo[1] = s.todo[1] + 1
            \/ Advanced(s).at = "end" /\ Advanced(s).cursor = 0
            \/ Advanced(s).at = "check" /\ Advanced(s).cursor = s.todo[1]
<1> DEFINE t == Advanced(s)
<1>0. t = IF Len(s.todo) > 1 THEN [s EXCEPT !.todo = Tail(s.todo)]
          ELSE IF s.next = 0 THEN Returned
          ELSE [Idle EXCEPT !.at = "check", !.cursor = s.next]
  BY DEF Advanced
<1> SUFFICES /\ t \in SyncStates
               /\ \/ /\ t.at = s.at /\ t.cursor = s.cursor
                     /\ Contiguous(t) /\ t.todo[1] = s.todo[1] + 1
                  \/ t.at = "end" /\ t.cursor = 0
                  \/ t.at = "check" /\ t.cursor = s.todo[1]
  OBVIOUS
<1> HIDE DEF t
<1> USE DEF SyncStates
<1>1. /\ s.todo \in Seq(Warnings) /\ s.todo # <<>>
      /\ Len(s.todo) \in Nat \ {0}
      /\ s.todo[1] \in Warnings
  BY DEF Contiguous
<1>2. CASE Len(s.todo) > 1
  <2> DEFINE rest == Tail(s.todo)
  <2>1. /\ rest \in Seq(Warnings) /\ Len(rest) = Len(s.todo) - 1
        /\ \A k \in 1..(Len(s.todo) - 1) : rest[k] = s.todo[k + 1]
    BY <1>1, <1>2
  <2>2. /\ t.at = s.at /\ t.cursor = s.cursor /\ t.next = s.next
        /\ t.todo = rest /\ t \in SyncStates
    BY <1>0, <1>2, <2>1
  <2> HIDE DEF rest
  <2>3. rest # <<>>
    BY <1>1, <1>2, <2>1
  <2>4. \A k \in 1..(Len(s.todo) - 1) : rest[k] = s.todo[1] + k
    <3> SUFFICES ASSUME NEW k \in 1..(Len(s.todo) - 1) PROVE rest[k] = s.todo[1] + k
      OBVIOUS
    <3>1. k + 1 \in 1..Len(s.todo)
      BY <1>1
    <3>2. s.todo[k + 1] = s.todo[1] + (k + 1) - 1
      BY <3>1 DEF Contiguous
    <3> QED BY <1>1, <2>1, <3>2 DEF Warnings
  <2>5. rest[1] = s.todo[1] + 1
    BY <1>1, <1>2, <2>4
  <2>6. rest[Len(rest)] = s.todo[Len(s.todo)]
    BY <1>1, <1>2, <2>1
  <2>7. \A k \in 1..Len(rest) : rest[k] = rest[1] + k - 1
    BY <1>1, <2>1, <2>4, <2>5 DEF Warnings
  <2>8. Contiguous(t)
    BY <2>2, <2>3, <2>6, <2>7 DEF Contiguous
  <2> QED BY <2>2, <2>5, <2>8
<1>3. CASE Len(s.todo) <= 1 /\ s.next = 0
  <2>1. t = Returned
    BY <1>0, <1>1, <1>3
  <2>2. t.at = "end" /\ t.cursor = 0
    BY <2>1 DEF Returned, Idle
  <2>3. t \in SyncStates
    BY <2>1, IdleIsState
  <2> QED BY <2>2, <2>3
<1>4. CASE Len(s.todo) <= 1 /\ s.next # 0
  <2>1. t = [Idle EXCEPT !.at = "check", !.cursor = s.next]
    BY <1>0, <1>1, <1>4
  <2>2. s.next = s.todo[1] /\ s.next \in 0..NWarnings
    BY <1>1, <1>4 DEF Contiguous
  <2>3. t.at = "check" /\ t.cursor = s.next
    BY <2>1 DEF Idle
  <2>4. t \in SyncStates
    BY <2>1, <2>2, IdleIsState
  <2> QED BY <2>2, <2>3, <2>4
<1> QED BY <1>1, <1>2, <1>3, <1>4

\* After it everything below is handled, when the first warning has been.
LEMMA AdvanceReached ==
  ASSUME TypeOK, NEW i \in Instances, SyncReached(i), sync[i].at = "process", Advance(i),
         \A w \in Warnings : Handled(w) => Handled(w)',
         NEW first, first = Head(sync[i].todo), Handled(first)'
  PROVE  /\ SyncReached(i)'
         /\ sync' \in [Instances -> SyncStates]
         /\ \A j \in Instances \ {i} : sync'[j] = sync[j]
         /\ \/ sync'[i].at = "process" /\ sync'[i].todo[1] = first + 1
            \/ sync'[i].at = "check" /\ sync'[i].cursor = first
            \/ sync'[i].at = "end"
<1> DEFINE s == sync[i]
           t == sync'[i]
<1>1. s \in SyncStates /\ sync \in [Instances -> SyncStates]
  BY DEF TypeOK
<1>2. /\ Contiguous(s)
      /\ \A w \in Warnings : w < s.todo[1] => Handled(w)
      /\ \A w \in 1..s.cursor : Handled(w)
  BY DEF SyncReached
<1>3. t = Advanced(s) /\ sync' = [sync EXCEPT ![i] = t]
  BY <1>1 DEF Advance, Advanced
<1>4. /\ t \in SyncStates
      /\ \/ /\ t.at = s.at /\ t.cursor = s.cursor
            /\ Contiguous(t) /\ t.todo[1] = s.todo[1] + 1
         \/ t.at = "end" /\ t.cursor = 0
         \/ t.at = "check" /\ t.cursor = s.todo[1]
  <2>1. s \in SyncStates /\ Contiguous(s)
    BY <1>1, <1>2
  <2> HIDE DEF s, t
  <2> QED BY <1>3, <2>1, AdvanceTo
<1>5. first = s.todo[1] /\ first \in Warnings
  BY <1>1, <1>2 DEF Contiguous, SyncStates
<1>6. \A w \in Warnings : w <= first => Handled(w)'
  BY <1>2, <1>5 DEF Warnings
<1>7. \A c \in 0..NWarnings : 1..c \subseteq Warnings
  BY IngestorAssumption DEF Warnings
<1>8. SyncReached(i)'
  <2>1. CASE t.at = "process"
    <3>1. t.cursor = s.cursor /\ Contiguous(t) /\ t.todo[1] = first + 1
      BY <1>4, <1>5, <2>1
    <3>2. \A w \in Warnings : w < first + 1 => Handled(w)'
      BY <1>5, <1>6 DEF Warnings
    <3>3. s.cursor \in 0..NWarnings
      BY <1>1 DEF SyncStates
    <3>4. \A w \in 1..s.cursor : Handled(w)'
      BY <1>2, <1>7, <3>3
    <3> QED BY <3>1, <3>2, <3>4 DEF SyncReached, Contiguous
  <2>2. CASE t.at = "end" /\ t.cursor = 0
    BY <2>2 DEF SyncReached
  <2>3. CASE t.at = "check" /\ t.cursor = first
    BY <1>5, <1>6, <1>7, <2>3 DEF SyncReached, Warnings
  <2> QED BY <1>4, <1>5, <2>1, <2>2, <2>3
<1> QED BY <1>1, <1>3, <1>4, <1>5, <1>8

\* What a step of one sync leaves the others.
LEMMA OthersReached ==
  ASSUME TypeOK, ReachInv, NEW i \in Instances,
         \A j \in Instances \ {i} : sync'[j] = sync[j],
         \A w \in Warnings : Handled(w) => Handled(w)',
         SyncReached(i)'
  PROVE  \A j \in Instances : SyncReached(j)'
<1> SUFFICES ASSUME NEW j \in Instances \ {i} PROVE SyncReached(j)'
  OBVIOUS
<1>1. sync'[j] = sync[j] /\ SyncReached(j)
  BY DEF ReachInv
<1>2. 1..sync[j].cursor \subseteq Warnings
  BY IngestorAssumption DEF TypeOK, SyncStates, Warnings
<1> QED BY <1>1, <1>2 DEF SyncReached, Contiguous

\* Every row stands on handled warnings, if a new one does.
LEMMA RowsReached ==
  ASSUME TypeOK, ReachInv,
         \A w \in Warnings : Handled(w) => Handled(w)',
         \A a \in Accounts : \/ live'[a] = live[a]
                             \/ live'[a] \in {Absent, NoRid}
                             \/ /\ live'[a] \in Warnings
                                /\ \A w \in Warnings : w <= live'[a] => Handled(w)'
  PROVE  \A a \in Accounts :
           live'[a] \in Warnings => \A w \in 1..live'[a] : Handled(w)'
<1> SUFFICES ASSUME NEW a \in Accounts, live'[a] \in Warnings
             PROVE  \A w \in 1..live'[a] : Handled(w)'
  OBVIOUS
<1>1. live'[a] \notin {Absent, NoRid}
  BY IngestorAssumption DEF Warnings, Absent, NoRid
<1>2. \A w \in 1..live'[a] : w \in Warnings /\ w <= live'[a]
  BY IngestorAssumption DEF Warnings
<1>3. CASE live'[a] = live[a]
  BY <1>2, <1>3 DEF ReachInv
<1>4. CASE \A w \in Warnings : w <= live'[a] => Handled(w)'
  BY <1>2, <1>4
<1> QED BY <1>1, <1>3, <1>4

\* While no session was lost the instance at work is the only one.
LEMMA OnlyWorker ==
  ASSUME LockInv, lost = {}, NEW i \in Instances, NEW j \in Instances,
         pc[i] = "work", pc[j] = "work"
  PROVE  i = j
BY DEF LockInv

-----------------------------------------------------------------------------
(* The actions.                                                            *)

\* A sync that ends, or dies, leaves all in order.
LEMMA RestKeeps ==
  ASSUME IngestorInv, ElectorInv', NEW i \in Instances, NEW t \in {Returned, Idle},
         sync' = [sync EXCEPT ![i] = t],
         pc'[i] = "work" \/ t = Idle,
         \A j \in Instances \ {i} : pc'[j] = pc[j],
         losses' = losses, lost' \subseteq lost,
         UNCHANGED tableVars
  PROVE  IngestorInv'
<1> USE DEF IngestorInv
<1>1. t \in SyncStates /\ t.cursor = 0 /\ t.at \in {"list", "end"}
  <2>1. t \in SyncStates
    BY IdleIsState
  <2> QED BY <2>1 DEF Returned, Idle
<1>2. sync' \in [Instances -> SyncStates] /\ sync'[i] = t
  BY <1>1 DEF TypeOK
<1>3. TypeOK'
  BY <1>2 DEF TypeOK, ElectorInv, tableVars
<1>4. \A w \in Warnings : Handled(w) => Handled(w)'
  BY HandledStays DEF tableVars
<1>5. SyncReached(i)'
  BY <1>1, <1>2 DEF SyncReached
<1>6. \A j \in Instances \ {i} : sync'[j] = sync[j]
  BY DEF TypeOK
<1>7. ReachInv'
  <2>1. \A j \in Instances : SyncReached(j)'
    BY <1>4, <1>5, <1>6, OthersReached
  <2>2. \A a \in Accounts : live'[a] = live[a]
    BY DEF tableVars
  <2>3. \A a \in Accounts :
          live'[a] \in Warnings => \A w \in 1..live'[a] : Handled(w)'
    BY <1>4, <2>2, RowsReached
  <2> QED BY <2>1, <2>3 DEF ReachInv
<1>8. TipInv'
  <2>1. \A j \in Instances : pc'[j] # "work" => sync'[j] = Idle
    BY <1>2, <1>6 DEF TipInv
  <2>2. lost' # {} => losses' # 0
    BY DEF TipInv
  <2>3. apiReports' = 0 => \A a \in Accounts : live'[a] # NoRid
    BY DEF TipInv, tableVars
  <2>4. ASSUME losses' = 0, apiReports' = 0, NEW j \in Instances, pc'[j] = "work"
        PROVE  Ahead(j)'
    <3>1. CASE j = i
      BY <1>1, <1>2, <3>1 DEF Ahead
    <3>2. CASE j # i
      BY <1>6, <2>4, <3>2 DEF TipInv, Ahead, tableVars
    <3> QED BY <3>1, <3>2
  <2> QED BY <2>1, <2>2, <2>3, <2>4 DEF TipInv
<1> QED BY <1>3, <1>7, <1>8 DEF ElectorInv

\* A sync that goes on, with the warnings and rows it has dealt with.
LEMMA WorkKeeps ==
  ASSUME IngestorInv, ElectorInv', NEW i \in Instances,
         pc[i] = "work", pc' = pc, losses' = losses, lost' = lost,
         sync' \in [Instances -> SyncStates],
         \A j \in Instances \ {i} : sync'[j] = sync[j],
         live' \in [Accounts -> {Absent, NoRid} \cup Warnings],
         passed' \subseteq Warnings,
         UNCHANGED <<feed, removed, apiReports, removals>>,
         \A w \in Warnings : Handled(w) => Handled(w)',
         SyncReached(i)',
         \A a \in Accounts :
           \/ live'[a] = live[a]
           \/ /\ live'[a] \in Warnings
              /\ \A w \in Warnings : w <= live'[a] => Handled(w)',
         losses = 0 /\ apiReports = 0 => Ahead(i)'
  PROVE  IngestorInv'
<1> USE DEF IngestorInv
<1>1. TypeOK'
  BY DEF TypeOK, ElectorInv
<1>2. ReachInv'
  <2>1. \A j \in Instances : SyncReached(j)'
    BY OthersReached
  <2>2. \A a \in Accounts :
          live'[a] \in Warnings => \A w \in 1..live'[a] : Handled(w)'
    BY RowsReached
  <2> QED BY <2>1, <2>2 DEF ReachInv
<1>3. TipInv'
  <2>1. \A j \in Instances : pc'[j] # "work" => sync'[j] = Idle
    BY DEF TipInv
  <2>2. lost' # {} => losses' # 0
    BY DEF TipInv
  <2>3. NoRid \notin Warnings
    BY IngestorAssumption DEF NoRid, Warnings
  <2>4. apiReports' = 0 => \A a \in Accounts : live'[a] # NoRid
    BY <2>3 DEF TipInv
  <2>5. ASSUME losses' = 0, apiReports' = 0, NEW j \in Instances, pc'[j] = "work"
        PROVE  Ahead(j)'
    <3>1. lost = {}
      BY <2>5 DEF TipInv
    <3>2. j = i
      BY <2>5, <3>1, OnlyWorker
    <3> QED BY <2>5, <3>2
  <2> QED BY <2>1, <2>2, <2>4, <2>5 DEF TipInv
<1> QED BY <1>1, <1>2, <1>3 DEF ElectorInv

\* List: the cursor is the newest row, unless CSFloat has used the API.
LEMMA ListKeeps ==
  ASSUME IngestorInv, ElectorInv', NEW i \in Instances, List(i)
  PROVE  IngestorInv'
<1> USE DEF IngestorInv
<1>1. UNCHANGED tableVars /\ pc' = pc /\ losses' = losses /\ lost' = lost /\ pc[i] = "work"
  BY DEF List, At, electorVars
<1>2. CASE sync' = [sync EXCEPT ![i] = Returned]
  BY <1>1, <1>2, RestKeeps
<1>3. CASE sync' = [sync EXCEPT ![i].at = "check", ![i].cursor = Resume]
  <2>1. sync[i] \in SyncStates /\ Resume \in 0..NWarnings
    BY ResumeReached DEF TypeOK
  <2>2. /\ sync' \in [Instances -> SyncStates]
        /\ sync'[i].at = "check" /\ sync'[i].cursor = Resume
        /\ \A j \in Instances \ {i} : sync'[j] = sync[j]
    <3> HIDE DEF Resume
    <3> QED BY <1>3, <2>1 DEF TypeOK, SyncStates
  <2>3. \A w \in Warnings : Handled(w) => Handled(w)'
    BY <1>1, HandledStays DEF tableVars
  <2>4. SyncReached(i)'
    <3>1. \A w \in 1..Resume : w \in Warnings /\ Handled(w)
      BY <2>1, ResumeReached, IngestorAssumption DEF Warnings
    <3> QED BY <2>2, <2>3, <3>1 DEF SyncReached
  <2>5. ASSUME losses = 0, apiReports = 0 PROVE Ahead(i)'
    <3>1. Resume = Newest
      BY <2>5 DEF Resume, TipInv
    <3> QED BY <1>1, <2>2, <3>1, NewestOf DEF Ahead, tableVars
  <2>6. live' = live /\ passed' = passed
        /\ UNCHANGED <<feed, removed, apiReports, removals>>
    BY <1>1 DEF tableVars
  <2> QED BY <1>1, <2>2, <2>3, <2>4, <2>5, <2>6, WorkKeeps DEF TypeOK
<1> QED BY <1>2, <1>3 DEF List

\* CheckContext: the cursor stays.
LEMMA CheckContextKeeps ==
  ASSUME IngestorInv, ElectorInv', NEW i \in Instances, CheckContext(i)
  PROVE  IngestorInv'
<1> USE DEF IngestorInv
<1>1. /\ UNCHANGED tableVars /\ pc' = pc /\ losses' = losses /\ lost' = lost
      /\ pc[i] = "work" /\ sync[i].at = "check"
  BY DEF CheckContext, At, electorVars
<1>2. CASE sync' = [sync EXCEPT ![i] = Returned]
  BY <1>1, <1>2, RestKeeps
<1>3. CASE sync' = [sync EXCEPT ![i] = [sync[i] EXCEPT !.at = "fetch"]]
  <2>1. sync[i] \in SyncStates
    BY DEF TypeOK
  <2>2. /\ sync' \in [Instances -> SyncStates]
        /\ sync'[i].at = "fetch" /\ sync'[i].cursor = sync[i].cursor
        /\ \A j \in Instances \ {i} : sync'[j] = sync[j]
    BY <1>3, <2>1 DEF TypeOK, SyncStates
  <2>3. \A w \in Warnings : Handled(w) => Handled(w)'
    BY <1>1, HandledStays DEF tableVars
  <2>4. SyncReached(i)'
    <3>1. \A w \in 1..sync[i].cursor : w \in Warnings /\ Handled(w)
      BY <2>1, IngestorAssumption DEF ReachInv, SyncReached, SyncStates, Warnings
    <3> QED BY <2>2, <2>3, <3>1 DEF SyncReached
  <2>5. ASSUME losses = 0, apiReports = 0 PROVE Ahead(i)'
    <3>1. Ahead(i)
      BY <1>1, <2>5 DEF TipInv
    <3> QED BY <1>1, <2>2, <3>1 DEF Ahead, tableVars
  <2>6. live' = live /\ passed' = passed
        /\ UNCHANGED <<feed, removed, apiReports, removals>>
    BY <1>1 DEF tableVars
  <2> QED BY <1>1, <2>2, <2>3, <2>4, <2>5, <2>6, WorkKeeps DEF TypeOK
<1> QED BY <1>2, <1>3 DEF CheckContext

\* Fetch: the page begins right after the cursor.
LEMMA FetchKeeps ==
  ASSUME IngestorInv, ElectorInv', NEW i \in Instances, Fetch(i)
  PROVE  IngestorInv'
<1> USE DEF IngestorInv
<1> DEFINE c == sync[i].cursor
           page == Page(c)
<1>1. /\ UNCHANGED tableVars /\ pc' = pc /\ losses' = losses /\ lost' = lost
      /\ pc[i] = "work" /\ sync[i].at = "fetch"
  BY DEF Fetch, At, electorVars
<1>2. CASE page = <<>>
  <2>1. sync' = [sync EXCEPT ![i] = Returned]
    BY <1>2 DEF Fetch
  <2> QED BY <1>1, <2>1, RestKeeps
<1>3. CASE page # <<>>
  <2>1. /\ sync \in [Instances -> SyncStates] /\ sync[i] \in SyncStates
        /\ c \in 0..NWarnings /\ feed \in 0..NWarnings
    BY DEF TypeOK, SyncStates
  <2>2. PICK next \in {page[Len(page)]} \cup (IF page[Len(page)] = feed THEN {0} ELSE {}) :
          sync' = [sync EXCEPT ![i].at = "process", ![i].todo = page, ![i].next = next]
    BY <1>3 DEF Fetch
  <2>3. next \in {0, page[Len(page)]}
    BY <2>2
  <2>4. /\ page \in Seq(Warnings)
        /\ Len(page) \in Nat \ {0}
        /\ \A k \in 1..Len(page) : page[k] = c + k
    BY <1>3, <2>1, PageOf
  <2> HIDE DEF page
  <2>5. page[1] = c + 1 /\ page[Len(page)] \in Warnings
    BY <2>4
  <2>6. next \in 0..NWarnings
    BY <2>3, <2>5, IngestorAssumption DEF Warnings
  <2>7. /\ sync' \in [Instances -> SyncStates]
        /\ \A j \in Instances \ {i} : sync'[j] = sync[j]
        /\ sync'[i].at = "process" /\ sync'[i].cursor = c
        /\ sync'[i].todo = page /\ sync'[i].next = next
    BY <2>1, <2>2, <2>4, <2>6 DEF SyncStates
  <2>8. \A w \in Warnings : Handled(w) => Handled(w)'
    BY <1>1, HandledStays DEF tableVars
  <2>9. SyncReached(i)'
    <3>1. \A w \in 1..c : w \in Warnings /\ Handled(w)
      BY <2>1, IngestorAssumption DEF ReachInv, SyncReached, Warnings
    <3>2. \A w \in Warnings : w < c + 1 => w \in 1..c
      BY <2>1 DEF Warnings
    <3>3. \A w \in Warnings : w < page[1] => Handled(w)'
      BY <2>5, <2>8, <3>1, <3>2
    <3>4. \A k \in 1..Len(page) : page[k] = page[1] + k - 1
      BY <2>1, <2>4, <2>5
    <3>5. Contiguous(sync[i])'
      BY <1>3, <2>3, <2>7, <3>4 DEF Contiguous
    <3> HIDE DEF c
    <3> QED BY <2>7, <2>8, <3>1, <3>3, <3>5 DEF SyncReached
  <2>10. ASSUME losses = 0, apiReports = 0 PROVE Ahead(i)'
    <3>1. Ahead(i)
      BY <1>1, <2>10 DEF TipInv
    <3>2. ASSUME NEW a \in Accounts PROVE live[a] < c + 1
      <4>1. live[a] \in Int /\ live[a] <= c
        BY <1>1, <3>1, IngestorAssumption DEF Ahead, TypeOK, Absent, NoRid, Warnings
      <4> QED BY <2>1, <4>1
    <3> QED BY <1>1, <2>5, <2>7, <3>2 DEF Ahead, tableVars
  <2>11. live' = live /\ passed' = passed
        /\ UNCHANGED <<feed, removed, apiReports, removals>>
    BY <1>1 DEF tableVars
  <2> QED BY <1>1, <2>7, <2>8, <2>9, <2>10, <2>11, WorkKeeps DEF TypeOK
<1> QED BY <1>2, <1>3

\* The first warning of the page is dealt with: as a new row, as a duplicate, or
\* passed over.
LEMMA ProcessKeeps ==
  ASSUME IngestorInv, ElectorInv', NEW i \in Instances,
         Insert(i) \/ SkipDuplicate(i) \/ SkipCollision(i)
  PROVE  IngestorInv'
<1> USE DEF IngestorInv
<1>1. /\ pc[i] = "work" /\ sync[i].at = "process" /\ Advance(i)
      /\ pc' = pc /\ losses' = losses /\ lost' = lost
      /\ UNCHANGED <<feed, removed, apiReports, removals>>
  BY DEF Insert, SkipDuplicate, SkipCollision, At, electorVars, tableVars
<1>2. SyncReached(i)
  BY DEF ReachInv
<1>3. PICK first \in Warnings : first = Head(sync[i].todo) /\ first = sync[i].todo[1]
  <2>1. sync[i].todo \in Seq(Warnings) /\ sync[i].todo # <<>>
    BY <1>1, <1>2 DEF SyncReached, Contiguous, TypeOK, SyncStates
  <2> QED BY <2>1
<1>4. AccountOf[first] \in Accounts
  BY IngestorAssumption
<1>5. \/ Duplicate(first) /\ live' = live /\ passed' = passed
      \/ live' = live /\ passed' = passed \cup {first}
      \/ /\ live' = [live EXCEPT ![AccountOf[first]] = first] /\ passed' = passed
  BY <1>3 DEF Insert, SkipDuplicate, SkipCollision, Inserted, tableVars
<1>6. Absent \notin Warnings
  BY IngestorAssumption DEF Absent, Warnings
<1>7. /\ live' \in [Accounts -> {Absent, NoRid} \cup Warnings]
      /\ passed' \subseteq Warnings /\ passed \subseteq passed'
      /\ \A a \in Accounts : live[a] # Absent => live'[a] # Absent
      /\ \A a \in Accounts : live'[a] = live[a] \/ live'[a] = first
  BY <1>4, <1>5, <1>6 DEF TypeOK
<1>8. \A w \in Warnings : Handled(w) => Handled(w)'
  BY <1>1, <1>7, HandledStays
<1>9. Handled(first)'
  BY <1>4, <1>5, <1>6 DEF Handled, Reported, Duplicate, TypeOK
<1>10. /\ SyncReached(i)'
       /\ sync' \in [Instances -> SyncStates]
       /\ \A j \in Instances \ {i} : sync'[j] = sync[j]
       /\ \/ sync'[i].at = "process" /\ sync'[i].todo[1] = first + 1
          \/ sync'[i].at = "check" /\ sync'[i].cursor = first
          \/ sync'[i].at = "end"
  BY <1>1, <1>2, <1>3, <1>8, <1>9, AdvanceReached
<1>11. \A w \in Warnings : w <= first => Handled(w)'
  <2>1. \A w \in Warnings : w < first => Handled(w)'
    BY <1>1, <1>2, <1>3, <1>8 DEF SyncReached
  <2> QED BY <1>4, <1>9, <2>1 DEF Warnings
<1>12. ASSUME losses = 0, apiReports = 0 PROVE Ahead(i)'
  <2>1. Ahead(i)
    BY <1>1, <1>12 DEF TipInv
  <2>2. ASSUME NEW a \in Accounts PROVE live'[a] <= first /\ live'[a] < first + 1
    <3>1. live[a] \in Int /\ live[a] < first
      BY <1>1, <1>3, <2>1, IngestorAssumption DEF Ahead, TypeOK, Absent, NoRid, Warnings
    <3>2. first \in Int
      BY <1>4 DEF Warnings
    <3> QED BY <1>7, <3>1, <3>2
  <2> QED BY <1>10, <2>2 DEF Ahead
<1> QED BY <1>1, <1>4, <1>7, <1>8, <1>10, <1>11, <1>12, WorkKeeps

\* The connection fails under Create: the row may be there or not.
LEMMA InsertFailsKeeps ==
  ASSUME IngestorInv, ElectorInv', NEW i \in Instances, InsertFails(i)
  PROVE  IngestorInv'
<1> USE DEF IngestorInv
<1>1. /\ pc[i] = "work" /\ sync[i].at = "process"
      /\ pc' = pc /\ losses' = losses /\ lost' = lost
      /\ sync' = [sync EXCEPT ![i] = Returned]
      /\ UNCHANGED <<feed, removed, passed, apiReports, removals>>
  BY DEF InsertFails, At
<1>2. CASE live' = live
  BY <1>1, <1>2, RestKeeps DEF tableVars
<1>3. CASE live' # live
  <2>1. SyncReached(i)
    BY DEF ReachInv
  <2>2. PICK first \in Warnings : first = Head(sync[i].todo) /\ first = sync[i].todo[1]
    <3>1. sync[i].todo \in Seq(Warnings) /\ sync[i].todo # <<>>
      BY <1>1, <2>1 DEF SyncReached, Contiguous, TypeOK, SyncStates
    <3> QED BY <3>1
  <2>3. live' = [live EXCEPT ![AccountOf[first]] = first] /\ AccountOf[first] \in Accounts
    BY <1>3, <2>2, IngestorAssumption DEF InsertFails, Inserted
  <2>4. Absent \notin Warnings
    BY IngestorAssumption DEF Absent, Warnings
  <2>5. /\ live' \in [Accounts -> {Absent, NoRid} \cup Warnings]
        /\ \A a \in Accounts : live[a] # Absent => live'[a] # Absent
        /\ \A a \in Accounts : live'[a] = live[a] \/ live'[a] = first
    BY <2>3, <2>4 DEF TypeOK
  <2>6. \A w \in Warnings : Handled(w) => Handled(w)'
    BY <1>1, <2>5, HandledStays
  <2>7. Handled(first)'
    BY <2>3, <2>4 DEF Handled, Reported, TypeOK
  <2>8. \A w \in Warnings : w <= first => Handled(w)'
    <3>1. \A w \in Warnings : w < first => Handled(w)'
      BY <1>1, <2>1, <2>2, <2>6 DEF SyncReached
    <3> QED BY <2>7, <3>1 DEF Warnings
  <2>9. Returned \in SyncStates /\ Returned.cursor = 0 /\ Returned.at = "end"
    <3>1. Returned.cursor = 0 /\ Returned.at = "end"
      BY DEF Returned, Idle
    <3> QED BY <3>1, IdleIsState
  <2>10. /\ sync' \in [Instances -> SyncStates] /\ sync'[i] = Returned
         /\ \A j \in Instances \ {i} : sync'[j] = sync[j]
    BY <1>1, <2>9 DEF TypeOK
  <2>11. SyncReached(i)'
    BY <2>9, <2>10 DEF SyncReached
  <2>12. Ahead(i)'
    BY <2>9, <2>10 DEF Ahead
  <2>13. passed' \subseteq Warnings
    BY <1>1 DEF TypeOK
  <2> QED BY <1>1, <2>5, <2>6, <2>8, <2>10, <2>11, <2>12, <2>13, WorkKeeps
<1> QED BY <1>2, <1>3

\* The steps of the election alone: an instance that begins to work has not begun
\* its sync.
LEMMA ElectorOnlyKeeps ==
  ASSUME IngestorInv, ElectorInv', ElectorOnly
  PROVE  IngestorInv'
<1> USE DEF IngestorInv
<1>1. UNCHANGED <<sync, tableVars>>
  BY DEF ElectorOnly
<1>2. /\ \A j \in Instances : pc[j] = "work" => pc'[j] = "work"
      /\ losses' = 0 => losses = 0
      /\ lost' # {} => losses' # 0
  <2> USE ElectorAssumption DEF TypeOK, ElectorTypeOK, TipInv, Goto
  <2>1. ASSUME NEW i \in Instances, RunStep(i)
        PROVE  /\ \A j \in Instances : pc[j] = "work" => pc'[j] = "work"
               /\ losses' = losses /\ lost' \subseteq lost
    BY <2>1 DEF RunStep, Check, Begin, Acquire, Busy, Unlock, Wake
  <2>2. ASSUME NEW i \in Instances, Environment(i)
        PROVE  /\ \A j \in Instances : pc[j] = "work" => pc'[j] = "work"
               /\ losses' = 0 => losses = 0
               /\ lost' # {} => losses' # 0
    <3>1. CASE SessionLost(i)
      BY <3>1 DEF SessionLost
    <3>2. CASE BeginFails(i) \/ QueryFails(i) \/ Cancel(i) \/ Exit(i) \/ Start(i)
      BY <3>2 DEF BeginFails, QueryFails, Cancel, Exit, Start, Die
    <3> QED BY <2>2, <3>1, <3>2 DEF Environment
  <2>3. CASE Reap
    BY <2>3 DEF Reap
  <2> QED BY <2>1, <2>2, <2>3 DEF ElectorOnly
<1>3. TypeOK'
  BY <1>1 DEF TypeOK, ElectorInv, tableVars
<1>4. ReachInv'
  BY <1>1 DEF ReachInv, SyncReached, Contiguous, Handled, Reported, tableVars
<1>5. TipInv'
  <2>1. \A j \in Instances : pc'[j] # "work" => sync'[j] = Idle
    BY <1>1, <1>2 DEF TipInv
  <2>2. apiReports' = 0 => \A a \in Accounts : live'[a] # NoRid
    BY <1>1 DEF TipInv, tableVars
  <2>3. ASSUME losses' = 0, apiReports' = 0, NEW j \in Instances, pc'[j] = "work"
        PROVE  Ahead(j)'
    <3>1. CASE pc[j] = "work"
      BY <1>1, <1>2, <2>3, <3>1 DEF TipInv, Ahead, tableVars
    <3>2. CASE pc[j] # "work"
      <4>1. sync'[j].at = "list"
        BY <1>1, <3>2 DEF TipInv, Idle
      <4> QED BY <4>1 DEF Ahead
    <3> QED BY <3>1, <3>2
  <2> QED BY <1>2, <2>1, <2>2, <2>3 DEF TipInv
<1> QED BY <1>3, <1>4, <1>5 DEF ElectorInv

\* The steps around the ingestor: a warning settles, CSFloat reports an account
\* itself, an admin removes a report.
LEMMA SurroundingsKeep ==
  ASSUME IngestorInv, ElectorInv', NEW a \in Accounts,
         Settle \/ ApiReport(a) \/ Remove(a)
  PROVE  IngestorInv'
<1> USE DEF IngestorInv
<1>1. /\ UNCHANGED <<electorVars, sync>> /\ passed' = passed
      /\ removed' \in {removed, removed \cup {a}}
      /\ apiReports' \in 0..MaxApiReports /\ removals' \in 0..MaxRemovals
      /\ feed' \in 0..NWarnings
  BY IngestorAssumption DEF Settle, ApiReport, Remove, TypeOK
<1>2. \A b \in Accounts : live'[b] = live[b] \/ live'[b] \in {Absent, NoRid}
  BY DEF Settle, ApiReport, Remove, TypeOK
<1>3. \A b \in Accounts : live[b] # Absent => live'[b] # Absent \/ b \in removed'
  BY DEF Settle, ApiReport, Remove, TypeOK
<1>4. live' \in [Accounts -> {Absent, NoRid} \cup Warnings]
  BY DEF Settle, ApiReport, Remove, TypeOK
<1>5. TypeOK'
  BY <1>1, <1>4 DEF TypeOK, ElectorInv
<1>6. \A w \in Warnings : Handled(w) => Handled(w)'
  BY <1>1, <1>3, HandledStays
<1>7. ReachInv'
  <2>1. ASSUME NEW i \in Instances PROVE SyncReached(i)'
    <3>1. sync' = sync /\ SyncReached(i)
      BY <1>1 DEF ReachInv
    <3>2. 1..sync[i].cursor \subseteq Warnings
      BY IngestorAssumption DEF TypeOK, SyncStates, Warnings
    <3> QED BY <1>6, <3>1, <3>2 DEF SyncReached, Contiguous
  <2>2. \A b \in Accounts :
          live'[b] \in Warnings => \A w \in 1..live'[b] : Handled(w)'
    BY <1>2, <1>6, RowsReached
  <2> QED BY <2>1, <2>2 DEF ReachInv
<1>8. TipInv'
  <2>1. pc' = pc /\ lost' = lost /\ losses' = losses /\ sync' = sync
    BY <1>1 DEF electorVars
  <2>2. apiReports' = 0 => /\ apiReports = 0
                           /\ \A b \in Accounts : live'[b] = live[b] \/ live'[b] = Absent
    BY DEF Settle, ApiReport, Remove, TypeOK
  <2>3. apiReports' = 0 => \A b \in Accounts : live'[b] # NoRid
    BY <2>2 DEF TipInv, Absent, NoRid
  <2>4. ASSUME losses' = 0, apiReports' = 0, NEW j \in Instances, pc'[j] = "work"
        PROVE  Ahead(j)'
    <3>1. Ahead(j)
      BY <2>1, <2>2, <2>4 DEF TipInv
    <3>3. Absent <= sync[j].cursor
      BY IngestorAssumption DEF TypeOK, SyncStates, Absent
    <3>4. sync[j].at = "process" => Absent < sync[j].todo[1]
      <4>1. CASE sync[j].at = "process"
        <5>1. sync[j].todo \in Seq(Warnings) /\ sync[j].todo # <<>>
          BY <4>1 DEF ReachInv, SyncReached, Contiguous, TypeOK, SyncStates
        <5>2. sync[j].todo[1] \in Warnings
          BY <5>1
        <5> QED BY <5>2, IngestorAssumption DEF Absent, Warnings
      <4> QED BY <4>1
    <3> QED BY <2>1, <2>2, <2>4, <3>1, <3>3, <3>4 DEF Ahead
  <2> QED BY <2>1, <2>3, <2>4 DEF TipInv
<1> QED BY <1>5, <1>7, <1>8 DEF ElectorInv

\* Every step keeps the invariant.
LEMMA IngestorStep == IngestorInv /\ [Next]_vars => IngestorInv'
<1> SUFFICES ASSUME IngestorInv, [Next]_vars PROVE IngestorInv'
  OBVIOUS
<1>1. ElectorInv'
  BY ElectionKeeps
<1>2. ASSUME NEW i \in Instances, SyncStep(i) PROVE IngestorInv'
  <2>1. CASE EndWork(i)
    <3>1. pc' = [pc EXCEPT ![i] = "unlock"] /\ losses' = losses /\ lost' = lost
      BY <2>1 DEF EndWork, FinishWork, Goto
    <3>2. sync' = [sync EXCEPT ![i] = Idle] /\ UNCHANGED tableVars
      BY <2>1 DEF EndWork
    <3> QED BY <1>1, <3>1, <3>2, RestKeeps DEF IngestorInv, TypeOK, ElectorTypeOK
  <2>2. CASE AbortSync(i)
    <3>1. /\ sync' = [sync EXCEPT ![i] = Returned] /\ UNCHANGED tableVars
          /\ pc[i] = "work" /\ pc' = pc /\ losses' = losses /\ lost' = lost
      BY <2>2 DEF AbortSync, At, electorVars
    <3> QED BY <1>1, <3>1, RestKeeps
  <2> QED
    BY <1>1, <1>2, <2>1, <2>2, ListKeeps, CheckContextKeeps, FetchKeeps, ProcessKeeps
      DEF SyncStep
<1>3. ASSUME NEW i \in Instances, FetchFails(i) PROVE IngestorInv'
  <2>1. /\ sync' = [sync EXCEPT ![i] = Returned] /\ UNCHANGED tableVars
        /\ pc[i] = "work" /\ pc' = pc /\ losses' = losses /\ lost' = lost
    BY <1>3 DEF FetchFails, At, electorVars
  <2> QED BY <1>1, <2>1, RestKeeps
<1>4. ASSUME NEW i \in Instances, CrashSync(i) PROVE IngestorInv'
  <2>1. sync' = [sync EXCEPT ![i] = Idle] /\ UNCHANGED tableVars
    BY <1>4 DEF CrashSync
  <2>2. /\ \A j \in Instances \ {i} : pc'[j] = pc[j]
        /\ losses' = losses /\ lost' \subseteq lost
    BY <1>4 DEF CrashSync, Crash, Die, Goto, IngestorInv, TypeOK, ElectorTypeOK
  <2> QED BY <1>1, <2>1, <2>2, RestKeeps
<1>5. CASE Settle
  <2>1. CASE Accounts = {}
    <3>1. Warnings = {}
      BY <2>1, IngestorAssumption
    <3> QED BY <1>5, <3>1, IngestorAssumption DEF Settle, Warnings, IngestorInv, TypeOK
  <2>2. CASE Accounts # {}
    BY <1>1, <1>5, <2>2, SurroundingsKeep
  <2> QED BY <2>1, <2>2
<1>6. CASE UNCHANGED vars
  <2>1. TypeOK'
    BY <1>1, <1>6 DEF IngestorInv, TypeOK, ElectorInv, vars, tableVars
  <2>2. ReachInv'
    BY <1>6 DEF IngestorInv, ReachInv, SyncReached, Contiguous, Handled, Reported,
                vars, tableVars
  <2>3. TipInv'
    BY <1>6 DEF IngestorInv, TipInv, Ahead, vars, electorVars, tableVars
  <2> QED BY <1>1, <2>1, <2>2, <2>3 DEF IngestorInv, ElectorInv
<1> QED
  BY <1>1, <1>2, <1>3, <1>4, <1>5, <1>6, InsertFailsKeeps, ProcessKeeps,
     ElectorOnlyKeeps, SurroundingsKeep DEF Next

-----------------------------------------------------------------------------
(* The theorems.                                                           *)

\* The inductive invariant holds in every reachable state.
THEOREM IngestorInvariant == Spec => []IngestorInv
BY IngestorInit, IngestorStep, PTL DEF Spec

\* The types of the variables.
THEOREM IngestorTypes == Spec => []TypeOK
<1>1. IngestorInv => TypeOK
  BY DEF IngestorInv
<1> QED BY <1>1, IngestorInvariant, PTL

\* No warning is missed, whatever fails, dies or works at the same time.
THEOREM NothingIsMissed == Spec => []NothingMissed
<1>1. IngestorInv => NothingMissed
  BY ResumeReached DEF IngestorInv, NothingMissed, ReachInv, SyncReached, Handled
<1> QED BY <1>1, IngestorInvariant, PTL

\* While the leader keeps its session and CSFloat does not use the API, the table
\* grows at its tip.
THEOREM GrowsAtTip == Spec => InsertsAtTip
<1>1. ASSUME IngestorInv, NEW i \in Instances, Insert(i), losses = 0, apiReports = 0
      PROVE  Head(sync[i].todo) > Newest
  <2>1. pc[i] = "work" /\ sync[i].at = "process" /\ SyncReached(i) /\ Ahead(i)
    BY <1>1 DEF Insert, At, IngestorInv, ReachInv, TipInv
  <2>2. sync[i].todo \in Seq(Warnings) /\ sync[i].todo # <<>>
    BY <1>1, <2>1 DEF SyncReached, Contiguous, IngestorInv, TypeOK, SyncStates
  <2>3. PICK first \in Warnings : first = Head(sync[i].todo) /\ first = sync[i].todo[1]
    BY <2>2
  <2>4. first \in Nat \ {0}
    BY IngestorAssumption DEF Warnings
  <2>5. \A a \in Accounts : live[a] < first
    BY <2>1, <2>3 DEF Ahead
  <2>6. Newest \in Nat /\ (Newest # 0 => \E a \in Accounts : live[a] = Newest)
    BY <1>1, NewestOf, IngestorAssumption DEF IngestorInv
  <2> QED BY <2>3, <2>4, <2>5, <2>6
<1>2. IngestorInv /\ [Next]_vars =>
        [\A i \in Instances :
           Insert(i) /\ losses = 0 /\ apiReports = 0
             => Head(sync[i].todo) > Newest]_vars
  BY <1>1
<1> QED BY <1>2, IngestorInvariant, PTL DEF Spec, InsertsAtTip


\* The ingestors implement the abstract leader: one sync runs under the lock at a
\* time, also when calls of the sync itself fail or its process dies in it.
THEOREM IngestorsLead == Spec => LeadershipSpec
<1>1. IngestorInv /\ [Next]_vars => [Abstract!Next]_Leaders
  <2> SUFFICES ASSUME IngestorInv, [Next]_vars PROVE [Abstract!Next]_Leaders
    OBVIOUS
  <2>1. ElectorInv
    BY DEF IngestorInv, TypeOK, ElectorInv
  <2>2. CASE [ElectorNext]_electorVars
    BY <2>1, <2>2, LeaderStep
  <2>3. CASE UNCHANGED <<pc, lost>>
    BY <2>3 DEF Leaders, Working
  <2> QED BY <2>2, <2>3, ElectionStep
<1>2. Init => Abstract!Init
  BY LeadersInit DEF Init
<1> QED
  BY <1>1, <1>2, IngestorInvariant, PTL DEF Spec, LeadershipSpec, Abstract!Spec, Leaders

-----------------------------------------------------------------------------
(* The refinement of Delivery.                                             *)

\* What a sync still has to process has settled.
SettledInv ==
  \A i \in Instances : sync[i].at = "process" =>
    \A k \in 1..Len(sync[i].todo) : sync[i].todo[k] <= feed

\* A page holds settled warnings only.
LEMMA PageSettled ==
  ASSUME NEW c \in 0..NWarnings, feed \in 0..NWarnings, NEW k \in 1..Len(Page(c))
  PROVE  Page(c)[k] <= feed
<1> DEFINE last == IF c + PageLimit <= feed THEN c + PageLimit ELSE feed
<1>1. /\ NWarnings \in Nat
      /\ PageLimit \in Nat
      /\ c \in Nat /\ feed \in Nat
      /\ c + PageLimit \in Nat
  BY IngestorAssumption
<1>2. Page(c) = [j \in 1..(last - c) |-> c + j]
  BY <1>1, MinOfTwo DEF Page
<1>3. last \in Nat /\ last <= feed
  BY <1>1
<1> HIDE DEF last
<1>4. Page(c) # <<>>
  <2> SUFFICES ASSUME Page(c) = <<>> PROVE FALSE
    OBVIOUS
  <2>1. k \in 1..Len(<<>>)
    OBVIOUS
  <2> QED BY <2>1
<1>5. Page(c)[k] = c + k
  BY <1>4, PageOf
<1>6. last - c > 0
  <2> SUFFICES ASSUME ~(last - c > 0) PROVE FALSE
    OBVIOUS
  <2>1. 1..(last - c) = {}
    BY <1>1, <1>3
  <2> QED BY <1>2, <1>4, <2>1
<1>7. Len(Page(c)) = last - c
  BY <1>1, <1>2, <1>3, <1>6
<1> QED BY <1>1, <1>3, <1>5, <1>7

\* Advance leaves warnings that were there before.
LEMMA AdvanceSettled ==
  ASSUME NEW s \in SyncStates, NEW n \in Nat, Contiguous(s),
         \A k \in 1..Len(s.todo) : s.todo[k] <= n,
         Advanced(s).at = "process"
  PROVE  \A k \in 1..Len(Advanced(s).todo) : Advanced(s).todo[k] <= n
<1>1. s.todo \in Seq(Warnings) /\ s.todo # <<>>
  BY DEF Contiguous, SyncStates
<1>2. Len(s.todo) > 1
  BY DEF Advanced, Returned, Idle
<1>3. Advanced(s).todo = Tail(s.todo)
  BY <1>2 DEF Advanced, SyncStates
<1>4. Len(Tail(s.todo)) = Len(s.todo) - 1 /\ \A k \in 1..(Len(s.todo) - 1) : Tail(s.todo)[k] = s.todo[k + 1]
  BY <1>1, <1>2
<1>5. \A k \in 1..(Len(s.todo) - 1) : k + 1 \in 1..Len(s.todo)
  BY <1>1
<1> QED BY <1>3, <1>4, <1>5

\* Every step keeps it: the feed never shrinks.
LEMMA SettledStep == IngestorInv /\ SettledInv /\ [Next]_vars => SettledInv'
<1> SUFFICES ASSUME IngestorInv, SettledInv, [Next]_vars, NEW j \in Instances,
                    sync'[j].at = "process"
             PROVE  \A k \in 1..Len(sync'[j].todo) : sync'[j].todo[k] <= feed'
  BY DEF SettledInv
<1>1. sync \in [Instances -> SyncStates] /\ feed \in 0..NWarnings /\ feed \in Nat
  BY IngestorAssumption DEF IngestorInv, TypeOK
<1>2. ASSUME sync'[j] = sync[j], feed' = feed \/ feed' = feed + 1
      PROVE  \A k \in 1..Len(sync'[j].todo) : sync'[j].todo[k] <= feed'
  <2> SUFFICES ASSUME NEW k \in 1..Len(sync[j].todo) PROVE sync[j].todo[k] <= feed'
    BY <1>2
  <2>1. sync[j].todo[k] <= feed /\ sync[j].todo[k] \in Nat
    BY <1>1, <1>2, IngestorAssumption DEF SettledInv, SyncStates, Warnings
  <2> QED BY <1>1, <1>2, <2>1
<1>3. ASSUME NEW i \in Instances, NEW t, sync' = [sync EXCEPT ![i] = t], t.at # "process",
             feed' = feed
      PROVE  \A k \in 1..Len(sync'[j].todo) : sync'[j].todo[k] <= feed'
  BY <1>1, <1>2, <1>3
<1>4. ASSUME NEW i \in Instances, Advance(i), sync[i].at = "process", feed' = feed
      PROVE  \A k \in 1..Len(sync'[j].todo) : sync'[j].todo[k] <= feed'
  <2>1. sync' = [sync EXCEPT ![i] = Advanced(sync[i])]
    BY <1>4 DEF Advance, Advanced
  <2>2. CASE i = j
    <3>1. sync'[j] = Advanced(sync[j])
      BY <1>1, <2>1, <2>2
    <3>2. Contiguous(sync[j]) /\ sync[j] \in SyncStates
      BY <1>1, <1>4, <2>2 DEF IngestorInv, ReachInv, SyncReached
    <3>3. \A k \in 1..Len(sync[j].todo) : sync[j].todo[k] <= feed
      BY <1>4, <2>2 DEF SettledInv
    <3>4. Advanced(sync[j]).at = "process"
      BY <3>1
    <3> QED BY <1>1, <1>4, <3>1, <3>2, <3>3, <3>4, AdvanceSettled
  <2> QED BY <1>1, <1>2, <1>4, <2>1, <2>2
<1>5. Returned.at # "process" /\ Idle.at # "process"
  BY DEF Returned, Idle
<1>6. ASSUME NEW i \in Instances, Fetch(i)
      PROVE  \A k \in 1..Len(sync'[j].todo) : sync'[j].todo[k] <= feed'
  <2> DEFINE page == Page(sync[i].cursor)
  <2>1. sync[i].cursor \in 0..NWarnings /\ feed' = feed
    BY <1>1, <1>6 DEF SyncStates, Fetch, tableVars
  <2>2. CASE page = <<>>
    <3>1. sync' = [sync EXCEPT ![i] = Returned]
      BY <1>6, <2>2 DEF Fetch
    <3> QED BY <1>3, <1>5, <2>1, <3>1
  <2>3. CASE page # <<>>
    <3>1. PICK next : sync' = [sync EXCEPT ![i].at = "process", ![i].todo = page, ![i].next = next]
      BY <1>6, <2>3 DEF Fetch
    <3>2. CASE i = j
      <4>1. sync'[j].todo = page
        BY <1>1, <3>1, <3>2 DEF SyncStates
      <4>2. \A k \in 1..Len(page) : page[k] <= feed
        BY <1>1, <2>1, PageSettled
      <4> QED BY <2>1, <4>1, <4>2
    <3>3. CASE i # j
      <4>1. sync'[j] = sync[j]
        BY <1>1, <3>1, <3>3
      <4> QED BY <1>2, <2>1, <4>1
    <3> QED BY <3>2, <3>3
  <2> QED BY <2>2, <2>3
<1>7. ASSUME NEW i \in Instances, List(i) \/ CheckContext(i)
      PROVE  \A k \in 1..Len(sync'[j].todo) : sync'[j].todo[k] <= feed'
  <2>1. feed' = feed
    BY <1>7 DEF List, CheckContext, tableVars
  <2>2. PICK t : sync' = [sync EXCEPT ![i] = t] /\ t.at # "process"
    <3>1. CASE List(i)
      <4>1. sync' = [sync EXCEPT ![i].at = "check", ![i].cursor = Resume]
              \/ sync' = [sync EXCEPT ![i] = Returned]
        BY <3>1 DEF List
      <4>2. ASSUME sync' = [sync EXCEPT ![i].at = "check", ![i].cursor = Resume]
            PROVE  \E t : sync' = [sync EXCEPT ![i] = t] /\ t.at # "process"
        <5>1. PICK t : t = [sync[i] EXCEPT !.at = "check", !.cursor = Resume]
          OBVIOUS
        <5>2. t.at = "check"
          BY <1>1, <5>1 DEF SyncStates
        <5>3. sync' = [sync EXCEPT ![i] = t]
          BY <4>2, <5>1
        <5> QED BY <5>2, <5>3
      <4> QED BY <1>5, <4>1, <4>2
    <3>2. CASE CheckContext(i)
      <4>1. PICK t : t = IF i \in cancelled THEN Returned ELSE [sync[i] EXCEPT !.at = "fetch"]
        OBVIOUS
      <4>2. t.at # "process"
        BY <1>1, <1>5, <4>1 DEF SyncStates
      <4> QED BY <3>2, <4>1, <4>2 DEF CheckContext
    <3> QED BY <1>7, <3>1, <3>2
  <2> QED BY <1>3, <2>1, <2>2
<1>8. ASSUME NEW i \in Instances, Insert(i) \/ SkipDuplicate(i) \/ SkipCollision(i)
      PROVE  \A k \in 1..Len(sync'[j].todo) : sync'[j].todo[k] <= feed'
  BY <1>4, <1>8 DEF Insert, SkipDuplicate, SkipCollision, At, tableVars
<1>9. ASSUME NEW i \in Instances,
             AbortSync(i) \/ EndWork(i) \/ FetchFails(i) \/ InsertFails(i) \/ CrashSync(i)
      PROVE  \A k \in 1..Len(sync'[j].todo) : sync'[j].todo[k] <= feed'
  <2>1. /\ feed' = feed
        /\ sync' = [sync EXCEPT ![i] = Returned] \/ sync' = [sync EXCEPT ![i] = Idle]
    BY <1>9 DEF AbortSync, EndWork, FetchFails, InsertFails, CrashSync, tableVars
  <2> QED BY <1>3, <1>5, <2>1
<1>10. CASE \/ ElectorOnly \/ Settle \/ UNCHANGED vars
            \/ \E a \in Accounts : ApiReport(a) \/ Remove(a)
  <2>1. sync' = sync /\ (feed' = feed \/ feed' = feed + 1)
    BY <1>10 DEF ElectorOnly, Settle, ApiReport, Remove, vars, tableVars
  <2> QED BY <1>2, <2>1
<1> QED BY <1>6, <1>7, <1>8, <1>9, <1>10 DEF Next, SyncStep

\* The first warning a sync has to process is due.
LEMMA FirstDue ==
  ASSUME IngestorInv, SettledInv, NEW i \in Instances, sync[i].at = "process"
  PROVE  /\ Head(sync[i].todo) \in Warnings
         /\ Head(sync[i].todo) \in 1..feed
         /\ Promise!Due(Head(sync[i].todo))
<1>1. /\ sync[i] \in SyncStates /\ Contiguous(sync[i])
      /\ \A w \in Warnings : w < sync[i].todo[1] => Handled(w)
  BY DEF IngestorInv, TypeOK, ReachInv, SyncReached
<1>2. sync[i].todo \in Seq(Warnings) /\ sync[i].todo # <<>>
  BY <1>1 DEF Contiguous, SyncStates
<1>3. PICK w \in Warnings : w = Head(sync[i].todo) /\ w = sync[i].todo[1] /\ w <= feed
  BY <1>2 DEF SettledInv
<1>4. feed \in Nat /\ w \in Nat \ {0}
  BY IngestorAssumption DEF IngestorInv, TypeOK, Warnings
<1>5. \A v \in 1..(w - 1) : v \in Warnings /\ v < w
  BY <1>3, <1>4, IngestorAssumption DEF Warnings
<1>6. \A v \in 1..(w - 1) : Handled(v)
  BY <1>1, <1>3, <1>5
<1>7. Promise!Due(w)
  BY <1>6 DEF Promise!Due, Promise!DealtWith, Handled, Reported
<1> QED BY <1>3, <1>4, <1>7

\* A step that leaves the table alone, or files or passes over the warning that a
\* sync has come to, is one of the deliveries.
LEMMA DeliveryStep == IngestorInv /\ SettledInv /\ [Next]_vars => [Promise!Next]_(Promise!vars)
<1> SUFFICES ASSUME IngestorInv, SettledInv, [Next]_vars
             PROVE  Promise!Next \/ UNCHANGED Promise!vars
  OBVIOUS
<1>1. CASE UNCHANGED tableVars
  BY <1>1 DEF tableVars, Promise!vars
<1>2. ASSUME NEW i \in Instances, sync[i].at = "process", NEW w, w = Head(sync[i].todo),
             ~Duplicate(w), Inserted(w), UNCHANGED <<feed, removed, passed>>
      PROVE  Promise!Next
  BY <1>2, FirstDue
    DEF Duplicate, Inserted, Promise!Next, Promise!Deliver, Promise!FileReport
<1>3. ASSUME NEW i \in Instances, Insert(i) PROVE Promise!Next
  BY <1>2, <1>3 DEF Insert, At
<1>4. ASSUME NEW i \in Instances, InsertFails(i)
      PROVE  Promise!Next \/ UNCHANGED Promise!vars
  BY <1>2, <1>4 DEF InsertFails, At, Promise!vars
<1>5. ASSUME NEW i \in Instances, SkipCollision(i) PROVE Promise!Next
  <2>1. PICK w : w = Head(sync[i].todo)
    OBVIOUS
  <2>2. passed' = passed \cup {w} /\ UNCHANGED <<live, feed, removed>>
    BY <1>5, <2>1 DEF SkipCollision
  <2>3. w \in 1..feed /\ Promise!Due(w)
    BY <1>5, <2>1, FirstDue DEF SkipCollision, At
  <2> QED BY <2>2, <2>3 DEF Promise!Next, Promise!PassOver
<1>6. CASE Settle
  BY <1>6 DEF Settle, Promise!Next, Promise!Settle
<1>7. ASSUME NEW a \in Accounts, ApiReport(a) PROVE Promise!Next
  BY <1>7 DEF ApiReport, Promise!Next, Promise!FileReport
<1>8. ASSUME NEW a \in Accounts, Remove(a) PROVE Promise!Next
  BY <1>8 DEF Remove, Promise!Next, Promise!Remove
<1>9. ASSUME NEW i \in Instances,
             \/ List(i) \/ CheckContext(i) \/ Fetch(i) \/ SkipDuplicate(i) \/ AbortSync(i)
             \/ EndWork(i) \/ FetchFails(i) \/ CrashSync(i)
      PROVE  UNCHANGED tableVars
  BY <1>9 DEF List, CheckContext, Fetch, SkipDuplicate, AbortSync, EndWork, FetchFails, CrashSync
<1>10. CASE ElectorOnly \/ UNCHANGED vars
  BY <1>1, <1>10 DEF ElectorOnly, vars
<1> QED
  BY <1>1, <1>3, <1>4, <1>5, <1>6, <1>7, <1>8, <1>9, <1>10 DEF Next, SyncStep

\* The ingestors deliver in order, whatever fails, dies or works at the same time.
THEOREM InOrder == Spec => DeliversInOrder
<1>1. Init => Promise!Init
  BY DEF Init, Promise!Init
<1>2. Init => SettledInv
  BY DEF Init, SettledInv, Idle
<1> QED
  BY <1>1, <1>2, SettledStep, DeliveryStep, IngestorInvariant, PTL
    DEF Spec, DeliversInOrder, Promise!Spec
=============================================================================
