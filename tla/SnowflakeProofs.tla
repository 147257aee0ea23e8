--------------------------- MODULE SnowflakeProofs ---------------------------
(***************************************************************************)
(* Proofs about Snowflake for any set of processes, any worker numbers and *)
(* any clocks: an identifier packs and unpacks without loss, generators    *)
(* with different numbers are disjoint, and one generator's identifiers    *)
(* are ordered in time and, outside exhausted milliseconds, increasing.    *)
(***************************************************************************)
EXTENDS Snowflake, TLAPS

\* The sequence numbers twelve bits can hold.
Slots == 0..4095

\* What Pack packs, ParseSnowflake returns.
LEMMA ParsePack ==
  ASSUME NEW t \in Nat, Epoch <= t, NEW w \in Nat, NEW p \in Nat,
         NEW s \in Slots
  PROVE  /\ Pack(t, w, p, s) \in Nat
         /\ ParseSnowflake(Pack(t, w, p, s)).Timestamp = t
         /\ ParseSnowflake(Pack(t, w, p, s)).WorkerID = Low5(w)
         /\ ParseSnowflake(Pack(t, w, p, s)).ProcessID = Low5(p)
         /\ ParseSnowflake(Pack(t, w, p, s)).Sequence = s
<1> USE DEF Slots, Low5
<1> DEFINE id == Pack(t, w, p, s)
<1>1. /\ t - Epoch \in Nat
      /\ Low5(w) \in 0..31
      /\ Low5(p) \in 0..31
      /\ s % 4096 = s
      /\ Epoch \in Nat
  <2>1. Epoch \in Nat /\ t - Epoch \in Nat
    BY SnowflakeAssumption, SMT
  <2>2. w % 32 \in 0..31 /\ p % 32 \in 0..31
    BY SMT
  <2>3. s % 4096 = s
    BY SMT
  <2> QED BY <2>1, <2>2, <2>3, SMT
<1>2. id = (t - Epoch) * 4194304 + Low5(w) * 131072 + (Low5(p)) * 4096 + s
  BY <1>1, SMT DEF Pack
<1>3. /\ id \in Nat
      /\ id \div 4194304 = t - Epoch
      /\ (id \div 131072) % 32 = Low5(w)
      /\ (id \div 4096) % 32 = Low5(p)
      /\ id % 4096 = s
  <2> DEFINE x == t - Epoch
             a == Low5(w)
             b == Low5(p)
  <2>1. /\ x \in Nat
        /\ a \in 0..31
        /\ b \in 0..31
        /\ id = x * 4194304 + a * 131072 + b * 4096 + s
    BY <1>1, <1>2, SMT
  <2> HIDE DEF id, x, a, b
  <2>2. /\ id \in Nat
        /\ id \div 4194304 = x
        /\ (id \div 131072) % 32 = a
        /\ (id \div 4096) % 32 = b
        /\ id % 4096 = s
    <3>1. id \in Nat /\ id \div 4194304 = x
      BY <2>1, SMT
    <3>2. id \div 131072 = 32 * x + a
      BY <2>1, SMT
    <3>3. (32 * x + a) % 32 = a
      BY <2>1, SMT
    <3>4. id \div 4096 = 1024 * x + 32 * a + b
      BY <2>1, SMT
    <3>5. (1024 * x + 32 * a + b) % 32 = b
      BY <2>1, SMT
    <3>6. id % 4096 = s
      <4> DEFINE k == x * 1024 + a * 32 + b
      <4>1. k \in Nat /\ id = k * 4096 + s
        BY <2>1, SMT
      <4> HIDE DEF k
      <4>2. (k * 4096 + s) % 4096 = s
        BY <4>1, SMT
      <4> QED BY <4>1, <4>2, SMT
    <3> QED
      BY <3>1, <3>2, <3>3, <3>4, <3>5, <3>6, SMT
  <2> QED BY <2>2, SMT DEF x, a, b
<1>4. (t - Epoch) + Epoch = t
  BY <1>1
<1> QED
  BY <1>3, <1>4, SMT DEF ParseSnowflake

\* The time of a packed identifier is the time it was packed with.
LEMMA MilliPack ==
  ASSUME NEW t \in Nat, Epoch <= t, NEW w \in Nat, NEW p \in Nat,
         NEW s \in Slots
  PROVE  Pack(t, w, p, s) \in Nat /\ Milli(Pack(t, w, p, s)) = t
<1>1. ParseSnowflake(Pack(t, w, p, s)).Timestamp = t
  BY ParsePack, SMT
<1>2. Pack(t, w, p, s) \in Nat
  BY ParsePack, SMT
<1> QED
  BY <1>1, <1>2 DEF Milli

\* A sequence number fits its bits.
LEMMA SlotFits == ASSUME NEW s \in Slots PROVE s % 4096 = s
BY SMT DEF Slots

\* In one generator, identifiers are ordered as their (time, sequence) pairs.
LEMMA PackOrder ==
  ASSUME NEW t \in Nat, NEW u \in Nat, Epoch <= t, Epoch <= u,
         NEW w \in Nat, NEW p \in Nat, NEW r \in Slots, NEW s \in Slots
  PROVE  t < u \/ (t = u /\ r < s) =>
           Pack(t, w, p, r) < Pack(u, w, p, s)
<1>1. /\ Low5(w) \in 0..31
      /\ Low5(p) \in 0..31
  BY SMT DEF Low5
<1>2. s % 4096 = s
  BY SlotFits
<1>3. r % 4096 = r
  BY SlotFits
<1>4. Epoch \in Nat
  BY SnowflakeAssumption
<1>5. ASSUME NEW a \in 0..31, NEW b \in 0..31
      PROVE  t < u \/ (t = u /\ r < s) =>
               (t - Epoch) * 4194304 + a * 131072 + b * 4096 + r
             < (u - Epoch) * 4194304 + a * 131072 + b * 4096 + s
  <2> r \in 0..4095 /\ s \in 0..4095
    BY DEF Slots
  <2> QED BY <1>4, SMT
<1>6. PICK a, b : a = Low5(w) /\ b = Low5(p)
  OBVIOUS
<1> QED
  BY <1>1, <1>2, <1>3, <1>5, <1>6, SMT DEF Pack

\* The sequence either wraps to 0 or grows by one.
LEMMA NextSequenceStep ==
  ASSUME NEW s \in 0..(SequenceSpace - 1)
  PROVE  /\ NextSequence(s) \in 0..(SequenceSpace - 1)
         /\ NextSequence(s) = 0 \/ NextSequence(s) = s + 1
         /\ NextSequence(s) \in Slots
<1> USE DEF Slots
<1>1. SequenceSpace \in Nat /\ 1 <= SequenceSpace /\ SequenceSpace <= 4096
  BY SnowflakeAssumption
<1>2. CASE s + 1 = SequenceSpace
  <2>1. \A n \in Nat : n > 0 => n % n = 0
    BY SMT
  <2> QED BY <1>1, <1>2, <2>1 DEF NextSequence
<1>3. CASE s + 1 < SequenceSpace
  <2>1. (s + 1) % SequenceSpace = s + 1
    BY <1>1, <1>3, SMT
  <2> QED BY <1>1, <1>3, <2>1 DEF NextSequence
<1> QED
  BY <1>1, <1>2, <1>3

-----------------------------------------------------------------------------
\* The initial values have their types.
LEMMA InitTypeOK == Init => TypeOK
<1>1. SequenceSpace \in Nat /\ 0 \in 0..(SequenceSpace - 1)
  BY SnowflakeAssumption
<1>2. MaxTime \in Nat /\ 0 \in 0..MaxTime
  BY SnowflakeAssumption
<1>3. <<>> \in Seq(Nat)
  OBVIOUS
<1> QED BY <1>1, <1>2, <1>3, SMT DEF Init, TypeOK

\* Every step keeps the types.
LEMMA NextTypeOK == TypeOK /\ [Next]_vars => TypeOK'
<1> SUFFICES ASSUME TypeOK, [Next]_vars PROVE TypeOK'
  OBVIOUS
<1>1. CASE UNCHANGED vars
  BY <1>1 DEF TypeOK, vars
<1>2. ASSUME NEW g \in Generators, GenerateBehind(g) PROVE TypeOK'
  BY <1>2 DEF GenerateBehind, TypeOK, vars
<1>3. ASSUME NEW g \in Generators, NEW s \in Slots, Issue(g, s)
      PROVE  issued' \in [Generators -> Seq(Nat)]
  <2>1. CASE clock[g] < Epoch
    BY <1>3, <2>1 DEF Issue, TypeOK
  <2>2. CASE ~(clock[g] < Epoch)
    <3> DEFINE id == Pack(clock[g], WorkerId[g], ProcessId[g], s)
    <3>1. /\ clock[g] \in Nat
          /\ WorkerId[g] \in Nat
          /\ ProcessId[g] \in Nat
          /\ Epoch <= clock[g]
      BY <2>2, SnowflakeAssumption DEF TypeOK
    <3>2. id \in Nat
      BY <3>1, ParsePack, Zenon
    <3>3. issued' = [issued EXCEPT ![g] = Append(@, id)]
      BY <1>3, <2>2 DEF Issue
    <3> HIDE DEF id
    <3> QED BY <3>2, <3>3 DEF TypeOK
  <2> QED BY <2>1, <2>2
<1>4. ASSUME NEW g \in Generators, GenerateSameMilli(g) PROVE TypeOK'
  <2>0. sequence[g] \in 0..(SequenceSpace - 1)
    BY DEF TypeOK
  <2>1. /\ NextSequence(sequence[g]) \in 0..(SequenceSpace - 1)
        /\ NextSequence(sequence[g]) \in Slots
    BY <2>0, NextSequenceStep, Zenon
  <2>2. sequence' = [sequence EXCEPT ![g] = NextSequence(sequence[g])]
    BY <1>4 DEF GenerateSameMilli
  <2>3. sequence' \in [Generators -> 0..(SequenceSpace - 1)]
    BY <2>1, <2>2 DEF TypeOK
  <2>4. sequence'[g] \in Slots
    BY <2>1, <2>2 DEF TypeOK
  <2>5. issued' \in [Generators -> Seq(Nat)]
    <3>1. CASE UNCHANGED issued
      BY <3>1 DEF TypeOK
    <3>2. CASE Issue(g, sequence'[g])
      BY <3>2, <1>3, <2>4, Zenon
    <3> QED BY <1>4, <3>1, <3>2 DEF GenerateSameMilli
  <2>6. exhausted' \in [Generators -> SUBSET (0..MaxTime)]
    <3>1. exhausted[g] \cup {clock[g]} \in SUBSET (0..MaxTime)
      BY DEF TypeOK
    <3>2. \/ UNCHANGED exhausted
          \/ exhausted' = [exhausted EXCEPT ![g] = exhausted[g] \cup {clock[g]}]
      BY <1>4, Zenon DEF GenerateSameMilli
    <3> QED BY <3>1, <3>2 DEF TypeOK
  <2> QED BY <1>4, <2>3, <2>5, <2>6 DEF GenerateSameMilli, TypeOK
<1>5. ASSUME NEW g \in Generators, GenerateNewMilli(g) PROVE TypeOK'
  <2>1. issued' \in [Generators -> Seq(Nat)]
    <3>1. 0 \in Slots
      BY DEF Slots
    <3>2. Issue(g, 0)
      BY <1>5 DEF GenerateNewMilli
    <3> QED BY <1>3, <3>1, <3>2, Zenon
  <2>2. 0 \in 0..(SequenceSpace - 1)
    BY SnowflakeAssumption
  <2> QED BY <1>5, <2>1, <2>2 DEF GenerateNewMilli, TypeOK
<1>6. ASSUME NEW g \in Generators, Tick(g) PROVE TypeOK'
  <2>1. clock[g] + 1 \in 0..MaxTime
    BY <1>6, SnowflakeAssumption DEF Tick, TypeOK
  <2> QED BY <1>6, <2>1 DEF Tick, TypeOK
<1>7. ASSUME NEW g \in Generators, StepBack(g) PROVE TypeOK'
  <2>1. PICK t \in 0..(clock[g] - 1) : clock' = [clock EXCEPT ![g] = t]
    BY <1>7 DEF StepBack
  <2>2. t \in 0..MaxTime
    BY SnowflakeAssumption DEF TypeOK
  <2> QED BY <1>7, <2>1, <2>2 DEF StepBack, TypeOK
<1> QED BY <1>1, <1>2, <1>4, <1>5, <1>6, <1>7 DEF Next

\* The types of the variables hold in every reachable state.
THEOREM Typing == Spec => []TypeOK
BY InitTypeOK, NextTypeOK, PTL DEF Spec

-----------------------------------------------------------------------------
(* The invariant behind the order.  Every identifier of a generator packs  *)
(* the generator's own numbers with a time no later than its last one, and *)
(* in its last millisecond, unless that was reported exhausted, with a     *)
(* sequence number already used up.                                        *)

From(g, id) ==
  \E t \in Nat, s \in Slots :
    /\ Epoch <= t
    /\ t <= lastTime[g]
    /\ id = Pack(t, WorkerId[g], ProcessId[g], s)
    /\ t = lastTime[g] => t \in exhausted[g] \/ s <= sequence[g]

Stamped == \A g \in Generators : \A i \in 1..Len(issued[g]) : From(g, issued[g][i])

IInv == TypeOK /\ Stamped /\ TimeOrdered /\ UniqueOutsideBursts

\* Steps that hand out nothing keep the invariant.
LEMMA QuietStep ==
  ASSUME IInv, TypeOK', issued' = issued,
         \A g \in Generators :
           /\ lastTime[g] <= lastTime'[g]
           /\ exhausted[g] \subseteq exhausted'[g]
           /\ \/ lastTime'[g] = lastTime[g] /\ sequence[g] <= sequence'[g]
              \/ lastTime[g] < lastTime'[g]
              \/ lastTime'[g] \in exhausted'[g]
  PROVE  IInv'
<1>1. Stamped'
  <2> SUFFICES ASSUME NEW g \in Generators, NEW i \in 1..Len(issued[g])
               PROVE  From(g, issued[g][i])'
    BY DEF Stamped
  <2>1. PICK t \in Nat, s \in Slots :
          /\ Epoch <= t
          /\ t <= lastTime[g]
          /\ issued[g][i] = Pack(t, WorkerId[g], ProcessId[g], s)
          /\ t = lastTime[g] => t \in exhausted[g] \/ s <= sequence[g]
    BY DEF IInv, Stamped, From
  <2>2. Epoch \in Nat /\ lastTime[g] \in Nat /\ lastTime'[g] \in Nat
    BY SnowflakeAssumption DEF IInv, TypeOK
  <2>3. t <= lastTime'[g]
    BY <2>1, <2>2
  <2>4. s \in Nat /\ sequence[g] \in Nat /\ sequence'[g] \in Nat
    BY SnowflakeAssumption DEF IInv, TypeOK, Slots
  <2>5. t = lastTime'[g] => t \in exhausted'[g] \/ s <= sequence'[g]
    <3> SUFFICES ASSUME t = lastTime'[g], t \notin exhausted'[g]
                 PROVE  s <= sequence'[g]
      OBVIOUS
    <3>1. t = lastTime[g] /\ t \notin exhausted[g]
      BY <2>1, <2>2
    <3>2. sequence[g] <= sequence'[g]
      <4>1. ~(lastTime[g] < lastTime'[g])
        BY <2>2, <3>1
      <4>2. lastTime'[g] \notin exhausted'[g]
        OBVIOUS
      <4> QED BY <4>1, <4>2, Zenon
    <3> QED BY <2>1, <2>4, <3>1, <3>2
  <2> QED BY <2>1, <2>3, <2>5, Zenon DEF From
<1>2. TimeOrdered'
  BY DEF IInv, TimeOrdered
<1>3. UniqueOutsideBursts'
  <2> SUFFICES ASSUME NEW g \in Generators,
                      NEW i \in 1..Len(issued[g]), NEW j \in 1..Len(issued[g]),
                      i < j
               PROVE  \/ issued[g][i] < issued[g][j]
                      \/ Milli(issued[g][j]) \in exhausted'[g]
    BY DEF UniqueOutsideBursts
  <2> QED BY DEF IInv, UniqueOutsideBursts
<1> QED
  BY <1>1, <1>2, <1>3 DEF IInv

\* A step that hands out one identifier, not before the last one, keeps it.
LEMMA IssueStep ==
  ASSUME IInv, TypeOK', NEW g \in Generators, NEW s \in Slots,
         Epoch <= clock[g],
         lastTime[g] <= clock[g],
         clock[g] = lastTime[g] => sequence[g] < s,
         issued' = [issued EXCEPT ![g] =
                      Append(@, Pack(clock[g], WorkerId[g], ProcessId[g], s))],
         lastTime' = [lastTime EXCEPT ![g] = clock[g]],
         sequence' = [sequence EXCEPT ![g] = s],
         exhausted' = exhausted
  PROVE  IInv'
<1> DEFINE new == Pack(clock[g], WorkerId[g], ProcessId[g], s)
           n == Len(issued[g])
<1>1. /\ Epoch \in Nat
      /\ clock[g] \in Nat
      /\ lastTime[g] \in Nat
      /\ sequence[g] \in Nat
      /\ s \in Nat
  BY SnowflakeAssumption DEF IInv, TypeOK, Slots
<1>2. WorkerId[g] \in Nat /\ ProcessId[g] \in Nat
  BY SnowflakeAssumption
<1>3. issued[g] \in Seq(Nat) /\ n \in Nat
  BY DEF IInv, TypeOK
<1>4. new \in Nat /\ Milli(new) = clock[g]
  BY <1>1, <1>2, MilliPack
<1>5. ASSUME NEW i \in 1..n
      PROVE  /\ issued[g][i] < new \/ clock[g] \in exhausted[g]
             /\ Milli(issued[g][i]) <= clock[g]
  <2>1. PICK t \in Nat, r \in Slots :
          /\ Epoch <= t
          /\ t <= lastTime[g]
          /\ issued[g][i] = Pack(t, WorkerId[g], ProcessId[g], r)
          /\ t = lastTime[g] => t \in exhausted[g] \/ r <= sequence[g]
    BY DEF IInv, Stamped, From
  <2>2. Milli(issued[g][i]) = t
    <3>1. Milli(Pack(t, WorkerId[g], ProcessId[g], r)) = t
      BY <2>1, <1>2, MilliPack
    <3> QED BY <2>1, <3>1
  <2>3. t <= clock[g] /\ r \in Nat
    <3>1. t <= lastTime[g] /\ lastTime[g] <= clock[g]
      BY <2>1
    <3>2. t <= clock[g]
      BY <1>1, <3>1, SMT
    <3>3. r \in Nat
      BY SMT DEF Slots
    <3> QED BY <3>2, <3>3
  <2>4. ASSUME t < clock[g]
        PROVE  issued[g][i] < new
    BY <2>1, <2>4, <1>1, <1>2, PackOrder
  <2>5. ASSUME t = clock[g]
        PROVE  issued[g][i] < new \/ clock[g] \in exhausted[g]
    <3>1. t = lastTime[g]
      BY <2>1, <2>5, <1>1
    <3>2. t \in exhausted[g] \/ r < s
      BY <2>1, <2>3, <2>5, <3>1, <1>1
    <3>3. r < s => issued[g][i] < new
      BY <2>1, <2>5, <1>1, <1>2, PackOrder
    <3> QED BY <2>5, <3>2, <3>3
  <2>6. t < clock[g] \/ t = clock[g]
    BY <1>1, <2>3
  <2>7. issued[g][i] < new \/ clock[g] \in exhausted[g]
    BY <2>4, <2>5, <2>6
  <2> QED BY <2>2, <2>3, <2>7
<1> HIDE DEF new
<1>6. /\ issued'[g] = Append(issued[g], new)
      /\ Len(issued'[g]) = n + 1
      /\ issued'[g][n + 1] = new
      /\ \A i \in 1..n : issued'[g][i] = issued[g][i]
      /\ \A h \in Generators : h # g => issued'[h] = issued[h]
  <2>1. issued' = [issued EXCEPT ![g] = Append(issued[g], new)]
    BY DEF new
  <2>2. issued \in [Generators -> Seq(Nat)]
    BY DEF IInv, TypeOK
  <2>3. issued'[g] = Append(issued[g], new)
    BY <2>1, <2>2
  <2>4. \A h \in Generators : h # g => issued'[h] = issued[h]
    BY <2>1, <2>2
  <2> QED BY <2>3, <2>4, <1>3, <1>4
<1>7. Stamped'
  <2> SUFFICES ASSUME NEW h \in Generators, NEW i \in 1..Len(issued'[h])
               PROVE  From(h, issued[h][i])'
    BY DEF Stamped
  <2>1. CASE h # g
    <3>1. PICK t \in Nat, r \in Slots :
            /\ Epoch <= t
            /\ t <= lastTime[h]
            /\ issued[h][i] = Pack(t, WorkerId[h], ProcessId[h], r)
            /\ t = lastTime[h] => t \in exhausted[h] \/ r <= sequence[h]
      BY <1>6, <2>1 DEF IInv, Stamped, From
    <3>2. /\ lastTime'[h] = lastTime[h]
          /\ sequence'[h] = sequence[h]
      BY <2>1 DEF IInv, TypeOK
    <3> QED BY <1>6, <2>1, <3>1, <3>2, Zenon DEF From
  <2>2. CASE h = g /\ i \in 1..n
    <3>1. PICK t \in Nat, r \in Slots :
            /\ Epoch <= t
            /\ t <= lastTime[g]
            /\ issued[g][i] = Pack(t, WorkerId[g], ProcessId[g], r)
            /\ t = lastTime[g] => t \in exhausted[g] \/ r <= sequence[g]
      BY <2>2 DEF IInv, Stamped, From
    <3>2. /\ lastTime'[g] = clock[g]
          /\ sequence'[g] = s
      BY DEF IInv, TypeOK
    <3>3. t <= lastTime'[g] /\ r \in Nat
      BY <3>1, <3>2, <1>1 DEF Slots
    <3>4. t = lastTime'[g] => t \in exhausted'[g] \/ r <= sequence'[g]
      BY <3>1, <3>2, <3>3, <1>1
    <3>5. issued'[g][i] = Pack(t, WorkerId[g], ProcessId[g], r)
      BY <1>6, <2>2, <3>1
    <3> QED BY <2>2, <3>1, <3>3, <3>4, <3>5, Zenon DEF From
  <2>3. CASE h = g /\ i = n + 1
    <3>1. /\ lastTime'[g] = clock[g]
          /\ sequence'[g] = s
      BY DEF IInv, TypeOK
    <3>2. issued'[g][i] = Pack(clock[g], WorkerId[g], ProcessId[g], s)
      BY <1>6, <2>3 DEF new
    <3>3. clock[g] <= lastTime'[g] /\ s <= sequence'[g]
      BY <1>1, <3>1
    <3> QED BY <2>3, <1>1, <3>2, <3>3, Zenon DEF From
  <2> QED BY <1>3, <1>6, <2>1, <2>2, <2>3
<1>8. ASSUME NEW h \in Generators, NEW i \in 1..Len(issued'[h]),
             NEW j \in 1..Len(issued'[h]), i < j
      PROVE  /\ Milli(issued'[h][i]) <= Milli(issued'[h][j])
             /\ \/ issued'[h][i] < issued'[h][j]
                \/ Milli(issued'[h][j]) \in exhausted[h]
  <2>1. CASE h # g
    BY <1>6, <1>8, <2>1 DEF IInv, TimeOrdered, UniqueOutsideBursts
  <2>2. CASE h = g /\ j \in 1..n
    <3>1. i \in 1..n
      BY <1>3, <1>8, <2>2
    <3> QED BY <1>6, <1>8, <2>2, <3>1 DEF IInv, TimeOrdered, UniqueOutsideBursts
  <2>3. CASE h = g /\ j = n + 1
    <3>1. i \in 1..n
      BY <1>3, <1>8, <2>3
    <3> QED BY <1>4, <1>5, <1>6, <2>3, <3>1
  <2> QED BY <1>3, <1>6, <2>1, <2>2, <2>3
<1>9. TimeOrdered' /\ UniqueOutsideBursts'
  BY <1>8 DEF TimeOrdered, UniqueOutsideBursts
<1> QED
  BY <1>7, <1>9 DEF IInv

\* The invariant holds initially: nothing was handed out.
LEMMA InitIInv == Init => IInv
<1> SUFFICES ASSUME Init PROVE IInv
  OBVIOUS
<1>1. TypeOK
  BY InitTypeOK
<1>2. ASSUME NEW g \in Generators PROVE 1..Len(issued[g]) = {}
  <2>1. issued[g] = <<>>
    BY DEF Init
  <2> QED BY <2>1
<1>3. Stamped
  BY <1>2 DEF Stamped
<1> QED
  BY <1>1, <1>2, <1>3 DEF IInv, TimeOrdered, UniqueOutsideBursts

\* Every step keeps the invariant.
LEMMA NextIInv == IInv /\ [Next]_vars => IInv'
<1> SUFFICES ASSUME IInv, [Next]_vars PROVE IInv'
  OBVIOUS
<1>1. TypeOK'
  BY NextTypeOK DEF IInv
<1>2. /\ MaxTime \in Nat
      /\ Epoch \in Nat
      /\ 0 < Epoch
      /\ \A g \in Generators : clock[g] \in Nat /\ lastTime[g] \in Nat
      /\ \A g \in Generators : sequence[g] \in 0..(SequenceSpace - 1)
      /\ \A g \in Generators : sequence[g] \in Nat
  BY SnowflakeAssumption DEF IInv, TypeOK
<1>3. CASE UNCHANGED <<lastTime, sequence, issued, exhausted>>
  BY <1>1, <1>2, <1>3, QuietStep
<1>4. ASSUME NEW g \in Generators, GenerateSameMilli(g) PROVE IInv'
  <2> DEFINE s == NextSequence(sequence[g])
  <2>1. s \in Slots /\ (s = 0 \/ s = sequence[g] + 1)
    BY <1>2, NextSequenceStep
  <2>2. /\ sequence' = [sequence EXCEPT ![g] = s]
        /\ sequence'[g] = s
    BY <1>4 DEF GenerateSameMilli, IInv, TypeOK
  <2>3. clock[g] = lastTime[g] /\ lastTime' = lastTime
    BY <1>4, Zenon DEF GenerateSameMilli
  <2> HIDE DEF s
  <2>4. CASE s = 0
    <3>1. /\ exhausted' = [exhausted EXCEPT ![g] = @ \cup {clock[g]}]
          /\ issued' = issued
      BY <1>4, <2>2, <2>4 DEF GenerateSameMilli
    <3>2. lastTime'[g] \in exhausted'[g]
      BY <2>3, <3>1 DEF IInv, TypeOK
    <3>3. \A h \in Generators : exhausted[h] \subseteq exhausted'[h]
      BY <3>1 DEF IInv, TypeOK
    <3>4. \A h \in Generators : h # g => sequence'[h] = sequence[h]
      BY <2>2 DEF IInv, TypeOK
    <3>5. \A h \in Generators : lastTime[h] <= lastTime'[h]
      BY <1>2, <2>3
    <3>6. \A h \in Generators :
            \/ lastTime'[h] = lastTime[h] /\ sequence[h] <= sequence'[h]
            \/ lastTime'[h] \in exhausted'[h]
      <4> SUFFICES ASSUME NEW h \in Generators
                   PROVE  \/ lastTime'[h] = lastTime[h] /\ sequence[h] <= sequence'[h]
                          \/ lastTime'[h] \in exhausted'[h]
        OBVIOUS
      <4>1. CASE h = g
        BY <3>2, <4>1
      <4>2. CASE h # g
        BY <1>2, <2>3, <3>4, <4>2
      <4> QED BY <4>1, <4>2
    <3> QED BY <1>1, <3>1, <3>3, <3>5, <3>6, QuietStep, Zenon
  <2>5. CASE s # 0
    <3>1. Issue(g, s) /\ exhausted' = exhausted
      BY <1>4, <2>2, <2>5, Zenon DEF GenerateSameMilli
    <3>2. sequence[g] < s
      BY <1>2, <2>1, <2>5
    <3>3. lastTime' = [lastTime EXCEPT ![g] = clock[g]]
      BY <2>3 DEF IInv, TypeOK
    <3>4. CASE clock[g] < Epoch
      <4>1. issued' = issued
        BY <3>1, <3>4 DEF Issue
      <4>2. \A h \in Generators : sequence[h] <= sequence'[h]
        <5>1. \A h \in Generators : h # g => sequence'[h] = sequence[h]
          BY <2>2 DEF IInv, TypeOK
        <5>2. sequence[g] <= sequence'[g]
          BY <1>2, <2>1, <2>2, <3>2
        <5>3. \A h \in Generators : sequence[h] <= sequence[h]
          BY <1>2
        <5> QED BY <5>1, <5>2, <5>3, Zenon
      <4>3. \A h \in Generators : lastTime[h] <= lastTime'[h] /\ lastTime'[h] = lastTime[h]
        BY <1>2, <2>3
      <4>4. \A h \in Generators : exhausted[h] \subseteq exhausted'[h]
        BY <3>1
      <4> QED BY <1>1, <4>1, <4>2, <4>3, <4>4, QuietStep, Zenon
    <3>5. CASE ~(clock[g] < Epoch)
      <4>1. issued' = [issued EXCEPT ![g] =
                         Append(@, Pack(clock[g], WorkerId[g], ProcessId[g], s))]
        BY <3>1, <3>5 DEF Issue
      <4>2. Epoch <= clock[g] /\ lastTime[g] <= clock[g]
        BY <1>2, <2>3, <3>5
      <4> QED BY <1>1, <2>1, <2>2, <3>1, <3>2, <3>3, <4>1, <4>2, IssueStep
    <3> QED BY <3>4, <3>5
  <2> QED BY <2>4, <2>5
<1>5. ASSUME NEW g \in Generators, GenerateNewMilli(g) PROVE IInv'
  <2>1. lastTime[g] < clock[g]
    BY <1>2, <1>5 DEF GenerateNewMilli, ClockBehind
  <2>2. /\ lastTime' = [lastTime EXCEPT ![g] = clock[g]]
        /\ sequence' = [sequence EXCEPT ![g] = 0]
        /\ exhausted' = exhausted
        /\ Issue(g, 0)
    BY <1>5, Zenon DEF GenerateNewMilli
  <2>3. CASE clock[g] < Epoch
    <3>1. issued' = issued
      BY <2>2, <2>3 DEF Issue
    <3>2. \A h \in Generators : h # g => sequence'[h] = sequence[h]
      BY <2>2 DEF IInv, TypeOK
    <3>3. \A h \in Generators : lastTime'[h] = IF h = g THEN clock[g] ELSE lastTime[h]
      BY <2>2 DEF IInv, TypeOK
    <3>4. \A h \in Generators : lastTime[h] <= lastTime'[h]
      BY <1>2, <2>1, <3>3
    <3> QED BY <1>1, <1>2, <2>1, <2>2, <3>1, <3>2, <3>3, <3>4, QuietStep
  <2>4. CASE ~(clock[g] < Epoch)
    <3>1. issued' = [issued EXCEPT ![g] =
                       Append(@, Pack(clock[g], WorkerId[g], ProcessId[g], 0))]
      BY <2>2, <2>4 DEF Issue
    <3>2. /\ Epoch <= clock[g]
          /\ lastTime[g] <= clock[g]
          /\ clock[g] # lastTime[g]
          /\ 0 \in Slots
      BY <1>2, <2>1, <2>4 DEF Slots
    <3> QED BY <1>1, <2>2, <3>1, <3>2, IssueStep
  <2> QED BY <2>3, <2>4
<1> QED
  BY <1>3, <1>4, <1>5, Zenon DEF Next, vars, GenerateBehind, Tick, StepBack

\* The identifiers of one generator never go back in time, whatever its clock
\* does (generate(): "clock moved backwards").
THEOREM TimeOrder == Spec => []TimeOrdered
<1>1. IInv => TimeOrdered
  BY DEF IInv
<1> QED BY <1>1, InitIInv, NextIInv, PTL DEF Spec

\* Outside the milliseconds reported exhausted, one generator's identifiers
\* strictly increase, so none is handed out twice.
THEOREM Unique == Spec => []UniqueOutsideBursts
<1>1. IInv => UniqueOutsideBursts
  BY DEF IInv
<1> QED BY <1>1, InitIInv, NextIInv, PTL DEF Spec

\* ParseSnowflake recovers from an identifier the generator it came from.
ParseNamesGenerator ==
  \A g \in Generators : \A i \in 1..Len(issued[g]) :
    LET parts == ParseSnowflake(issued[g][i]) IN
    /\ parts.WorkerID = Low5(WorkerId[g])
    /\ parts.ProcessID = Low5(ProcessId[g])
    /\ parts.Timestamp <= lastTime[g]

\* ParseSnowflake names the generator an identifier came from.
THEOREM Provenance == Spec => []ParseNamesGenerator
<1>1. IInv => ParseNamesGenerator
  <2> SUFFICES ASSUME IInv, NEW g \in Generators, NEW i \in 1..Len(issued[g])
               PROVE  LET parts == ParseSnowflake(issued[g][i]) IN
                        /\ parts.WorkerID = Low5(WorkerId[g])
                        /\ parts.ProcessID = Low5(ProcessId[g])
                        /\ parts.Timestamp <= lastTime[g]
    BY DEF ParseNamesGenerator
  <2>1. PICK t \in Nat, s \in Slots :
          /\ Epoch <= t
          /\ t <= lastTime[g]
          /\ issued[g][i] = Pack(t, WorkerId[g], ProcessId[g], s)
    BY DEF IInv, Stamped, From
  <2>2. WorkerId[g] \in Nat /\ ProcessId[g] \in Nat
    BY SnowflakeAssumption
  <2>3. ASSUME NEW w \in Nat, NEW p \in Nat
        PROVE  /\ ParseSnowflake(Pack(t, w, p, s)).Timestamp = t
               /\ ParseSnowflake(Pack(t, w, p, s)).WorkerID = Low5(w)
               /\ ParseSnowflake(Pack(t, w, p, s)).ProcessID = Low5(p)
    <3>0. Epoch <= t
      BY <2>1
    <3>1. ParseSnowflake(Pack(t, w, p, s)).Timestamp = t
      BY <3>0, MilliPack DEF Milli
    <3>2. ParseSnowflake(Pack(t, w, p, s)).WorkerID = Low5(w)
      BY <3>0, ParsePack, SMT
    <3>3. ParseSnowflake(Pack(t, w, p, s)).ProcessID = Low5(p)
      BY <3>0, ParsePack, SMT
    <3> QED BY <3>1, <3>2, <3>3
  <2>4. /\ ParseSnowflake(issued[g][i]).Timestamp = t
        /\ ParseSnowflake(issued[g][i]).WorkerID = Low5(WorkerId[g])
        /\ ParseSnowflake(issued[g][i]).ProcessID = Low5(ProcessId[g])
    <3>1. issued[g][i] = Pack(t, WorkerId[g], ProcessId[g], s)
      BY <2>1
    <3>2. /\ ParseSnowflake(Pack(t, WorkerId[g], ProcessId[g], s)).Timestamp = t
          /\ ParseSnowflake(Pack(t, WorkerId[g], ProcessId[g], s)).WorkerID = Low5(WorkerId[g])
          /\ ParseSnowflake(Pack(t, WorkerId[g], ProcessId[g], s)).ProcessID = Low5(ProcessId[g])
      BY <2>2, <2>3
    <3> QED BY <3>1, <3>2
  <2>5. t <= lastTime[g]
    BY <2>1
  <2> QED BY <2>4, <2>5, Zenon
<1> QED BY <1>1, InitIInv, NextIInv, PTL DEF Spec

\* Processes with different numbers never hand out the same identifier.
THEOREM Disjoint == Spec => []DisjointGenerators
<1>1. ParseNamesGenerator => DisjointGenerators
  BY DEF ParseNamesGenerator, DisjointGenerators
<1> QED BY <1>1, Provenance, PTL
=============================================================================
