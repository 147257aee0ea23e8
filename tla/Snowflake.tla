------------------------------ MODULE Snowflake ------------------------------
(***************************************************************************)
(* The identifier generator of domain/models/snowflake.go.  Every process  *)
(* of the service owns one SnowflakeGenerator, guarded by a mutex, so one  *)
(* call of generate() is one atomic step.  Identifiers are the primary     *)
(* keys of reversals and admin audits, and List pages through them in      *)
(* order, so they have to be unique and to grow with time.                 *)
(*                                                                         *)
(* A generator reads the wall clock of its own machine, which may be       *)
(* stepped back.  A restarted process is another generator: it starts from *)
(* lastTime = 0 and keeps nothing of its predecessor.                      *)
(***************************************************************************)
EXTENDS Integers, Sequences

CONSTANTS
  Generators,     \* the processes that generate identifiers
  WorkerId,       \* WorkerId[g], ProcessId[g]: what main passes to
  ProcessId,      \*   InitSnowflakeGenerator
  SequenceSpace,  \* 0xFFF + 1 in the code: identifiers per millisecond
  Epoch,          \* the first millisecond an identifier can carry
  MaxTime,        \* bound: the last millisecond of the clocks (below 2^42)
  MaxIssued       \* bound: identifiers one generator hands out

ASSUME SnowflakeAssumption ==
  /\ WorkerId \in [Generators -> Nat]
  /\ ProcessId \in [Generators -> Nat]
  /\ SequenceSpace \in 1..4096
  /\ Epoch \in Nat \ {0}
  /\ MaxTime \in Nat
  /\ MaxIssued \in Nat

VARIABLES
  clock,      \* clock[g]: time.Now().UnixMilli() on g's machine
  lastTime,   \* lastTime[g], sequence[g]: the fields of the generator
  sequence,
  issued,     \* issued[g]: the identifiers g handed out, oldest first
  exhausted   \* exhausted[g]: the milliseconds generate() reported exhausted

vars == <<clock, lastTime, sequence, issued, exhausted>>

-----------------------------------------------------------------------------
(* The layout: 42 bits of time, 5 of worker, 5 of process, 12 of sequence. *)

\* & 0x1F
Low5(n) == n % 32

Pack_NoWorker(t, w, p, s) == (t - Epoch) * 4194304 + Low5(p) * 4096 + (s % 4096)

\* The fields do not overlap, so the code's shifts and ors are a sum.
Pack(t, w, p, s) ==
  (t - Epoch) * 4194304 + Low5(w) * 131072 + Low5(p) * 4096 + (s % 4096)

ParseSnowflake(id) ==
  [Timestamp |-> (id \div 4194304) + Epoch,
   WorkerID  |-> Low5(id \div 131072),
   ProcessID |-> Low5(id \div 4096),
   Sequence  |-> id % 4096]

-----------------------------------------------------------------------------
Init ==
  /\ clock \in [Generators -> 0..MaxTime]
  /\ lastTime = [g \in Generators |-> 0]
  /\ sequence = [g \in Generators |-> 0]
  /\ issued = [g \in Generators |-> <<>>]
  /\ exhausted = [g \in Generators |-> {}]

NextSequence_NoMask(s) == s + 1

NextSequence(s) == (s + 1) % SequenceSpace

ClockBehind_Dropped(g) == FALSE

ClockBehind(g) == clock[g] < lastTime[g]

\* genSnowflakeWithParts: an identifier, or an error before the epoch.
Issue(g, s) ==
  IF clock[g] < Epoch
  THEN UNCHANGED issued
  ELSE issued' = [issued EXCEPT ![g] =
                    Append(@, Pack(clock[g], WorkerId[g], ProcessId[g], s))]

\* generate() when the clock is behind the last identifier: an error.
GenerateBehind(g) ==
  /\ ClockBehind(g)
  /\ UNCHANGED vars

\* generate() in the millisecond of the last identifier.  When the sequence
\* wraps to 0 the call fails, but the 0 stays in the generator.
GenerateSameMilli(g) ==
  /\ ~ClockBehind(g)
  /\ clock[g] = lastTime[g]
  /\ Len(issued[g]) < MaxIssued
  /\ sequence' = [sequence EXCEPT ![g] = NextSequence(@)]
  /\ IF sequence'[g] = 0
     THEN /\ exhausted' = [exhausted EXCEPT ![g] = @ \cup {clock[g]}]
          /\ UNCHANGED issued
     ELSE /\ Issue(g, sequence'[g])
          /\ UNCHANGED exhausted
  /\ UNCHANGED <<clock, lastTime>>

\* generate() in a later millisecond.
GenerateNewMilli(g) ==
  /\ ~ClockBehind(g)
  /\ clock[g] # lastTime[g]
  /\ Len(issued[g]) < MaxIssued
  /\ lastTime' = [lastTime EXCEPT ![g] = clock[g]]
  /\ sequence' = [sequence EXCEPT ![g] = 0]
  /\ Issue(g, 0)
  /\ UNCHANGED <<clock, exhausted>>

\* Time passes on g's machine.
Tick(g) ==
  /\ clock[g] < MaxTime
  /\ clock' = [clock EXCEPT ![g] = @ + 1]
  /\ UNCHANGED <<lastTime, sequence, issued, exhausted>>

\* g's wall clock is stepped back.
StepBack(g) ==
  /\ \E t \in 0..(clock[g] - 1) : clock' = [clock EXCEPT ![g] = t]
  /\ UNCHANGED <<lastTime, sequence, issued, exhausted>>

Next ==
  \E g \in Generators :
    \/ GenerateBehind(g)
    \/ GenerateSameMilli(g)
    \/ GenerateNewMilli(g)
    \/ Tick(g)
    \/ StepBack(g)

Spec == Init /\ [][Next]_vars

-----------------------------------------------------------------------------
Milli(id) == ParseSnowflake(id).Timestamp

\* The types of the fields of the generators and of the ghost variables.
TypeOK ==
  /\ clock \in [Generators -> 0..MaxTime]
  /\ lastTime \in [Generators -> 0..MaxTime]
  /\ sequence \in [Generators -> 0..(SequenceSpace - 1)]
  /\ issued \in [Generators -> Seq(Nat)]
  /\ exhausted \in [Generators -> SUBSET (0..MaxTime)]

\* Whatever the clock does, the identifiers of one generator never go back in
\* time: paging by descending identifier is paging by descending creation time
\* (the "clock moved backwards" check).
TimeOrdered ==
  \A g \in Generators : \A i, j \in 1..Len(issued[g]) :
    i < j => Milli(issued[g][i]) <= Milli(issued[g][j])

\* Outside the milliseconds that generate() reported exhausted, a later
\* identifier of the same generator is strictly greater: none is handed out
\* twice, even when the clock is stepped back and forth.
UniqueOutsideBursts ==
  \A g \in Generators : \A i, j \in 1..Len(issued[g]) :
    i < j => \/ issued[g][i] < issued[g][j]
             \/ Milli(issued[g][j]) \in exhausted[g]

\* Two generators whose worker and process numbers differ in the five bits the
\* identifier keeps of each never hand out the same identifier.
DisjointGenerators ==
  \A g, h \in Generators :
    (Low5(WorkerId[g]) # Low5(WorkerId[h]) \/ Low5(ProcessId[g]) # Low5(ProcessId[h]))
    => \A i \in 1..Len(issued[g]), j \in 1..Len(issued[h]) :
         issued[g][i] # issued[h][j]

\* What a primary key asks of the generators of all running processes.
UniqueAcrossGenerators ==
  \A g, h \in Generators : g # h =>
    \A i \in 1..Len(issued[g]), j \in 1..Len(issued[h]) :
      issued[g][i] # issued[h][j]
=============================================================================
