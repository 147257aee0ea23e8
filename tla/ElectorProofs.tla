---------------------------- MODULE ElectorProofs ----------------------------
(***************************************************************************)
(* Proofs about Elector for any set of instances and any number of faults, *)
(* lost sessions and crashes: types, exclusion of a second leader, and the *)
(* refinement of Leadership.                                               *)
(***************************************************************************)
EXTENDS Elector, TLAPS

\* The lock and the loop agree: an instance has the lock only from Acquire to
\* Unlock, and in between it has it unless its session was lost.
LockInv ==
  \A i \in Instances :
    /\ holder = i => pc[i] \in {"work", "unlock"} /\ i \notin lost
    /\ pc[i] \in {"work", "unlock"} => holder = i \/ i \in lost

ElectorInv == ElectorTypeOK /\ LockInv

\* The invariant holds initially.
LEMMA ElectorInitInv == ElectorInit => ElectorInv
BY ElectorAssumption DEF ElectorInit, ElectorInv, ElectorTypeOK, LockInv, Places

\* The death of a process keeps the invariant, whatever it is counted as.
LEMMA DieKeeps ==
  ASSUME NEW i \in Instances, ElectorInv, Die(i), crashes' \in 0..MaxCrashes
  PROVE  ElectorInv'
<1> USE ElectorAssumption DEF ElectorInv, ElectorTypeOK, LockInv, Goto, Places
<1>1. ElectorTypeOK'
  BY DEF Die
<1>2. LockInv'
  BY DEF Die
<1> QED BY <1>1, <1>2

\* Every step keeps the types.
LEMMA ElectorTyping == ElectorInv /\ [ElectorNext]_electorVars => ElectorTypeOK'
<1> SUFFICES ASSUME ElectorInv, [ElectorNext]_electorVars
             PROVE  ElectorTypeOK'
  OBVIOUS
<1> USE ElectorAssumption DEF ElectorInv, ElectorTypeOK, LockInv, Goto, Places
<1>1. CASE UNCHANGED electorVars
  BY <1>1 DEF electorVars
<1>2. ASSUME NEW i \in Instances, RunStep(i) PROVE ElectorTypeOK'
  <2>1. CASE Check(i)
    BY <2>1 DEF Check
  <2>2. CASE Begin(i)
    BY <2>2 DEF Begin
  <2>3. CASE Acquire(i)
    BY <2>3 DEF Acquire
  <2>4. CASE Busy(i)
    BY <2>4 DEF Busy
  <2>5. CASE Unlock(i)
    BY <2>5 DEF Unlock
  <2>6. CASE Wake(i)
    BY <2>6 DEF Wake
  <2> QED BY <1>2, <2>1, <2>2, <2>3, <2>4, <2>5, <2>6 DEF RunStep
<1>3. ASSUME NEW i \in Instances, FinishWork(i) PROVE ElectorTypeOK'
  BY <1>3 DEF FinishWork
<1>4. ASSUME NEW i \in Instances, Environment(i) PROVE ElectorTypeOK'
  <2>1. CASE BeginFails(i)
    BY <2>1 DEF BeginFails
  <2>2. CASE QueryFails(i)
    BY <2>2 DEF QueryFails
  <2>3. CASE Cancel(i)
    BY <2>3 DEF Cancel
  <2>4. CASE SessionLost(i)
    BY <2>4 DEF SessionLost
  <2>5. CASE Exit(i)
    BY <2>5 DEF Exit
  <2>6. CASE Start(i)
    BY <2>6 DEF Start
  <2> QED BY <1>4, <2>1, <2>2, <2>3, <2>4, <2>5, <2>6 DEF Environment
<1>5. ASSUME NEW i \in Instances, Crash(i) PROVE ElectorTypeOK'
  <2>1. crashes' \in 0..MaxCrashes
    BY <1>5 DEF Crash
  <2> QED BY <1>5, <2>1, DieKeeps DEF Crash
<1>6. CASE Reap
  BY <1>6 DEF Reap
<1> QED
  BY <1>1, <1>2, <1>3, <1>4, <1>5, <1>6 DEF ElectorNext

\* Every step keeps the lock and the loop in agreement.
LEMMA ElectorLocking == ElectorInv /\ [ElectorNext]_electorVars => LockInv'
<1> SUFFICES ASSUME ElectorInv, [ElectorNext]_electorVars
             PROVE  LockInv'
  OBVIOUS
<1> USE ElectorAssumption DEF ElectorInv, ElectorTypeOK, LockInv, Goto
<1>1. CASE UNCHANGED electorVars
  BY <1>1 DEF electorVars
<1>2. ASSUME NEW i \in Instances, RunStep(i) PROVE LockInv'
  <2>1. CASE Check(i)
    BY <2>1 DEF Check
  <2>2. CASE Begin(i)
    BY <2>2 DEF Begin
  <2>3. CASE Acquire(i)
    BY <2>3 DEF Acquire
  <2>4. CASE Busy(i)
    BY <2>4 DEF Busy
  <2>5. CASE Unlock(i)
    BY <2>5 DEF Unlock
  <2>6. CASE Wake(i)
    BY <2>6 DEF Wake
  <2> QED BY <1>2, <2>1, <2>2, <2>3, <2>4, <2>5, <2>6 DEF RunStep
<1>3. ASSUME NEW i \in Instances, FinishWork(i) PROVE LockInv'
  BY <1>3 DEF FinishWork
<1>4. ASSUME NEW i \in Instances, Environment(i) PROVE LockInv'
  <2>1. CASE BeginFails(i)
    BY <2>1 DEF BeginFails
  <2>2. CASE QueryFails(i)
    BY <2>2 DEF QueryFails
  <2>3. CASE Cancel(i)
    BY <2>3 DEF Cancel
  <2>4. CASE SessionLost(i)
    BY <2>4 DEF SessionLost
  <2>5. CASE Exit(i)
    BY <2>5 DEF Exit
  <2>6. CASE Start(i)
    BY <2>6 DEF Start
  <2> QED BY <1>4, <2>1, <2>2, <2>3, <2>4, <2>5, <2>6 DEF Environment
<1>5. ASSUME NEW i \in Instances, Crash(i) PROVE LockInv'
  <2>1. crashes' \in 0..MaxCrashes
    BY <1>5 DEF Crash
  <2> QED BY <1>5, <2>1, DieKeeps DEF Crash
<1>6. CASE Reap
  BY <1>6 DEF Reap
<1> QED
  BY <1>1, <1>2, <1>3, <1>4, <1>5, <1>6 DEF ElectorNext

\* The inductive invariant holds in every reachable state.
THEOREM ElectorInvariant == ElectorSpec => []ElectorInv
<1>1. ElectorInv /\ [ElectorNext]_electorVars => ElectorInv'
  BY ElectorTyping, ElectorLocking DEF ElectorInv
<1> QED
  BY <1>1, ElectorInitInv, PTL DEF ElectorSpec

\* The types of the variables.
THEOREM ElectorTypes == ElectorSpec => []ElectorTypeOK
<1>1. ElectorInv => ElectorTypeOK
  BY DEF ElectorInv
<1> QED BY <1>1, ElectorInvariant, PTL

\* No second leader, unless a leader's session was lost, and none that holds the
\* lock without leading.
THEOREM Exclusive == ElectorSpec => []ExclusiveWork
<1>1. ElectorInv => ExclusiveWork
  BY DEF ElectorInv, LockInv, ExclusiveWork, Working
<1> QED BY <1>1, ElectorInvariant, PTL

-----------------------------------------------------------------------------
(* The abstract leader: whoever runs onWork under the lock.                *)

Leaders == {i \in Instances : Working(i) /\ i \notin lost}

\* Nobody leads in the beginning.
LEMMA LeadersInit == ElectorInit => Abstract!Init
BY DEF ElectorInit, Abstract!Init, Working

\* A step that ends the work of an instance, or leaves the leaders alone, is one of
\* the abstract leader.
LEMMA LeaderGoes ==
  ASSUME NEW i \in Instances, Leaders' = Leaders \ {i} \/ UNCHANGED <<pc, lost>>
  PROVE  [Abstract!Next]_Leaders
<1>1. CASE UNCHANGED <<pc, lost>>
  BY <1>1 DEF Leaders, Working
<1>2. CASE Leaders' = Leaders \ {i} /\ i \notin Leaders
  BY <1>2
<1>3. CASE Leaders' = Leaders \ {i} /\ i \in Leaders
  BY <1>3 DEF Abstract!Next, Abstract!Retire, Leaders
<1> QED BY <1>1, <1>2, <1>3

\* A process that dies leads no more, and what it held is not free: nobody is
\* elected by its death.
LEMMA DieLeads ==
  ASSUME ElectorInv, NEW i \in Instances, Die(i)
  PROVE  [Abstract!Next]_Leaders
<1>1. Leaders' = Leaders \ {i}
  BY DEF Die, Goto, Leaders, Working, ElectorInv, ElectorTypeOK
<1> QED BY <1>1, LeaderGoes

\* Every step of the election is an election, a retirement or a stutter.
LEMMA LeaderStep == ElectorInv /\ [ElectorNext]_electorVars => [Abstract!Next]_Leaders
<1> SUFFICES ASSUME ElectorInv, [ElectorNext]_electorVars
             PROVE  [Abstract!Next]_Leaders
  OBVIOUS
<1> USE ElectorAssumption DEF ElectorInv, ElectorTypeOK, LockInv, Goto, Working
<1>1. CASE UNCHANGED <<pc, lost>>
  BY <1>1 DEF Leaders
<1>2. ASSUME NEW i \in Instances, RunStep(i) PROVE [Abstract!Next]_Leaders
  <2>1. CASE Check(i)
    BY <2>1 DEF Check, Leaders
  <2>2. CASE Begin(i)
    BY <2>2 DEF Begin, Leaders
  <2>3. CASE Acquire(i)
    <3>1. Leaders = {}
      BY <2>3 DEF Acquire, Leaders
    <3>2. Leaders' = {i}
      BY <2>3, <3>1 DEF Acquire, Leaders
    <3> QED BY <3>1, <3>2 DEF Abstract!Next, Abstract!Elect, Leaders
  <2>4. CASE Busy(i)
    BY <2>4 DEF Busy, Leaders
  <2>5. CASE Unlock(i)
    BY <2>5 DEF Unlock, Leaders
  <2>6. CASE Wake(i)
    BY <2>6 DEF Wake, Leaders
  <2> QED BY <1>2, <2>1, <2>2, <2>3, <2>4, <2>5, <2>6 DEF RunStep
<1>3. ASSUME NEW i \in Instances, FinishWork(i) PROVE [Abstract!Next]_Leaders
  <2>1. Leaders' = Leaders \ {i}
    BY <1>3 DEF FinishWork, Leaders
  <2> QED BY <2>1, LeaderGoes
<1>4. ASSUME NEW i \in Instances, Environment(i) PROVE [Abstract!Next]_Leaders
  <2>1. CASE BeginFails(i)
    BY <2>1 DEF BeginFails, Leaders
  <2>2. CASE QueryFails(i)
    BY <2>2 DEF QueryFails, Leaders
  <2>3. CASE Cancel(i)
    BY <1>1, <2>3 DEF Cancel
  <2>4. CASE SessionLost(i)
    <3>1. Leaders' = Leaders \ {i}
      BY <2>4 DEF SessionLost, Leaders
    <3> QED BY <3>1, LeaderGoes
  <2>5. CASE Exit(i)
    BY <2>5 DEF Exit, Leaders
  <2>6. CASE Start(i)
    BY <2>6 DEF Start, Leaders
  <2> QED BY <1>4, <2>1, <2>2, <2>3, <2>4, <2>5, <2>6 DEF Environment
<1>5. ASSUME NEW i \in Instances, Crash(i) PROVE [Abstract!Next]_Leaders
  BY <1>5, DieLeads DEF Crash
<1>6. CASE Reap
  BY <1>1, <1>6 DEF Reap
<1> QED
  BY <1>1, <1>2, <1>3, <1>4, <1>5, <1>6 DEF ElectorNext, electorVars

\* The election implements the abstract leader.
THEOREM Leads == ElectorSpec => LeadershipSpec
BY LeadersInit, LeaderStep, ElectorInvariant, PTL
  DEF ElectorSpec, LeadershipSpec, Abstract!Spec, Leaders
=============================================================================
