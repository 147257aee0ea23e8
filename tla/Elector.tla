------------------------------- MODULE Elector -------------------------------
(***************************************************************************)
(* The leader election of leader/leader.go.  Each instance of the service  *)
(* loops: open a transaction, try to take one advisory lock in it, run     *)
(* onWork if it got the lock, roll the transaction back, and wait for the  *)
(* next boundary of the period.  The lock belongs to the transaction: the  *)
(* database frees it when the transaction ends or when it notices that the *)
(* session is gone.                                                        *)
(*                                                                         *)
(* A session can be lost while onWork runs; nothing tells onWork.  A query *)
(* can fail after the database granted the lock, and a process can die; in *)
(* both cases the session lingers in the database, still holding the lock, *)
(* until the database reaps it.                                            *)
(***************************************************************************)
EXTENDS Naturals

CONSTANTS
  Instances,    \* the instances of the service
  Free,         \* nobody holds the lock
  Orphan,       \* a session whose client is gone holds the lock
  MaxFaults,    \* bound: failed calls to the database
  MaxLosses,    \* bound: sessions lost while they hold the lock
  MaxCrashes    \* bound: processes that die

ASSUME ElectorAssumption ==
  /\ Free \notin Instances
  /\ Orphan \notin Instances
  /\ Free # Orphan
  /\ MaxFaults \in Nat
  /\ MaxLosses \in Nat
  /\ MaxCrashes \in Nat

VARIABLES
  pc,          \* pc[i]: where instance i is in Run
  holder,      \* the session that holds the lock
  cancelled,   \* the instances whose context is cancelled (Stop was called)
  lost,        \* the instances whose lock session died under onWork
  faults,
  losses,
  crashes

electorVars == <<pc, holder, cancelled, lost, faults, losses, crashes>>

\* Run: top of the loop, opening the transaction, the lock query, onWork, the
\* deferred Rollback, the deferred wait, returned; and no loop running.
Places == {"top", "begin", "query", "work", "unlock", "wait", "done", "down"}

Goto(i, place) == pc' = [pc EXCEPT ![i] = place]

\* Before StartIngestors nothing runs.
ElectorInit ==
  /\ pc = [i \in Instances |-> "down"]
  /\ holder = Free
  /\ cancelled = {}
  /\ lost = {}
  /\ faults = 0
  /\ losses = 0
  /\ crashes = 0

\* The select at the top of the loop.
Check(i) ==
  /\ pc[i] = "top"
  /\ Goto(i, IF i \in cancelled THEN "done" ELSE "begin")
  /\ UNCHANGED <<holder, cancelled, lost, faults, losses, crashes>>

\* BeginTx on the background context, then the query is sent; on a cancelled
\* context it is not, and the transaction is rolled back.
Begin(i) ==
  /\ pc[i] = "begin"
  /\ Goto(i, IF i \in cancelled THEN "wait" ELSE "query")
  /\ UNCHANGED <<holder, cancelled, lost, faults, losses, crashes>>

\* BeginTx fails: no transaction.
BeginFails(i) ==
  /\ pc[i] = "begin"
  /\ faults < MaxFaults
  /\ faults' = faults + 1
  /\ Goto(i, "wait")
  /\ UNCHANGED <<holder, cancelled, lost, losses, crashes>>

Acquire_IgnoresAnswer(i) ==
  /\ pc[i] = "query"
  /\ holder' = IF holder = Free THEN i ELSE holder
  /\ Goto(i, "work")
  /\ UNCHANGED <<cancelled, lost, faults, losses, crashes>>

\* pg_try_advisory_xact_lock answers true.
Acquire(i) ==
  /\ pc[i] = "query"
  /\ holder = Free
  /\ holder' = i
  /\ Goto(i, "work")
  /\ UNCHANGED <<cancelled, lost, faults, losses, crashes>>

\* It answers false: roll back and wait.
Busy(i) ==
  /\ pc[i] = "query"
  /\ holder # Free
  /\ Goto(i, "wait")
  /\ UNCHANGED <<holder, cancelled, lost, faults, losses, crashes>>

\* The query fails, because its context was cancelled or for a fault.  If the
\* connection broke after the lock was granted, the lock stays taken.
QueryFails(i) ==
  /\ pc[i] = "query"
  /\ \/ i \in cancelled /\ UNCHANGED <<holder, faults>>
     \/ /\ faults < MaxFaults
        /\ faults' = faults + 1
        /\ holder' \in {holder} \cup (IF holder = Free THEN {Orphan} ELSE {})
  /\ Goto(i, "wait")
  /\ UNCHANGED <<cancelled, lost, losses, crashes>>

\* onWork returns.
FinishWork(i) ==
  /\ pc[i] = "work"
  /\ Goto(i, "unlock")
  /\ UNCHANGED <<holder, cancelled, lost, faults, losses, crashes>>

Unlock_KeepsTransaction(i) ==
  /\ pc[i] = "unlock"
  /\ Goto(i, "wait")
  /\ lost' = lost \ {i}
  /\ UNCHANGED <<holder, cancelled, faults, losses, crashes>>

\* The deferred Rollback frees the lock, if the session still has it.
Unlock(i) ==
  /\ pc[i] = "unlock"
  /\ holder' = IF holder = i THEN Free ELSE holder
  /\ lost' = lost \ {i}
  /\ Goto(i, "wait")
  /\ UNCHANGED <<cancelled, faults, losses, crashes>>

\* waitUntilNextBoundary returns, at the boundary or on a cancelled context.
Wake(i) ==
  /\ pc[i] = "wait"
  /\ Goto(i, "top")
  /\ UNCHANGED <<holder, cancelled, lost, faults, losses, crashes>>

Cancel_EndsTransaction(i) ==
  /\ i \notin cancelled
  /\ pc[i] \notin {"done", "down"}
  /\ cancelled' = cancelled \cup {i}
  /\ holder' = IF holder = i THEN Free ELSE holder
  /\ UNCHANGED <<pc, lost, faults, losses, crashes>>

\* Stop cancels the context.  The transaction was begun on the background
\* context, so the lock stays taken until onWork has returned.
Cancel(i) ==
  /\ i \notin cancelled
  /\ pc[i] \notin {"done", "down"}
  /\ cancelled' = cancelled \cup {i}
  /\ UNCHANGED <<pc, holder, lost, faults, losses, crashes>>

\* The session of the leader's transaction dies: its lock is free at once,
\* and onWork runs on.
SessionLost(i) ==
  /\ holder = i
  /\ losses < MaxLosses
  /\ losses' = losses + 1
  /\ holder' = Free
  /\ lost' = lost \cup {i}
  /\ UNCHANGED <<pc, cancelled, faults, crashes>>

\* The process dies, wherever it is.  A lock it held, or was being granted,
\* stays with the session it leaves behind.
Die(i) ==
  /\ pc[i] # "down"
  /\ Goto(i, "down")
  /\ \/ holder' = IF holder = i THEN Orphan ELSE holder
     \/ pc[i] = "query" /\ holder = Free /\ holder' = Orphan
  /\ cancelled' = cancelled \ {i}
  /\ lost' = lost \ {i}
  /\ UNCHANGED <<faults, losses>>

\* Killed, or out of memory.
Crash(i) ==
  /\ crashes < MaxCrashes
  /\ crashes' = crashes + 1
  /\ Die(i)

\* Stop has returned and the process ends.
Exit(i) ==
  /\ pc[i] = "done"
  /\ Goto(i, "down")
  /\ cancelled' = cancelled \ {i}
  /\ UNCHANGED <<holder, lost, faults, losses, crashes>>

\* StartIngestors of a new process runs the loop.
Start(i) ==
  /\ pc[i] = "down"
  /\ Goto(i, "top")
  /\ UNCHANGED <<holder, cancelled, lost, faults, losses, crashes>>

\* The database notices that a client is gone and ends its transaction.
Reap ==
  /\ holder = Orphan
  /\ holder' = Free
  /\ UNCHANGED <<pc, cancelled, lost, faults, losses, crashes>>

\* The steps of Run itself, onWork apart.
RunStep(i) ==
  \/ Check(i)
  \/ Begin(i)
  \/ Acquire(i)
  \/ Busy(i)
  \/ Unlock(i)
  \/ Wake(i)

\* What the surroundings do, a process's death apart.
Environment(i) ==
  \/ BeginFails(i)
  \/ QueryFails(i)
  \/ Cancel(i)
  \/ SessionLost(i)
  \/ Exit(i)
  \/ Start(i)

ElectorNext ==
  \/ \E i \in Instances : RunStep(i) \/ FinishWork(i) \/ Environment(i) \/ Crash(i)
  \/ Reap

\* The loop runs on, onWork returns, and the database reaps dead sessions; no
\* fault, loss, crash, stop or start is ever due.
ElectorFairness ==
  /\ \A i \in Instances : WF_electorVars(RunStep(i)) /\ WF_electorVars(FinishWork(i))
  /\ WF_electorVars(Reap)

ElectorSpec == ElectorInit /\ [][ElectorNext]_electorVars /\ ElectorFairness

-----------------------------------------------------------------------------
\* The types of the variables; a session is lost under an instance at work, or
\* about to roll back, only.
ElectorTypeOK ==
  /\ pc \in [Instances -> Places]
  /\ holder \in Instances \cup {Free, Orphan}
  /\ cancelled \subseteq Instances
  /\ lost \subseteq {i \in Instances : pc[i] \in {"work", "unlock"}}
  /\ faults \in 0..MaxFaults
  /\ losses \in 0..MaxLosses
  /\ crashes \in 0..MaxCrashes

Working(i) == pc[i] = "work"

\* Two instances run onWork together only if one of them has lost the session
\* its lock was in: stopping, failing queries and dying processes never let a
\* second leader in (leader.go's comment on the background context).  An instance
\* that has left the loop or sleeps holds no lock: none but the database is needed
\* for another leader.
ExclusiveWork ==
  /\ \A i, j \in Instances :
       Working(i) /\ Working(j) /\ i # j => i \in lost \/ j \in lost
  /\ \A i \in Instances : pc[i] \notin {"work", "unlock"} => holder # i

\* The instances whose onWork is under the lock implement the abstract leader.
Abstract == INSTANCE Leadership WITH
              leaders <- {i \in Instances : Working(i) /\ i \notin lost}

LeadershipSpec == Abstract!Spec

\* While one instance stays up and is not stopped, there is work again and
\* again: no failed call, lost session or dead process blocks the lock for good.
Progress ==
  (\E i \in Instances : <>[](pc[i] # "down" /\ i \notin cancelled))
    => []<>(\E j \in Instances : Working(j))
=============================================================================
