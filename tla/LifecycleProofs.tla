--------------------------- MODULE LifecycleProofs ---------------------------
(***************************************************************************)
(* Proofs about Lifecycle for any set of instances and requests and any    *)
(* timeouts that LifecycleAssumption allows: nothing uses a database that  *)
(* is not ready, and the panic in Shutdown cuts nothing that could still   *)
(* be answered.  The election's part of a step is taken from               *)
(* ElectorProofs.                                                          *)
(***************************************************************************)
EXTENDS Lifecycle, ElectorProofs

\* What NewFactory has set up when main is at this place.
Before(place) ==
  CASE place \in {"off", "privateTables"} -> {}
    [] place = "seeds" -> {"privateTables"}
    [] place = "publicTables" -> {"privateTables", "seeds"}
    [] place = "indexes" -> {"privateTables", "seeds", "publicTables"}
    [] OTHER -> Schema

SetUpInv == \A i \in Instances : Before(life[i]) \subseteq schema

\* The handles are open from NewFactory to Close, and the loop runs between
\* StartIngestors and the return of StopIngestors only.
MainInv ==
  \A i \in Instances :
    /\ life[i] \notin {"off", "closing"} => open[i] = Databases
    /\ life[i] \in Booting \cup {"off", "caught"} => pc[i] = "down"
    /\ life[i] = "closing" => pc[i] = "done"

\* A request is on an instance only while this listens or drains.
ServingInv ==
  \A r \in Requests : request[r].at \in Pending =>
    life[request[r].on] \in {"serving", "draining", "waiting"}

\* While an instance drains, a request on it either has used up its time or has
\* aged with the wait, in its handler but for the time that its header took.
DrainInv ==
  /\ \A i \in Instances : life[i] \notin {"draining", "waiting"} => waited[i] = 0
  /\ \A r \in Requests : request[r].at \in Pending =>
       \/ request[r].age >= Limit(r)
       \/ request[r].at = "connected" /\ waited[request[r].on] <= request[r].age
       \/ request[r].at = "running" /\ waited[request[r].on] <= HeaderTimeout + request[r].age

LifeInv == LockInv /\ TypeOK /\ SetUpInv /\ MainInv /\ ServingInv /\ DrainInv

\* The invariant holds initially.
LEMMA LifeInit == Init => LifeInv
<1> SUFFICES ASSUME Init PROVE LifeInv
  OBVIOUS
<1>1. ElectorInv
  BY ElectorInitInv DEF Init
<1>2. TypeOK
  BY <1>1, LifecycleAssumption
    DEF Init, TypeOK, ElectorInv, Lives, Connections, Ended, Pending
<1>3. SetUpInv /\ MainInv /\ ServingInv /\ DrainInv
  BY DEF Init, ElectorInit, SetUpInv, Before, MainInv, Booting, Schema, ServingInv,
         DrainInv, Ended, Pending
<1> QED BY <1>1, <1>2, <1>3 DEF LifeInv, ElectorInv

\* What a step of the process does to the election is a step of the election, or
\* the panic in Shutdown.
LEMMA ElectionStep ==
  ASSUME [Next]_vars
  PROVE  [ElectorNext]_electorVars \/ \E i \in Instances : DrainTimeout(i)
<1>1. ASSUME NEW i \in Instances, MainStep(i), ~DrainTimeout(i)
      PROVE  [ElectorNext]_electorVars
  <2>1. \/ UNCHANGED electorVars
        \/ Start(i) \/ Cancel(i) \/ Exit(i)
    BY <1>1 DEF MainStep, StartIngestors, Listen, BeginShutdown, Poll, Drained, Stopped,
                Close, Return
  <2> QED BY <2>1 DEF ElectorNext, Environment
<1>2. ASSUME NEW i \in Instances,
             OpenDatabases(i) \/ SetUp(i) \/ CatchSignals(i) \/ Signal(i) \/ BootFails(i)
               \/ Kill(i) \/ Loop(i) \/ \E r \in Requests : Accept(i, r)
      PROVE  [ElectorNext]_electorVars
  <2>1. \/ UNCHANGED electorVars
        \/ Crash(i)
        \/ RunStep(i) \/ FinishWork(i) \/ BeginFails(i) \/ QueryFails(i) \/ SessionLost(i)
    BY <1>2 DEF OpenDatabases, SetUp, CatchSignals, Signal, BootFails, Kill, Loop, Accept
  <2> QED BY <2>1 DEF ElectorNext, Environment
<1>3. ASSUME \/ \E r \in Requests : Read(r) \/ Expire(r) \/ Answer(r)
             \/ ReapSession \/ Tick \/ UNCHANGED vars
      PROVE  [ElectorNext]_electorVars
  BY <1>3 DEF Read, Expire, Answer, ReapSession, Tick, vars, ElectorNext
<1> QED
  BY <1>1, <1>2, <1>3 DEF Next

\* Either keeps the election's invariant.
LEMMA ElectionKeeps ==
  ASSUME LifeInv, [Next]_vars
  PROVE  ElectorInv'
<1> USE DEF LifeInv, TypeOK, ElectorInv
<1>1. CASE [ElectorNext]_electorVars
  BY <1>1, ElectorTyping, ElectorLocking
<1>2. ASSUME NEW i \in Instances, DrainTimeout(i) PROVE ElectorInv'
  BY <1>2, DieKeeps DEF DrainTimeout, ElectorTypeOK
<1> QED BY <1>1, <1>2, ElectionStep

\* The loop's own steps leave a loop that has returned, or does not run, alone.
LEMMA LoopRuns ==
  ASSUME LifeInv, NEW i \in Instances, Loop(i), NEW j \in Instances,
         pc[j] \in {"down", "done"}
  PROVE  pc'[j] = pc[j]
BY DEF Loop, RunStep, Check, Begin, Acquire, Busy, Unlock, Wake, FinishWork, BeginFails,
       QueryFails, SessionLost, Goto, LifeInv, TypeOK, ElectorTypeOK

\* The death of a process, or its return, keeps the invariant of the others.
LEMMA GoneKeeps ==
  ASSUME LifeInv, NEW i \in Instances, Gone(i), pc' = [pc EXCEPT ![i] = "down"], ElectorInv'
  PROVE  LifeInv'
<1> USE DEF LifeInv, TypeOK
<1>1. \A j \in Instances : life'[j] = IF j = i THEN "off" ELSE life[j]
  BY DEF Gone, Enter
<1>2. \A r \in Requests : request'[r] = IF request[r].on = i THEN Ended("cut") ELSE request[r]
  BY DEF Gone, On
<1>3. \A r \in Requests : request'[r].at \in Pending =>
        request'[r] = request[r] /\ request[r].on \in Instances \ {i}
  BY <1>2, ElectorAssumption DEF Ended, Pending, Connections
<1>4. TypeOK'
  <2>1. request' \in [Requests -> Connections]
    BY <1>2 DEF Gone, Connections
  <2>2. \A r \in Requests : request'[r].at \in Pending => request'[r].age <= Limit(r)'
    BY <1>3 DEF Limit
  <2> QED BY <2>1, <2>2, LifecycleAssumption DEF Gone, Enter, Lives, ElectorInv
<1>5. SetUpInv'
  BY <1>1 DEF SetUpInv, Before, Gone
<1>6. MainInv'
  BY <1>1, LifecycleAssumption DEF MainInv, Gone, Booting, Schema, ElectorTypeOK
<1>7. ServingInv'
  BY <1>1, <1>3 DEF ServingInv
<1>8. DrainInv'
  <2>1. \A j \in Instances : waited'[j] = IF j = i THEN 0 ELSE waited[j]
    BY DEF Gone
  <2> QED BY <1>1, <1>3, <2>1 DEF DrainInv, Limit
<1> QED BY <1>4, <1>5, <1>6, <1>7, <1>8 DEF ElectorInv

-----------------------------------------------------------------------------
\* Starting: each step keeps the invariant.
LEMMA StartingKeeps ==
  ASSUME LifeInv, ElectorInv', NEW i \in Instances,
         \/ OpenDatabases(i) \/ SetUp(i) \/ CatchSignals(i) \/ StartIngestors(i) \/ Listen(i)
  PROVE  LifeInv'
<1> USE DEF LifeInv, TypeOK, ElectorInv, ElectorTypeOK
<1>1. UNCHANGED <<signalled, waited, request>>
  BY DEF OpenDatabases, SetUp, CatchSignals, StartIngestors, Listen
<1>2. /\ \A j \in Instances \ {i} : life'[j] = life[j] /\ open'[j] = open[j] /\ pc'[j] = pc[j]
      /\ schema \subseteq schema'
  BY DEF OpenDatabases, SetUp, CatchSignals, StartIngestors, Listen, Start, Enter, Goto,
         electorVars
<1>3. life[i] \in {"off", "ready", "caught", "started"} \cup Schema
  BY DEF OpenDatabases, SetUp, CatchSignals, StartIngestors, Listen
<1>4. TypeOK'
  BY <1>1, <1>3 DEF OpenDatabases, SetUp, CatchSignals, StartIngestors, Listen, Enter, Lives,
                    Following, Schema, Limit
<1>5. SetUpInv'
  BY <1>2 DEF SetUpInv, OpenDatabases, SetUp, CatchSignals, StartIngestors, Listen, Enter,
              Before, Following, Schema
<1>6. MainInv'
  BY <1>2 DEF MainInv, OpenDatabases, SetUp, CatchSignals, StartIngestors, Listen, Enter,
              Booting, Following, Schema, Start, Goto, electorVars
<1>7. ServingInv'
  BY <1>1, <1>2, <1>3 DEF ServingInv, Schema, Pending, Connections, Ended
<1>8. DrainInv'
  <2>1. life'[i] \notin {"draining", "waiting"} /\ waited[i] = 0
    BY <1>3, <1>2 DEF DrainInv, OpenDatabases, SetUp, CatchSignals, StartIngestors, Listen,
                    Enter, Following, Schema
  <2> QED BY <1>1, <1>2, <2>1 DEF DrainInv, Limit
<1> QED BY <1>4, <1>5, <1>6, <1>7, <1>8

\* Serving: each step keeps the invariant.
LEMMA ServingKeeps ==
  ASSUME LifeInv, ElectorInv', NEW r \in Requests,
         \/ \E i \in Instances : Accept(i, r)
         \/ Read(r) \/ Expire(r) \/ Answer(r)
  PROVE  LifeInv'
<1> USE LifecycleAssumption DEF LifeInv, TypeOK, ElectorInv, ElectorTypeOK
<1>1. UNCHANGED <<electorVars, life, open, schema, signalled, waited>>
  BY DEF Accept, Read, Expire, Answer
<1>2. /\ request' \in [Requests -> Connections]
      /\ \A q \in Requests \ {r} : request'[q] = request[q]
  BY ElectorAssumption DEF Accept, Read, Expire, Answer, Connections, Ended, Pending
<1>3. request'[r].at \in Pending =>
        /\ life[request'[r].on] \in {"serving", "draining", "waiting"}
        /\ request'[r].age = 0
        /\ \/ request'[r].at = "connected" /\ waited[request'[r].on] = 0
           \/ request'[r].at = "running" /\ waited[request'[r].on] <= HeaderTimeout
  <2>1. CASE \E i \in Instances : Accept(i, r)
    <3>1. PICK i \in Instances : Accept(i, r)
      BY <2>1
    <3>2. request'[r] = [at |-> "connected", on |-> i, age |-> 0] /\ life[i] = "serving"
      BY <3>1 DEF Accept
    <3> QED BY <3>2 DEF DrainInv
  <2>2. CASE Read(r)
    <3>1. request[r] \in [at : Pending, on : Instances, age : Nat]
      BY <2>2 DEF Read, Connections, Ended, Pending
    <3>2. request'[r] = [at |-> "running", on |-> request[r].on, age |-> 0]
      BY <2>2, <3>1 DEF Read
    <3>3. request[r].at = "connected" /\ request[r].at \in Pending /\ request[r].age < HeaderTimeout
      BY <2>2 DEF Read, Pending
    <3>4. life[request[r].on] \in {"serving", "draining", "waiting"}
      BY <3>3 DEF ServingInv
    <3>5. waited[request[r].on] <= request[r].age
      BY <3>1, <3>3 DEF DrainInv, Limit
    <3>6. waited[request[r].on] \in Nat /\ request[r].age \in Nat
      BY <3>1
    <3> QED BY <3>2, <3>3, <3>4, <3>5, <3>6
  <2>3. CASE Expire(r) \/ Answer(r)
    BY <2>3 DEF Expire, Answer, Ended, Pending
  <2> QED BY <2>1, <2>2, <2>3
<1>4. TypeOK'
  BY <1>1, <1>2, <1>3 DEF Limit
<1>5. SetUpInv' /\ MainInv'
  BY <1>1 DEF SetUpInv, MainInv, Before, electorVars
<1>6. ServingInv'
  BY <1>1, <1>2, <1>3 DEF ServingInv
<1>7. DrainInv'
  BY <1>1, <1>2, <1>3 DEF DrainInv, Limit
<1> QED BY <1>4, <1>5, <1>6, <1>7

\* Time passes: while an instance drains, its requests age with the wait.
LEMMA TickKeeps ==
  ASSUME LifeInv, ElectorInv', Tick
  PROVE  LifeInv'
<1> USE LifecycleAssumption DEF LifeInv, TypeOK, ElectorInv, ElectorTypeOK
<1>1. UNCHANGED <<electorVars, life, open, schema, signalled>>
  BY DEF Tick
<1>2. \A i \in Instances :
        /\ waited'[i] \in 0..DrainLimit
        /\ waited'[i] <= waited[i] + 1
        /\ life[i] \notin {"draining", "waiting"} => waited'[i] = waited[i]
  BY DEF Tick, Older
<1>3. \A r \in Requests : request[r].at \in Pending =>
        /\ request'[r] \in [at : Pending, on : Instances, age : Nat]
        /\ request'[r].at = request[r].at
        /\ request'[r].on = request[r].on
        /\ request'[r].age <= Limit(r)
        /\ request'[r].age = request[r].age + 1 \/ request'[r].age >= Limit(r)
  <2> SUFFICES ASSUME NEW r \in Requests, request[r].at \in Pending
               PROVE  /\ request'[r] \in [at : Pending, on : Instances, age : Nat]
                      /\ request'[r].at = request[r].at
                      /\ request'[r].on = request[r].on
                      /\ request'[r].age <= Limit(r)
                      /\ request'[r].age = request[r].age + 1 \/ request'[r].age >= Limit(r)
    OBVIOUS
  <2>1. request[r] \in [at : Pending, on : Instances, age : Nat] /\ Limit(r) \in Nat
    BY DEF Connections, Ended, Pending, Limit
  <2>2. request'[r] = [request[r] EXCEPT !.age = Older(request[r].age, Limit(r))]
    BY DEF Tick
  <2> QED BY <2>1, <2>2 DEF Older
<1>4. \A r \in Requests : request[r].at \notin Pending => request'[r] = request[r]
  BY DEF Tick
<1>5. TypeOK'
  <2>1. request' \in [Requests -> Connections]
    BY <1>3, <1>4 DEF Tick, Connections
  <2> QED BY <1>1, <1>2, <1>3, <1>4, <2>1 DEF Tick, Limit
<1>6. SetUpInv' /\ MainInv'
  BY <1>1 DEF SetUpInv, MainInv, Before, electorVars
<1>7. ServingInv'
  BY <1>1, <1>3, <1>4 DEF ServingInv
<1>8. DrainInv'
  <2>1. \A i \in Instances : life'[i] \notin {"draining", "waiting"} => waited'[i] = 0
    BY <1>1, <1>2 DEF DrainInv
  <2>2. ASSUME NEW r \in Requests, request'[r].at \in Pending
        PROVE  \/ request'[r].age >= Limit(r)'
               \/ request'[r].at = "connected" /\ waited'[request'[r].on] <= request'[r].age
               \/ /\ request'[r].at = "running"
                  /\ waited'[request'[r].on] <= HeaderTimeout + request'[r].age
    <3>1. request[r].at \in Pending /\ request[r].on \in Instances /\ request[r].age \in Nat
      BY <1>3, <1>4, <2>2 DEF Connections, Ended, Pending
    <3>2. Limit(r)' = Limit(r)
      BY <1>3, <3>1 DEF Limit
    <3> QED BY <1>2, <1>3, <3>1, <3>2 DEF DrainInv, Limit
  <2> QED BY <2>1, <2>2 DEF DrainInv
<1> QED BY <1>5, <1>6, <1>7, <1>8

\* Stopping: each step keeps the invariant.
LEMMA StoppingKeeps ==
  ASSUME LifeInv, ElectorInv', NEW i \in Instances,
         \/ Signal(i) \/ BeginShutdown(i) \/ Poll(i) \/ Drained(i) \/ Stopped(i) \/ Close(i)
  PROVE  LifeInv'
<1> USE LifecycleAssumption DEF LifeInv, TypeOK, ElectorInv, ElectorTypeOK
<1>1. UNCHANGED <<pc, schema, request>>
  BY DEF Signal, BeginShutdown, Poll, Drained, Stopped, Close, Cancel, electorVars
<1>2. /\ life' \in [Instances -> Lives]
      /\ \A j \in Instances \ {i} : life'[j] = life[j] /\ open'[j] = open[j] /\ waited'[j] = waited[j]
  BY DEF Signal, BeginShutdown, Poll, Drained, Stopped, Close, Enter, Lives
<1>3. TypeOK'
  BY <1>1, <1>2 DEF Signal, BeginShutdown, Poll, Drained, Stopped, Close, Limit
<1>4. SetUpInv'
  BY <1>1, <1>2 DEF SetUpInv, Signal, BeginShutdown, Poll, Drained, Stopped, Close, Enter,
                    Before
<1>5. MainInv'
  BY <1>1, <1>2 DEF MainInv, Signal, BeginShutdown, Poll, Drained, Stopped, Close, Enter,
                    Booting, Schema
<1>6. ServingInv'
  <2>1. CASE Drained(i)
    <3>1. \A r \in Requests : request[r].on # i
      BY <2>1 DEF Drained, On
    <3> QED BY <1>1, <1>2, <3>1 DEF ServingInv, Connections, Ended, Pending
  <2>2. CASE ~Drained(i)
    BY <1>1, <1>2, <2>2 DEF ServingInv, Signal, BeginShutdown, Poll, Stopped, Close, Enter,
                            Connections, Ended, Pending
  <2> QED BY <2>1, <2>2
<1>7. DrainInv'
  <2>1. waited'[i] = waited[i] \/ waited'[i] = 0
    BY DEF Signal, BeginShutdown, Poll, Drained, Stopped, Close
  <2>2. life'[i] \notin {"draining", "waiting"} => waited'[i] = 0
    BY DEF DrainInv, Signal, BeginShutdown, Poll, Drained, Stopped, Close, Enter
  <2>3. \A r \in Requests : request[r].at \in Pending =>
          /\ request[r].on \in Instances
          /\ request[r].age \in Nat
          /\ waited'[request[r].on] <= waited[request[r].on]
    BY <1>2, <2>1 DEF Connections, Ended, Pending
  <2>4. \A j \in Instances : waited[j] \in Nat /\ waited'[j] \in Nat
    BY <1>2, <2>1
  <2>5. \A j \in Instances : life'[j] \notin {"draining", "waiting"} => waited'[j] = 0
    BY <1>2, <2>2 DEF DrainInv
  <2>6. ASSUME NEW r \in Requests, request[r].at \in Pending, request[r].age < Limit(r)
        PROVE  \/ request[r].at = "connected" /\ waited'[request[r].on] <= request[r].age
               \/ /\ request[r].at = "running"
                  /\ waited'[request[r].on] <= HeaderTimeout + request[r].age
    <3>1. Limit(r) \in Nat
      BY DEF Limit
    <3> QED BY <2>3, <2>4, <2>6, <3>1 DEF DrainInv
  <2>7. \A r \in Requests : Limit(r) \in Nat /\ Limit(r)' = Limit(r)
    BY <1>1 DEF Limit
  <2> QED BY <1>1, <2>3, <2>5, <2>6, <2>7 DEF DrainInv
<1> QED BY <1>3, <1>4, <1>5, <1>6, <1>7

\* The election's own steps keep the invariant.
LEMMA LoopKeeps ==
  ASSUME LifeInv, ElectorInv', UNCHANGED lifeVars,
         \A i \in Instances : pc[i] \in {"down", "done"} => pc'[i] = pc[i]
  PROVE  LifeInv'
BY DEF LifeInv, TypeOK, ElectorInv, lifeVars, SetUpInv, Before, MainInv, Booting, ServingInv,
       DrainInv, Limit

\* The invariant is inductive.
THEOREM LifeInvariant == Spec => []LifeInv
<1>1. LifeInv /\ [Next]_vars => LifeInv'
  <2> SUFFICES ASSUME LifeInv, [Next]_vars
               PROVE  LifeInv'
    OBVIOUS
  <2>1. ElectorInv'
    BY ElectionKeeps
  <2>2. pc \in [Instances -> Places]
    BY DEF LifeInv, TypeOK, ElectorTypeOK
  <2>3. ASSUME NEW i \in Instances, MainStep(i) PROVE LifeInv'
    <3>1. CASE StartIngestors(i) \/ Listen(i)
      BY <2>1, <3>1, StartingKeeps
    <3>2. CASE BeginShutdown(i) \/ Poll(i) \/ Drained(i) \/ Stopped(i) \/ Close(i)
      BY <2>1, <3>2, StoppingKeeps
    <3>3. CASE DrainTimeout(i)
      BY <2>1, <3>3, GoneKeeps DEF DrainTimeout, Die, Goto
    <3>4. CASE Return(i)
      BY <2>1, <3>4, GoneKeeps DEF Return, Exit, Goto
    <3> QED BY <2>3, <3>1, <3>2, <3>3, <3>4 DEF MainStep
  <2>4. ASSUME NEW i \in Instances, OpenDatabases(i) \/ SetUp(i) \/ CatchSignals(i)
        PROVE  LifeInv'
    BY <2>1, <2>4, StartingKeeps
  <2>5. ASSUME NEW i \in Instances, Signal(i) PROVE LifeInv'
    BY <2>1, <2>5, StoppingKeeps
  <2>6. ASSUME NEW i \in Instances, BootFails(i) PROVE LifeInv'
    <3>1. pc' = [pc EXCEPT ![i] = "down"]
      BY <2>2, <2>6 DEF BootFails, LifeInv, MainInv, electorVars
    <3> QED BY <2>1, <2>6, <3>1, GoneKeeps DEF BootFails
  <2>7. ASSUME NEW i \in Instances, Kill(i) PROVE LifeInv'
    BY <2>1, <2>7, GoneKeeps DEF Kill, Crash, Die, Goto
  <2>8. ASSUME NEW i \in Instances, Loop(i) PROVE LifeInv'
    BY <2>1, <2>8, LoopRuns, LoopKeeps DEF Loop
  <2>9. ASSUME NEW r \in Requests,
               (\E i \in Instances : Accept(i, r)) \/ Read(r) \/ Expire(r) \/ Answer(r)
        PROVE  LifeInv'
    BY <2>1, <2>9, ServingKeeps
  <2>10. CASE ReapSession
    BY <2>1, <2>10, LoopKeeps DEF ReapSession, Reap
  <2>11. CASE Tick
    BY <2>1, <2>11, TickKeeps
  <2>12. CASE UNCHANGED vars
    BY <2>1, <2>12, LoopKeeps DEF vars, electorVars
  <2> QED
    BY <2>3, <2>4, <2>5, <2>6, <2>7, <2>8, <2>9, <2>10, <2>11, <2>12 DEF Next
<1> QED
  BY <1>1, LifeInit, PTL DEF Spec

\* The types of the variables.
THEOREM LifeTypes == Spec => []TypeOK
<1>1. LifeInv => TypeOK
  BY DEF LifeInv
<1> QED BY <1>1, LifeInvariant, PTL

\* No request and no loop uses a database that is not set up or not open.
THEOREM Ready == Spec => []DatabasesReady
<1>1. LifeInv => DatabasesReady
  <2> SUFFICES ASSUME LifeInv, NEW i \in Instances, On(i) # {} \/ pc[i] \notin {"done", "down"}
               PROVE  open[i] = Databases /\ schema = Schema
    BY DEF DatabasesReady
  <2>1. life[i] \notin Booting \cup {"off", "caught", "closing"}
    BY ElectorAssumption
      DEF LifeInv, TypeOK, MainInv, ServingInv, On, Connections, Ended, Pending, Booting, Schema
  <2> QED BY <2>1 DEF LifeInv, TypeOK, MainInv, SetUpInv, Before, Booting, Schema
<1> QED BY <1>1, LifeInvariant, PTL

\* The panic in Shutdown takes no request with it that could still be answered.
THEOREM CutsNothingAnswerable == Spec => AnswerableNotCut
<1>1. LifeInv => \A i \in Instances : DrainTimeout(i) =>
                   \A r \in On(i) : request[r].age >= Limit(r)
  <2> SUFFICES ASSUME LifeInv, NEW i \in Instances, DrainTimeout(i), NEW r \in On(i)
               PROVE  request[r].age >= Limit(r)
    OBVIOUS
  <2>1. r \in Requests /\ request[r].on = i /\ request[r].at \in Pending /\ request[r].age \in Nat
    BY ElectorAssumption DEF LifeInv, TypeOK, On, Connections, Ended, Pending
  <2>2. waited[i] >= DrainLimit /\ waited[i] \in Nat
    BY DEF LifeInv, TypeOK, DrainTimeout
  <2> QED BY <2>1, <2>2, LifecycleAssumption DEF LifeInv, DrainInv, Limit, Pending
<1> QED
  BY <1>1, LifeInvariant, PTL DEF Spec, AnswerableNotCut

\* The processes implement the abstract leader, however they start, drain, panic in
\* Shutdown, stop or are killed: none leads while another does, and a process that
\* dies with the lock leads no more before anyone else does.
THEOREM ProcessesLead == Spec => LeadershipSpec
<1>1. LifeInv /\ [Next]_vars => [Abstract!Next]_Leaders
  <2> SUFFICES ASSUME LifeInv, [Next]_vars PROVE [Abstract!Next]_Leaders
    OBVIOUS
  <2>1. ElectorInv
    BY DEF LifeInv, TypeOK, ElectorInv
  <2>2. CASE [ElectorNext]_electorVars
    BY <2>1, <2>2, LeaderStep
  <2>3. ASSUME NEW i \in Instances, DrainTimeout(i) PROVE [Abstract!Next]_Leaders
    BY <2>1, <2>3, DieLeads DEF DrainTimeout
  <2> QED BY <2>2, <2>3, ElectionStep
<1>2. Init => Abstract!Init
  BY LeadersInit DEF Init
<1> QED
  BY <1>1, <1>2, LifeInvariant, PTL DEF Spec, LeadershipSpec, Abstract!Spec, Leaders
=============================================================================
