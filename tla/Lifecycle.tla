------------------------------ MODULE Lifecycle ------------------------------
(***************************************************************************)
(* The life of a process: main.go, with NewFactory and Close of            *)
(* repository/factory, the ingestors' manager and net/http's server.  Each *)
(* instance opens and sets up the two databases, starts the election       *)
(* (Elector) and serves requests; a signal makes it drain the requests,    *)
(* stop the election and close the databases, in this order.               *)
(*                                                                         *)
(* net/http is external.  A connection is accepted while the server        *)
(* listens; its request is read within HeaderTimeout, and can be answered  *)
(* for WriteTimeout after that.  Handlers have no deadline of their own.   *)
(* Shutdown closes the listener and waits for the connections there are,   *)
(* for DrainLimit.  A timer never fires early, but may fire late.          *)
(***************************************************************************)
EXTENDS Elector

CONSTANTS
  Requests,       \* bound: the requests of a run
  HeaderTimeout,  \* ReadHeaderTimeout, 5 seconds
  WriteTimeout,   \* 10 seconds
  DrainLimit      \* the 30 seconds of main's context

ASSUME LifecycleAssumption ==
  /\ HeaderTimeout \in Nat
  /\ WriteTimeout \in Nat
  /\ DrainLimit \in Nat
  /\ HeaderTimeout + WriteTimeout <= DrainLimit

VARIABLES
  life,       \* life[i]: where main is in instance i
  open,       \* open[i]: the database handles of i
  schema,     \* what has been set up in the databases
  signalled,  \* the instances that a caught signal has reached
  waited,     \* waited[i]: for how long i has been in Shutdown
  request     \* request[r]: how far it is, on which instance, and for how long

lifeVars == <<life, open, schema, signalled, waited, request>>
vars == <<electorVars, lifeVars>>

Databases == {"private", "public"}

\* What NewFactory sets up: the tables of the private database and its seeds,
\* the tables of the public one and its indexes.
Schema == {"privateTables", "seeds", "publicTables", "indexes"}

\* No process; NewFactory is about to set up a part; it has returned; signals are
\* caught; the loop has been started; the server listens; Shutdown looks for
\* connections, has found some and waits; StopIngestors; Close.
Lives == {"off", "ready", "caught", "started", "serving", "draining",
          "waiting", "stopping", "closing"} \cup Schema

Booting == {"ready"} \cup Schema

Enter(i, place) == life' = [life EXCEPT ![i] = place]

\* A connection whose request has not been read, a request in its handler.
Pending == {"connected", "running"}
On(i) == {r \in Requests : request[r].on = i}

Ended(fate) == [at |-> fate, on |-> Free, age |-> 0]

Connections ==
  [at : Pending, on : Instances, age : Nat]
    \cup {Ended(fate) : fate \in {"new", "dropped", "answered", "unheard", "cut"}}

Init ==
  /\ ElectorInit
  /\ life = [i \in Instances |-> "off"]
  /\ open = [i \in Instances |-> {}]
  /\ schema = {}
  /\ signalled = {}
  /\ waited = [i \in Instances |-> 0]
  /\ request = [r \in Requests |-> Ended("new")]

-----------------------------------------------------------------------------
(* Starting.                                                               *)

\* NewFactory opens both databases, or fails and closes what it has opened.
OpenDatabases(i) ==
  /\ life[i] = "off"
  /\ open' = [open EXCEPT ![i] = Databases]
  /\ Enter(i, "privateTables")
  /\ UNCHANGED <<electorVars, schema, signalled, waited, request>>

Following(part) ==
  CASE part = "privateTables" -> "seeds"
    [] part = "seeds" -> "publicTables"
    [] part = "publicTables" -> "indexes"
    [] part = "indexes" -> "ready"

\* Every part is set up where it is missing ("IF NOT EXISTS").
SetUp(i) ==
  /\ life[i] \in Schema
  /\ schema' = schema \cup {life[i]}
  /\ Enter(i, Following(life[i]))
  /\ UNCHANGED <<electorVars, open, signalled, waited, request>>

\* signal.Notify.
CatchSignals(i) ==
  /\ life[i] = "ready"
  /\ Enter(i, "caught")
  /\ UNCHANGED <<electorVars, open, schema, signalled, waited, request>>

StartIngestors(i) ==
  /\ life[i] = "caught"
  /\ Start(i)
  /\ Enter(i, "started")
  /\ UNCHANGED <<open, schema, signalled, waited, request>>

\* ListenAndServe, in a goroutine: after Shutdown it does not listen.
Listen(i) ==
  /\ life[i] = "started"
  /\ Enter(i, "serving")
  /\ UNCHANGED <<electorVars, open, schema, signalled, waited, request>>

-----------------------------------------------------------------------------
(* Serving.                                                                *)

Accept_Always(i, r) ==
  /\ life[i] \in {"serving", "draining", "waiting"}
  /\ request[r].at = "new"
  /\ request' = [request EXCEPT ![r] = [at |-> "connected", on |-> i, age |-> 0]]
  /\ UNCHANGED <<electorVars, life, open, schema, signalled, waited>>

Accept(i, r) ==
  /\ life[i] = "serving"
  /\ request[r].at = "new"
  /\ request' = [request EXCEPT ![r] = [at |-> "connected", on |-> i, age |-> 0]]
  /\ UNCHANGED <<electorVars, life, open, schema, signalled, waited>>

\* The header has been read and the handler runs, in Shutdown too.
Read(r) ==
  /\ request[r].at = "connected"
  /\ request[r].age < HeaderTimeout
  /\ request' = [request EXCEPT ![r].at = "running", ![r].age = 0]
  /\ UNCHANGED <<electorVars, life, open, schema, signalled, waited>>

Expire(r) ==
  /\ request[r].at = "connected"
  /\ request[r].age >= HeaderTimeout
  /\ request' = [request EXCEPT ![r] = Ended("dropped")]
  /\ UNCHANGED <<electorVars, life, open, schema, signalled, waited>>

Answer_KeepsConnection(r) ==
  /\ request[r].at = "running"
  /\ request' = [request EXCEPT ![r].at =
                   IF request[r].age < WriteTimeout THEN "answered" ELSE "unheard"]
  /\ UNCHANGED <<electorVars, life, open, schema, signalled, waited>>

\* The handler returns; after WriteTimeout nobody hears of it.
Answer(r) ==
  /\ request[r].at = "running"
  /\ request' = [request EXCEPT ![r] =
                   Ended(IF request[r].age < WriteTimeout THEN "answered" ELSE "unheard")]
  /\ UNCHANGED <<electorVars, life, open, schema, signalled, waited>>

Limit(r) == IF request[r].at = "connected" THEN HeaderTimeout ELSE WriteTimeout

\* Ages are told apart up to the limit that matters.
Older(n, limit) == IF n < limit THEN n + 1 ELSE limit

\* Time passes.
Tick ==
  /\ waited' = [i \in Instances |->
                  IF life[i] \in {"draining", "waiting"}
                  THEN Older(waited[i], DrainLimit)
                  ELSE waited[i]]
  /\ request' = [r \in Requests |->
                   IF request[r].at \in Pending
                   THEN [request[r] EXCEPT !.age = Older(@, Limit(r))]
                   ELSE request[r]]
  /\ UNCHANGED <<electorVars, life, open, schema, signalled>>

-----------------------------------------------------------------------------
(* Stopping.                                                               *)

\* A signal that main catches waits in its channel; later ones have no effect.
Signal(i) ==
  /\ life[i] \in {"caught", "started", "serving"}
  /\ signalled' = signalled \cup {i}
  /\ UNCHANGED <<electorVars, life, open, schema, waited, request>>

BeginShutdown(i) ==
  /\ life[i] \in {"started", "serving"}
  /\ i \in signalled
  /\ Enter(i, "draining")
  /\ UNCHANGED <<electorVars, open, schema, signalled, waited, request>>

\* Shutdown finds connections that are in use, and looks again from time to time.
Poll(i) ==
  /\ life[i] = "draining"
  /\ On(i) # {}
  /\ Enter(i, "waiting")
  /\ UNCHANGED <<electorVars, open, schema, signalled, waited, request>>

\* It finds none and returns; StopIngestors cancels the loop's context.
Drained(i) ==
  /\ life[i] \in {"draining", "waiting"}
  /\ On(i) = {}
  /\ Cancel(i)
  /\ Enter(i, "stopping")
  /\ waited' = [waited EXCEPT ![i] = 0]
  /\ UNCHANGED <<open, schema, signalled, request>>

\* StopIngestors only cancels the context.
Stopped_NoWait(i) ==
  /\ life[i] = "stopping"
  /\ Enter(i, "closing")
  /\ UNCHANGED <<electorVars, open, schema, signalled, waited, request>>

\* StopIngestors returns: the loop has.
Stopped(i) ==
  /\ life[i] = "stopping"
  /\ pc[i] = "done"
  /\ Enter(i, "closing")
  /\ UNCHANGED <<electorVars, open, schema, signalled, waited, request>>

\* Close: the private database, then the public one.
Close(i) ==
  /\ life[i] = "closing"
  /\ \E d \in open[i] :
       /\ d = "public" => "private" \notin open[i]
       /\ open' = [open EXCEPT ![i] = @ \ {d}]
  /\ UNCHANGED <<electorVars, life, schema, signalled, waited, request>>

\* The process is gone, and with it all it held and all it was asked.
Gone(i) ==
  /\ Enter(i, "off")
  /\ open' = [open EXCEPT ![i] = {}]
  /\ signalled' = signalled \ {i}
  /\ waited' = [waited EXCEPT ![i] = 0]
  /\ request' = [r \in Requests |-> IF r \in On(i) THEN Ended("cut") ELSE request[r]]
  /\ UNCHANGED schema

\* main returns.
Return(i) ==
  /\ life[i] = "closing"
  /\ open[i] = {}
  /\ Exit(i)
  /\ Gone(i)

\* NewFactory fails and main panics, or a signal or a crash ends a process that
\* does not catch signals yet.
BootFails(i) ==
  /\ life[i] \in Booting
  /\ Gone(i)
  /\ UNCHANGED electorVars

DrainTimeout_Never(i) == FALSE /\ UNCHANGED vars

\* Shutdown gives up, even if the last connection has ended since it looked, and
\* main panics: the loop is not stopped and the databases are not closed.
DrainTimeout(i) ==
  /\ life[i] = "waiting"
  /\ waited[i] >= DrainLimit
  /\ Die(i)
  /\ UNCHANGED crashes
  /\ Gone(i)

\* The process is killed, or panics because ListenAndServe fails.
Kill(i) ==
  /\ Crash(i)
  /\ Gone(i)

-----------------------------------------------------------------------------
\* The steps of the election that main has no part in.
Loop(i) ==
  /\ RunStep(i) \/ FinishWork(i) \/ BeginFails(i) \/ QueryFails(i) \/ SessionLost(i)
  /\ UNCHANGED lifeVars

ReapSession == Reap /\ UNCHANGED lifeVars

\* The steps of main from the moment it catches signals.
MainStep(i) ==
  \/ StartIngestors(i)
  \/ Listen(i)
  \/ BeginShutdown(i)
  \/ Poll(i)
  \/ Drained(i)
  \/ DrainTimeout(i)
  \/ Stopped(i)
  \/ Close(i)
  \/ Return(i)

Next ==
  \/ \E i \in Instances :
       \/ OpenDatabases(i)
       \/ SetUp(i)
       \/ CatchSignals(i)
       \/ MainStep(i)
       \/ Signal(i)
       \/ BootFails(i)
       \/ Kill(i)
       \/ Loop(i)
       \/ \E r \in Requests : Accept(i, r)
  \/ \E r \in Requests : Read(r) \/ Expire(r) \/ Answer(r)
  \/ ReapSession
  \/ Tick

\* main, the loop, the clock and the server go on, and onWork returns.  No
\* handler has to return, no process to start and no signal to come.
Fairness ==
  /\ \A i \in Instances :
       /\ WF_vars(MainStep(i))
       /\ WF_vars((RunStep(i) \/ FinishWork(i)) /\ UNCHANGED lifeVars)
  /\ \A r \in Requests : WF_vars(Expire(r))
  /\ WF_vars(ReapSession)
  /\ WF_vars(Tick)

Spec == Init /\ [][Next]_vars /\ Fairness

-----------------------------------------------------------------------------
\* The types of the variables; a request is on an instance while it is pending.
TypeOK ==
  /\ ElectorTypeOK
  /\ life \in [Instances -> Lives]
  /\ open \in [Instances -> SUBSET Databases]
  /\ schema \subseteq Schema
  /\ signalled \subseteq Instances
  /\ waited \in [Instances -> 0..DrainLimit]
  /\ request \in [Requests -> Connections]
  /\ \A r \in Requests : request[r].at \in Pending => request[r].age <= Limit(r)

\* Whoever uses a database finds both open and set up, the unique index on
\* reports included: no request is in a handler and no loop runs before NewFactory
\* has returned or after Close has begun, also when instances start together and
\* some of them fail half-way.
DatabasesReady ==
  \A i \in Instances :
    On(i) # {} \/ pc[i] \notin {"done", "down"} => open[i] = Databases /\ schema = Schema

\* The panic after DrainLimit takes no request with it that could still have
\* been answered, or still been read: the limit is longer than both timeouts.
AnswerableNotCut ==
  [][\A i \in Instances : DrainTimeout(i) =>
       \A r \in On(i) : request[r].age >= Limit(r)]_vars

\* A process that caught a signal ends, also when a handler never returns.
SignalEnds == \A i \in Instances : i \in signalled ~> life[i] = "off"

\* While one instance goes on serving there is work again and again: no process
\* that stops, panics in Shutdown or is killed takes the lock away for good.
WorkGoesOn ==
  (\E i \in Instances : <>[](life[i] = "serving" /\ i \notin signalled))
    => []<>(\E j \in Instances : Working(j))
=============================================================================
