# A TLA+ verification of reverse-watch

reverse-watch is a service (Go, PostgreSQL, GORM) in which marketplaces report
Steam accounts that reversed a trade. It files reports, lets marketplaces
expunge them and admins correct or erase them, answers whether an account has
reversed, and ingests the reports of CSFloat itself. Up to four instances of it
run behind a load balancer (`deploy/reverse-watch-service.yaml`) on two shared
databases: a public one (`reversals`, `search_counts`) and a private one
(`keys`, `marketplaces`, `admin_audits`).

This directory holds TLA+ modules of its parts, TLC configurations that check
them on small instances, and TLAPS proofs of the properties that matter most
for every size. Paths below are relative to the repository.

## Reading and running

    tlc -workers 2 -config MCElector.cfg MCElector     # one run
    tlapm ElectorProofs.tla                            # the proofs of one module

`PROJECT.json` lists the components, the runs, the lines each definition
translates, the hazards, the findings, the theorems, and for each property a
plausible bug of the code (`..._` definitions such as `Below_Inclusive`) under
which TLC finds the property violated.

## The system's parts

| Part | State | Operations | Talks to | What is hard |
|---|---|---|---|---|
| Snowflake identifiers, `domain/models/snowflake.go` | `lastTime`, `sequence`, numbers of worker and process | `generate`, `ParseSnowflake` | called by `BeforeCreate` of every model | clocks that step back, the sequence wrapping, several instances with the same numbers |
| Leader election, `leader/leader.go` | an advisory lock held by a transaction | `Run`, `tryAdvisoryLock`, `waitUntilNextBoundary` | the public database; calls `onWork` | lost sessions, failing queries, stop during work, crashes |
| CSFloat ingestor, `ingestors/csfloat`, `ingestors/manager.go` | none but the newest row in `reversals` | `Start`, `Stop`, `sync`, `fetch`, `process` | the election calls `sync`; CSFloat's API; the public database | resuming after a failure, two leaders at once, API reports of the same accounts |
| Reports, `api/v1/reversals`, `api/v1/admin/{reversals,users}`, `repository/public` | `reversals` | create, expunge, modify, delete, erase | the public database, and the private one for audits | reads that lock nothing, changes and audits in two databases |
| Listing and export, `api/v1/reversals`, `domain/dto/cursor.go` | none; the cursor travels with the client | `listReversals` | the public database | the table changes between two pages; rows appear out of the order of their identifiers |
| Keys and marketplaces, `api/v1/admin/{keys,marketplace}`, `api/v1/marketplace`, `repository/private` | `keys`, `marketplaces`, `admin_audits` | onboard, update, drop, create and delete keys | the private database | a key revoked while its request runs, guards that hold for one request at a time |
| Authentication, `middleware` | none | `AuthMiddleware`, `RequirePermissions` | two reads of the private database | what it checked is stale when the handler acts |
| Start-up, `repository/factory`, `repository/private/private.go` | none | migrate, seed | both databases | two instances starting together |
| User status and searches, `api/v1/users`, `repository/public/searchcount.go` | `search_counts` | `fetchUserStatus`, `Increment` | the public database | the order of identifiers is not the order of reversals; upserts that race |
| Statistics, `api/v1/stats` | none | aggregate queries | the public database | days without reports, the edges of the window, every instance's own clock |
| Rate limits, `ratelimit` | token buckets in memory, one per route and process | `Allow` | before authentication | each instance counts alone |
| Life cycle, `main.go`, `server` | what runs | start, shut down | all parts | requests in flight, ingestors and databases stop in an order |
| Secrets, value types, rendering, configuration, logging, the static page | none | pure | | |

### What makes each part correct

* Identifiers: in the order of time, never repeated.
* Election: `onWork` on one instance at a time; the lock is always freed; a
  stopped instance leaves.
* Ingestor: the cursor never passes a warning that is not reported, and every
  warning is reported in the end.
* Reports: one standing report per account and marketplace; expunged, deleted
  and erased for good; only the owner or an admin expunges; an audit tells of a
  change that was made.
* Listing: a walk repeats nothing, skips nothing and ends.
* Keys: what is revoked stays out, every key has a legitimate origin, csfloat
  keeps a key, the audit trail is exact.
* Status, recent reports, statistics: four queries over one table agree on who
  has reversed, whatever the clocks of the instances that answer; every search
  is counted; the time of a status is that of a report; no report falls between
  two days.
* Life cycle: nothing runs before the databases are set up or after they are
  closed, also when instances start together and some fail half-way; the drain
  limit cuts off nothing that could still be answered; a stopped process ends
  and its work passes on.

## The modules

| Module | Models | Checked by | Proved in |
|---|---|---|---|
| `Snowflake` | `domain/models/snowflake.go` | `MCSnowflake` | `SnowflakeProofs` |
| `Leadership` | what an election promises | as a property of `MCElector` | `ElectorProofs`, and again for `Ingestor` and `Lifecycle` in `IngestorProofs` and `LifecycleProofs` (refinement) |
| `Elector` | `leader/leader.go` | `MCElector` | `ElectorProofs` |
| `Delivery` | what the ingestor promises the table of reports | as a property of `MCIngestor` | `IngestorProofs` (refinement) |
| `Ingestor` | `ingestors/csfloat` inside the election (EXTENDS `Elector`) | `MCIngestor` | `IngestorProofs` |
| `Lifecycle` | `main.go`, `NewFactory` and `Close`, the manager, the server, around the election (EXTENDS `Elector`) | `MCLifecycle` | `LifecycleProofs` |
| `Registry` | what the table of reports promises its readers | as a property of `MCReversals` | `ReversalsProofs` (refinement) |
| `Reversals` | every handler that changes a report | `MCReversals` | `ReversalsProofs` |
| `Paging` | `listReversals` and a client's walk over its pages | `MCPaging` | `PagingProofs` |
| `Status` | the public read-only endpoints over the table of reports | `MCStatus` | `StatusProofs` |
| `Authority` | what the private database promises about keys | as a property of `MCAccess` | `AccessProofs` (refinement) |
| `Access` | authentication, keys, marketplaces, seeding | `MCAccess` | `AccessProofs` |

`Ingestor` and `Lifecycle` are the two sides of one election: the first has
`onWork` in detail and leaves the process around it to `Cancel`, `Die`, `Exit` and
`Start`; the second has the process and leaves `onWork` one step. `IngestorProofs`
and `LifecycleProofs` both build on the lemmas of `ElectorProofs`.

### Snowflake

`lastTime` and `sequence` are the fields of a `SnowflakeGenerator`; the mutex
makes `generate` one step, split by its branches: `GenerateBehind` (the clock
moved backwards: an error), `GenerateSameMilli` (the next sequence number, or
the error "sequence exhausted") and `GenerateNewMilli`. `Pack` and
`ParseSnowflake` do the bit layout with arithmetic. The clocks belong to the
machines (`Tick`, `StepBack`) and move as they like. `issued` and `exhausted`
are history.

### Elector and Leadership

`pc[i]` is where instance `i` is in `Run`: the select at the `top`, `begin`,
the lock `query`, `work`, the deferred rollback `unlock`, the deferred `wait`, or
`down` before `Start` and after `Die` (the process is gone, and its session
lingers if it held the lock) or `Exit` (main returns after the loop has).
`holder` is the session that has the advisory lock. A session may be lost while
it holds the lock (`SessionLost`): the lock is free and `onWork` runs on. A
query may fail after the database granted the lock, and a process may die: the
session then is an `Orphan` that holds the lock until PostgreSQL reaps it
(`Reap`). `Cancel` is `Stop`; the transaction is begun on a background context,
so it does not free the lock, which is what the comment at `leader.go:36` is
about. `Leadership` has one variable, the set of leaders, and is implemented by
the instances that work and have not lost their session. That a lost session
leaves two instances at work is a limit of the design (nothing tells `onWork`),
which `ExclusiveWork` states and `Ingestor` copes with.

### Ingestor and Delivery

EXTENDS `Elector`: `sync()` is the election's `onWork`, so every step of it
interleaves with lost sessions, stops, crashes and the other instance's steps.
The table is reduced to its live csfloat rows, `live[account]`, one per account
as the partial unique index has it, each with the warning it came from or
`NoRid` when CSFloat filed it through the API. `Resume` is the query at the
head of `sync`, NULLs first, as PostgreSQL orders them descending. `Insert`
handles one warning: created, skipped as a duplicate, skipped because its
generated identifier is taken (`passed`), refused by `BeforeCreate`, or failed.
CSFloat is external: it serves the settled warnings above the cursor in
ascending order, as `fetch` relies on, or does not answer at all.
`Delivery` has only what the table shows: the settled warnings, the reports and
what was removed or passed over. A warning is filed, or passed over, only when
every warning before it has been dealt with. It knows of no leader, page or
crash; that the ingestors of all instances together implement it
(`DeliversInOrder`) rests on `process` taking the feed in order and stopping at
the first error that is not a duplicate, and on every sync resuming from a row
of the table.

### Lifecycle

`life[i]` is where `main` is in instance `i`: the four parts that `NewFactory` sets
up (`Schema`), `ready`, `caught` (after `signal.Notify`), `started`, `serving`,
`draining` and `waiting` in `Shutdown`, `stopping` in `StopIngestors`, `closing`. The
schema belongs to the databases and outlives the processes; `BootFails` and
`Kill` may end one between any two parts. `request[r]` goes from `connected`
(accepted, its header not read) to `running` (in its handler); `age` counts the
time it has been there, and `waited[i]` the time `Shutdown` has taken. net/http is
external: `Accept`, `Read`, `Expire`, `Answer` are what the service relies on.
`Shutdown` looks for connections from time to time, so `DrainTimeout` may come
although the last one has just ended. It panics in `main`: the loop dies in the
middle of its work and `Close` is not called (`Gone`). The CSFloat ingestor is
taken to be enabled, so that every process runs the election.

### Registry and Reversals

A request of `Reversals` goes through the statements of its handler in steps,
with the row that it read in `seen[r]`; the other requests run in between.
`ExpungeRead` and `ExpungeCommit` are the two statements of a READ COMMITTED
transaction that locks nothing when it reads. The admin handlers commit the
change in the public database and then write the audit in the private one
(`Audit`), and `modifyReversal` reads the row back (`ReadBack`). That an update sets
`reversed_at` makes it one that is valid (`time`); to what it sets it is in `Status`. `Break` stops a
handler anywhere: a failing statement or the death of the process.
`Registry` is the abstract table: filed once, expunged, removed, erased, each
for good. `KeepsRegistry` is the refinement, row by row.

### Paging

`rows` changes as the handlers change it (`File`, `Remove`, `Erase`);
identifiers are generated before their rows are committed and by any instance,
so `File` takes any unused identifier, also one below a walk's cursor.
`ReadPage` is one request: one SELECT of the newest `limit` matching rows below
the cursor, and the next cursor, left out of a page that is empty or not full.
`kept` is history: the matching reports that were there from the first page on.

### Status

`rows[id]` is a report with its account, its `reversed_at`, and whether it is
expunged or deleted. The client chooses `reversed_at` when it files (`ReversedAt`:
none after the clock of the instance that files, 0 is that clock), and an admin
may change it (`Modify`, `ModifiedAt`: from `Epoch` to the clock of the instance that
validates); identifiers say nothing of it. No two instances need show the same
time, and a clock may be stepped back, so every action that reads a clock takes any time of
`Clock`, and so do the queries; no report is "in the future" or not, but by some
clock. `stamped` is history: the latest clock by which a report was filed or
moved.

The queries are operators, each with the filter it has in the code: `Listed`,
`Visited` and `LastReversal` for `fetchUserStatus` (GORM's `deleted_at IS NULL`, and
the loop's look at `ExpungedAt`), `Recent` for `listRecentHandler` (GORM's, and
`ExcludeExpunged`), `Flagged`, `Flagged24h` and `Total` for `SummaryStats`, and
`DailyCounts` (their SQL names both). What takes two statements is a request:
`ReadClock` and then `CountDays`, between which the table changes and midnight may
pass; `LookUp` and then the upsert of `Increment`, as PostgreSQL carries it out: it
finds no row (`FindNone`) and inserts one unless another request has by then
(`InsertSearch`), or updates the one there is (`UpdateSearch`), or fails before its
commit (`CountFails`). Time is in parts
of a day.

### Access and Authority

A request goes through `LookUpKey`, `Permitted`, `LookUpMarketplace` and then
the statements of its handler with the key it came with. `DropMarketplace`
holds the rows it has updated until it commits (`Locked`); `taken[r]` are the keys
that the transaction of `r` deletes, before and after its commit. `boot[i]`
is how far an instance has started: `SeedMarketplaces`, `CheckAdmin`,
`SeedAdmin`. `dead[r]` is history: keys that were beyond use when `r` arrived.
That the keys of the first databases belong to marketplaces of the table is the
foreign key of `keys`.
`Authority` knows of a request only which key it acted with, once it has
(`acted[r]`): a key is granted once, for terms that never change, by the seed or
in a request whose own key may manage the marketplace; it is revoked in a request
whose own key may, and is another; a marketplace is opened, switched and closed
in a request with an admin key, once opened only once, and closed for good. A
request acts once.
`KeepsAuthority` maps a row of `keys` to its terms (`Granted`), its deletion to
`Revoked`, and the key that a request with an effect came with to `Acted`. The
authority is that of this key: it may have been revoked since the request was let
in, which is as much as the code promises.

## What the runs check and show

Each passing run ends well within five minutes with two workers.

| Run | Instance | Shows |
|---|---|---|
| `snowflake` | 2 generators (worker 0 and 33, which is 1 in five bits), 3 identifiers per millisecond, clocks 0..3, 4 identifiers each | ordered by time, unique outside exhausted milliseconds, disjoint for different numbers |
| `snowflake_fleet` (violation) | two generators with worker and process 0 | `main.go:25` gives every instance these numbers: two instances issue the same identifier in one millisecond |
| `elector` | 3 instances, one failing call, one lost session, one crash | the only way to two leaders is a lost session, and an idle instance holds no lock (`ExclusiveWork`); `Leadership` is implemented; work goes on |
| `ingestor_safety` | 2 instances, 3 warnings about 2 accounts, pages of 2, one fault, one lost session, one API report, one removal, one identifier collision | nothing before the cursor is missed; without a lost session and API reports, rows are inserted above all others; `Delivery` is implemented |
| `ingestor_liveness` | 2 instances, 4 warnings about 3 accounts (the first two about the same one), the last refused; one fault, one crash; CSFloat may never answer | if CSFloat answers, every settled warning before the refused one is reported; a stopped instance leaves, also while CSFloat does not answer |
| `ingestor_api` (violation) | as `ingestor_safety` without a collision | a report that CSFloat filed through the API sorts first (NULL) and every sync starts over |
| `reversals` | 3 requests of all kinds, two first reports, batches of one and two, four identifiers | what a client was told stands; audits and changes agree; only the owner expunges; sources stay consistent; `Registry` is implemented |
| `reversals_once` (violation) | the same | two concurrent requests expunge one report, both told that they did |
| `paging` | 1 walk, 3 identifiers, 2 accounts, 2 marketplaces, pages of none, one or two | pages descend and skip nothing, and the walk ends |
| `access` | 2 requests of all kinds, 2 instances starting, an empty or an established database, 5 keys | what was revoked at arrival is not let in; `Authority` is implemented; exact audits, no key deleted twice, csfloat keeps a key but for a race |
| `lifecycle` | 2 instances, 1 request, timeouts of 2 and 1, a drain limit of 3, one crash, no other fault of the election | databases are ready for whoever uses them, the drain limit cuts nothing answerable, a signalled process ends, work goes on while an instance serves |
| `status` | 3 reports of 2 accounts, days of two parts, clocks of 1..3, `Epoch` 2, 2 requests, windows of 1 and 2 days | the endpoints agree on who has reversed, and on the last 24 hours whatever their clocks; committed searches are in the summary; the time of a status is sound; days add up |

### Why the bounds are enough

* Snowflake: three identifiers and four milliseconds let the sequence wrap, the
  clock step back behind and return, and a wrap be followed by another call.
  The proofs drop the bounds on generators and on the sequence space.
* Elector: three instances are a leader that was, one that is and one that
  wants to be. One failure of each kind, in any order, already gives every
  combination of orphaned lock, lost session and dead process. The proofs drop
  these bounds.
* Ingestor: three warnings are a full page and a rest; two are about the same
  account, so that duplicates occur. Two instances overlap in one table.
* Reversals: three requests are two that race and one that comes after either.
* Paging: with pages of two, two reports are a last page that is exactly full
  and three are a full page and a rest; with pages of one there are three. One
  walk is enough as walks only share the table, which changes freely in
  between; the proofs have any number of both.
* Access: two requests race; with `MaxKey` 5 each can create a key besides the
  three of the established database. Three requests exceed what TLC does in
  five minutes.

* Lifecycle: two instances are one that stops, panics or dies while another
  starts or goes on. The drain limit is exactly the sum of the timeouts, the
  least that `LifecycleAssumption` allows (30 seconds against 5 and 10 in the
  code), so that a request read at the last moment uses all of it. Faults and
  lost sessions are in `elector`. The proofs drop these bounds.
* Status: three reports are an account with an expunged report above and below
  a standing one, or two accounts. With days of two parts and times up to 3
  there are two days, so that a window of one has reports before it or after
  it, 24 hours lie in two days, and midnight can pass while a request runs.
  Clients can file before `Epoch`, admins cannot move a report there. Two requests
  race to insert the first count of an account. The proofs drop these bounds.

Instances, accounts and requests are interchangeable in `ingestor_safety`,
`reversals`, `access` and `status`, which check safety only and use symmetry;
`elector`, `ingestor_liveness`, `paging` and `lifecycle` check liveness and do not.

TLC does not look for deadlocks in the runs whose system may stop: all
instances stopped (`elector`, `ingestor_*`), all requests answered
(`reversals`), or all identifiers used and all walks done (`paging`).

### Fairness

* `Elector`: every instance that is up takes its next step (the loop has a
  timer and no other wait), `onWork` returns, and PostgreSQL reaps dead
  sessions. Nothing is assumed of stops, faults, lost sessions and crashes, nor
  that a restarted process comes back.
* `Ingestor`: each step of `sync` is taken but the answer of CSFloat, which is
  not due: the HTTP client has no timeout, and a request ends for sure only
  when its context is cancelled. `StopEnds` holds all the same. `Delivered` has
  premises: no request hangs for ever, one instance stays up, and instances are
  not stopped again and again (one that always is stopped and started at the
  wrong moment keeps the lock from the other).
* `Lifecycle`: from the moment `main` catches signals it takes its next step, and so
  do the loop and its work, the clock, PostgreSQL's reaping, and net/http's
  closing of connections whose header did not come. No handler has to return,
  no process to start or restart, and no signal to come.
* `Paging`: a client that walks goes on asking.
* `Snowflake`, `Reversals`, `Access`, `Status`: safety only. A handler may stop
  anywhere.

## What is proved

All proofs are checked by TLAPS, from the named assumptions on the constants
(`SnowflakeAssumption` and so on: generators have natural numbers, `Free` and
`Orphan` are no instances, limits are natural numbers, the first rows are rows,
the drain limit is not below the sum of the timeouts) and from nothing else. TLC
evaluates the assumptions in every run.

* **`SnowflakeProofs`**: for any number of generators, any clocks, epoch and
  sequence space up to 4096. The inductive invariant is `TypeOK`, `Stamped`
  (what a generator has issued carries its numbers and a time not after
  `lastTime`, and a sequence number not above the present one in the present
  millisecond unless it was exhausted), `TimeOrdered` and `UniqueOutsideBursts`.
  The two properties alone are not inductive: that a new identifier is greater
  than the old ones follows from how the old ones relate to `lastTime` and
  `sequence`, which is `Stamped`. The lemmas about `Pack` and `ParseSnowflake`
  show that the fields of the layout do not overlap; `Provenance` and
  `Disjoint` follow.
* **`ElectorProofs`**: for any instances and any numbers of faults. The
  inductive invariant is `ElectorTypeOK` with `LockInv`: an instance at work or
  about to roll back holds the lock unless its session is lost, and only such
  an instance holds it. `ExclusiveWork` follows, and the implementation of
  `Leadership`: `Acquire` is an election, `FinishWork`, `SessionLost` and `Crash`
  retire a leader, all else stutters. The step (`LeaderStep`) is a lemma about
  `ElectorNext` and `electorVars`, so that it also holds of what extends the
  election: `IngestorProofs` and `LifecycleProofs` show that every step of theirs
  is one of the election or leaves it alone, and conclude `LeadershipSpec` for the
  ingestors (`IngestorsLead`) and the processes (`ProcessesLead`).
* **`PagingProofs`**: for any number of clients, reports, accounts and limits.
  First the facts about one page: least and greatest elements of sets of
  identifiers (from the well-foundedness of inclusion of finite sets), a page
  is closed upwards (`NewestUpward`), a page without a cursor is the whole
  query (`LastPageIsAll`), and what lies at or above the cursor is on the page
  (`AboveCursor`). Then the inductive invariant `WalkInv`: what was received is
  not below the cursor (`Above`), what was kept still is there and matches
  (`KeptMatch`), and what was kept at or above the cursor has been received
  (`KeptReceived`). `PagesDescend` and `NothingSkipped` hold only because of
  these relations to the cursor. `WalksAreShort` is the safety behind
  `WalkEnds`: a page but the last leaves a cursor below the one it was asked for
  (`CursorFalls`), so a walk has at most `MaxId + 1` pages, whatever is filed,
  removed and erased between them.
* **`IngestorProofs`**: for any instances, accounts, feed, page limit and
  numbers of faults. `IngestorInv` is `LockInv`, `TypeOK`, `ReachInv` and `TipInv`.
  `NothingMissed` speaks of cursors only, and is not inductive: a cursor moves to
  the end of a page whose warnings have all been processed, so `ReachInv` says
  that everything up to any row of the table, up to a sync's cursor, and before
  the first warning it has still to process is handled, and that the rest of
  the page is contiguous and ends at the next cursor. `InsertsAtTip` needs
  `TipInv`: while no session was lost there is one worker, and all rows are below
  what it has still to process. That the table has a newest row comes from the
  well-foundedness of inclusion of finite sets. `InOrder` is the implementation
  of `Delivery`: the first warning a sync has still to process is due
  (`FirstDue`, from `ReachInv`), and it has settled (`SettledInv`: a page was
  settled when CSFloat served it, and the feed only grows).
* **`LifecycleProofs`**: for any instances, requests and timeouts. `LifeInv` is
  `LockInv`, `TypeOK`, `SetUpInv` (what an instance has passed in `NewFactory` is in the
  schema, whoever did it), `MainInv` (handles are open and the loop runs where
  `main` says so), `ServingInv` and `DrainInv`. The last one is what
  `AnswerableNotCut` needs: while an instance drains, a request on it has used up
  its time or has aged with the wait, so that at the limit, which is not below
  the sum of the timeouts, no time is left to it.
* **`ReversalsProofs`**: for any requests, identifiers, accounts, batches and
  updates. `RevInv` has, for each request, what is true by how far it has come
  (`RequestInv`: a row found by `ExpungeRead` keeps its owner, an acknowledged
  change is in the table or its report was erased), that identifiers to come
  are free (an erased report is never mistaken for a new one) and that whoever
  expunged a report has arrived. A frame argument keeps it small: a step moves
  rows onward only (`TableMoves`), and whatever is true of the requests that
  have no part in it is kept by any such move (`OthersKeep`). From the invariant
  each action is shown to be a step of `Registry` or to change nothing readers
  see.
* **`AccessProofs`**: for any requests, instances, marketplaces, permission sets
  and first databases. `AccessInv` is `TypeOK`, `Lineage` (every key comes from the
  seed or from a key that might create it, `Origins`), that creators exist and
  keys to come are free, and again what is true of each request where it is.
  `DeadStaysDead` needs the gap between the two reads of `ValidateKey`: at the
  second one the key was not dead at arrival, or its marketplace is deleted and
  will not let it in. `Lineage` needs that a request let in keeps its
  permission although its key may be revoked. `CSFloatStands` follows from what a
  deletion has read: the key it takes is not its own and, for csfloat's keys,
  its own is one of csfloat's too. `ImplementsAuthority` takes the steps of
  `Authority` one by one: a row that is inserted is granted, a row that is marked
  deleted is revoked, and every other step leaves what `Authority` sees alone. It
  needs `KnownInv` besides: the marketplace of a key, also of one that a request
  is about to create, is in the table, and csfloat is there once an instance has
  passed `SeedMarketplaces`. That the key of the request has the authority rests on
  `RequestInv`: what `Permitted` and `ReadForDelete` found stays true of the rows, which
  change only by being deleted.
* **`StatusProofs`**: for any reports, accounts, days, limits and first time an
  admin may give, and whatever the clocks show. `StatusInv` is `TypeOK`, `Stamped`
  (no report has a time after every clock by which one was filed or moved, from
  which the time of a status is sound by the greatest elements of sets of
  numbers) and `CountsMatch` (the counters and the committed searches, account by
  account: `CountGrows` is the one step that counts, however the upsert came to
  it). `EndpointsAgree`, `SearchesCounted` and `DaysAddUp` are about sums; that the last 24
  hours lie in the days of another clock, or after them, is `FlaggedCounted`. What a sum over a set is
  for every set would be induction over data; it is enough here that counting
  the parts of a finite set and adding up counts the set (`TotalOfParts`). That
  is proved from the smallest set for which it fails (`SmallestSet`), which the
  well-foundedness of inclusion of finite sets provides.

All safety invariants and action properties of the passing runs, and the four
refinements they check, are proved. Only model-checked is liveness: `Progress`, `Delivered`,
`StopEnds`, `WalkEnds`, `SignalEnds` and `WorkGoesOn`. It rests on fairness, and so on
ENABLED, which is out of this prover's reach.

## Findings

Where the code disagrees with what a comment, a test or a message of the
repository says, one run shows the disagreement. `PROJECT.json` has the quotes.

1. `main.go:25`: all instances generate with the same numbers, so identifiers
   are unique per instance only.
2. `csfloat.go:146`: NULLs sort first, so "the most recent reversals" are those
   without a `reporter_internal_id` once there is one.
3. `reversals.go:329`: the check for "already been expunged" reads a row that
   is not locked.

Two properties state exceptions that a reader should know of. After "sequence
exhausted" (`snowflake.go:104`) a further call in the same millisecond repeats an
identifier, which takes 4096 of them in that millisecond: `UniqueOutsideBursts`
excepts these. `process` takes any unique violation for a duplicate report
(`csfloat.go:131`): a warning whose generated identifier is taken is passed over,
which `NothingMissed` counts in `passed`. Finding 1 is how that can happen.

## Not modelled

* Rate limiting: the package wires a library's token bucket per route and
  process, and the repository says that its limits are per process; the service
  keeps no state of its own there.
* Secret keys, Steam identifiers, permissions as bits, JSON, CSV, the text form of
  cursors, errors, logging, configuration, the static page: checks and formats of
  single values. The actions take the values that pass them, and refuse the
  others where a property depends on it (`CanUpdate`, `Grantable`, `ReversedAt`).
* GORM's migrations, connections and their pools: calls into libraries. One
  step per database in `Lifecycle`.
* Routing and CORS.
* The contents of an audit record; that it is written, and when, is modelled.
  `List`, `Read` and `Delete` of audits have no caller in the service.
* `created_at` of reports and `last_searched_at` of accounts, which is written and
  never read.
* `modifyReversal` reads the row back after its change is committed and audited,
  and answers with an error if that fails. The step is in `Reversals` (`ReadBack`);
  an error promises nothing in this API, so there is no property about it.

## Plan

Done: every part of the system that keeps state or takes more than one step,
with its runs; the safety of all of them proved, and that `Elector`, `Ingestor`,
`Lifecycle`, `Reversals` and `Access` implement their abstract specifications.

Left, in the order of their use:

1. `Service`: the ingestor, the handlers and the identifiers of two instances
   over one table, composed of `Ingestor`, `Reversals` and `Snowflake`. It would show
   how a collision of identifiers (finding 1) becomes a passed warning; each half
   is shown on its own now, and the product of the three is beyond TLC in five
   minutes at the bounds where this happens.
2. What follows from the abstract specifications alone, stated there once and
   inherited by what implements them; and how long `listRecentHandler`'s answer is.
3. Steam identifiers and permission sets as operators against a reference
   definition over bounded inputs.
