# backbone-tools in TLA+

backbone-tools is one gRPC server over a PostgreSQL database. It offers locks, a
job queue, cronjobs and an event log; several servers may share the database.
This directory holds specifications of its components, TLC configurations that
model-check them on small instances, and TLAPS proofs for every size.

    tlc -config MCJobs.cfg MCJobs        # one run
    tlapm JobsProofs.tla                 # one proof module

## The system

| component | code | state | operations |
|---|---|---|---|
| jobs service | `pkg/services/jobs/server.go` | table `jobs`; per stream the variables of `Listen` | Create, Listen (stream), Heartbeat, Delete; Get and List read |
| cronjobs service | `pkg/services/cronjobs/server.go` | table `cronjobs`; per scheduler the rows it claimed | Create, Delete, a polling backend per server, `scheduleJobs`; Get and List read |
| locks service | `pkg/services/locks/server.go` | table `locks` | Aquire, Hold, Release |
| lock client | `pkg/locks/lock.go` | a context and a renewing goroutine per lock | Lock |
| events service | `pkg/services/events/server.go` | table `events` and its sequence; per stream `lastSequence` and `timestamp` | Publish, Subscribe (stream) |
| ticker | `pkg/ticker/ticker.go` | two goroutines, channels `C` and `dbNotifyChannel`, a connection | Start, then ticks until the context ends |
| job worker | `pkg/worker/worker.go` | current job, the channel of states from its callback | Work |
| echo worker | `cmd/echo-worker/main.go` | one worker, one lock | a callback that takes a lock |
| server process | `cmd/backbone-tools/main.go` | `jobsServer`, `grpcServer`, the services registered, the context | wait for the database, register the listed components, serve, shut down on a signal |
| command line client | `cmd/backbonectl` | a connection | 13 commands, one call each; the exit code |

Interactions:

* The tables are the only shared state between servers. Listen, Aquire and
  `scheduleJobs` read and write them in a SERIALIZABLE transaction, everything
  else at READ COMMITTED, one statement at a time.
* Create, Publish and Release NOTIFY a channel after their commit, as a
  statement of its own. Listen, Subscribe and Aquire own a ticker that LISTENs
  on it and also polls every few seconds, because notifications get lost.
* The cronjobs service calls the Create of the jobs service of its own process.
* A worker reads one job from Listen, sends heartbeats while its callback runs,
  closes the stream and opens the next.
* A server process registers its components in the order of `--components`; the
  cronjobs service gets the jobs service that was registered before it, or nil.
  The goroutine that waits for the signal shares the context and `grpcServer`
  with main.
* A command of the client blocks until a server answers, makes one call, and
  its exit code is all that a script learns of it.

What is hard: the two-step transactions (read, then write what was read) of
several processes; leases that expire by the clock while a renewal is on its
way; a worker that lost its job and does not know; a process that dies between a commit and the step that the commit promised;
rows that become visible out of order; lost notifications; two goroutines and a
close on an unbuffered channel. `PROJECT.json` lists each such place with the
property that watches it.

What makes each component correct:

* jobs: no job is fresh in two hands, a job changes hands only when its lease is
  over, a finished job never, and an abandoned job is given out again.
* cronjobs: at most one job per run, no run is passed over silently, and every
  run is scheduled while some server lives.
* locks: no two contexts hold one lock; the lock of a dead holder is granted to a
  waiter with whom nobody competes; a waiter waits rather than fails.
* events: a subscriber gets what it asked for and nothing else.
* workers: two of them that renew in time never work on one job, nothing is
  reported finished that was not done, and when failures stop every job is done.
* server process: each component has its table before it is called, a listed
  order that works does not panic, and an interrupt ends the process, at the
  latest with its last call.
* command line client: exit code 0 of create, publish, aquire, delete and a
  heartbeat with `--finished` is true, and a list that ends with 0 is complete.
  (`hold` and `release` also end with 0 for an id that does not exist,
  `locks/server.go:117-121`, so that their exit code says nothing about a lock.)
* ticker: no notified row waits for the timer, unless its notification or the
  query that it caused came to nothing; with the timer every row is seen to that
  the reader's queries select; ending the context ends the ticker and nothing
  else.

## Modules

| module | models | checked by | proved in |
|---|---|---|---|
| `Jobs` | jobs service | `MCJobs` | `JobsProofs` |
| `JobLease` | what the table of jobs promises; `Jobs` implements it | as property `LeaseSpec` | `JobsProofs` |
| `Worker` | job worker, on top of `JobLease` | `MCWorker` | `WorkerProofs` |
| `Locks` | locks service with the lock client | `MCLocks` | `LocksProofs` |
| `LockLease` | what one lock promises; `Locks` implements it | as property `LeaseSpec` | `LocksProofs`, `LockLeaseProofs` |
| `Ticker` | ticker with the handler that reads it | itself | `TickerProofs` |
| `Events` | events service | `MCEvents` | `EventsProofs` |
| `EventFeed` | a log with readers; `Events` implements it | as property `FeedSpec` | `EventsProofs` |
| `CronJobs` | cronjobs service on several servers | `MCCronJobs` | `CronJobsProofs` |
| `CronLedger` | an account of the runs; `CronJobs` implements it | as property `LedgerSpec` | `CronJobsProofs` |
| `Server` | server process | within `Ctl` | `CtlProofs` |
| `Ctl` | command line clients and the handlers that answer them, with `Server` | `MCCtl` | `CtlProofs` |

Each service has an abstract specification of what it promises, without rows,
transactions, streams and calls, and implements it: `Jobs` implements `JobLease`,
`Locks` `LockLease`, `Events` `EventFeed`, `CronJobs` `CronLedger`. The refinement is a
property of a run and a theorem.

Three compositions tie the modules together. `Worker` uses `JobLease` as its
server, so that what is proved of `Worker` holds over the real service without its
transactions, and it uses it only as `JobLease` allows (`Implements`). `Locks` holds
service and client in one. `Ctl` runs clients against the server process of
`Server`.

Conventions shared by all of them:

* A step is one SQL statement, one send or receive, or one decision of a
  client. A write and the COMMIT after it are one step: the rows are locked in
  between and no other transaction sees them.
* SERIALIZABLE is modelled by what PostgreSQL does: the SELECT takes a snapshot;
  a commit that writes a row which an open transaction has chosen puts that
  transaction into `overtaken`, and it can then only fail. Where false conflicts
  are possible, `rivalled` holds the transactions that saw another serializable
  commit and *may* fail. Neither the read-only calls nor the READ COMMITTED
  writes of other rows make such a conflict.
* Time is kept as ages: a timestamp is how long ago it was taken, up to one past
  the deadline it is compared with. So there is no bound on the clock. All
  servers are taken to have the same clock.
* A crash, a broken connection, an error of a statement and a canceled context
  have the same effect on the shared state, namely that the call ends where it
  is and its open transaction is rolled back: `CallDies`, `StreamBreaks`,
  `AquireDies`, `HolderDies`, `ServerDies`, `CreateDies`, `Abort`.
* Definitions whose comment says "Mutant of" are plausible mistakes in the
  definition after them. They are part of no specification; put in its place,
  each makes a property fail.

### Jobs and JobLease

`stored`, `created`, `started`, `updated` and `finished` are the table, with
`created_at` reduced to its rank and NULL as -1. `Due` and `Earliest` are the
WHERE and ORDER BY of `getJob`. A stream goes `off`, `wait` (in its select),
`selected` (snapshot taken), `stamped` (`now` taken), `send` (committed) and back
to `wait`; `inbox` holds the copies its client still works on. A unary call is
between its first and second statement in `call`. The Heartbeat of any client
may name any job: nothing in the code ties it to the worker that got the job.
`JobLease` knows jobs that are queued, running or finished, and says when they
may change hands. Under the mapping in `Jobs`, `started` is when the job last
changed hands and `updated` when it was last renewed.

`Stall` bounds the time between `time.Now()` in Heartbeat and its UPDATE. It
matters: a heartbeat delayed across a takeover sets `updated_at` back, and the
job of the new worker expires up to `Stall` early. `OneFreshHolder` therefore
promises `Deadline - Stall`, not `Deadline`.

`Drop` is a worker that closes its stream after one job: the copies it has not
read are gone. `OtherQueueCommits` is a stream of another queue: it shares no row
with those of the instance, but PostgreSQL may still suspect a cycle and abort
one of them (line 198).

### Worker

`at` is where the loop of `Work` stands, `cb` what its callback does, `inbox` the
jobs sent on a stream and not received. `call` is the Heartbeat that the server
works on; a worker whose call fails leaves the iteration while the server may
still finish that Heartbeat, and its next call comes after it. `quiet` is the
time since the job was taken or last renewed. It stays at `TooLong` once it was
there: the service does not say who renews, so a worker that was late once may
share its job from then on, and later heartbeats of it do not make it safe again
(`PunctualIsAlone` says who is). The server's side are the actions of `JobLease`
with the choice that `getJob` makes (`NextFree`). A callback that is left behind
after a failed Heartbeat blocks on its channel for good; it has no effect on the
shared state and is not followed. `Smooth` says that no failure happens any more.
`crew` in `MCWorker` is fixed in each behaviour: it makes one run of two instances.

### Locks

The service and the client are one module because only together they promise
anything. A client goes `idle`, `waiting` (ticker), `missing` or `expired`
(snapshot taken: no row, or an old one), `granted`, `held`, `releasing`,
`notify`. `hold` has the clients whose Hold is on its way, and such a Hold may
arrive after the context ended and even after its Release. Hold, Release and the
takeover write *every* row, because the UPDATEs have no WHERE clause (lines 117,
131, 173); `WriteAll` says so. `Silence` bounds how long a holder goes without a
renewal; above `Deadline` it is no bound.

`LockLease` knows who asked for which lock, who owns it, the time since its last
renewal and the renewals on their way. Under the mapping in `Locks` a client owns
its lock from the commit of Aquire to its Release, and `idle` is the age of the
row, or past the deadline if there is none. A renewal on its way may arrive after
its sender lost interest and then keeps a free lock busy for a while, which
`LockLease` allows; freeing the lock of another client it does not allow. The code
implements it while there is one id: with a second one, `WriteAll` renews and
frees locks that nobody renewed or gave back.

### Ticker

`main` and `listener` are the two goroutines, `consumer` the handler that reads
`C`. A send on an unbuffered channel and its receive are one step. `items` counts
the rows that the next query of the handler selects, `unsent` commits that still
have to NOTIFY, `pending` notifications in the connection. `reader` is who reads:
`Listen` sees to one row per tick, `Subscribe` (and `Aquire`) to all, `TestTicker`
is the loop of the test.

A tick is used up by every query, also by one that sees to nothing: a transaction
of Listen that is not serialized (`ListenConflicts`), and a query of Subscribe that
breaks off and is taken for a complete one (`BreaksOff`). What the latter leaves
above `lastSequence` still counts in `items`; what it leaves below is not selected
by any later query (`Events!QueryBreaks`), so no tick can bring it back and it
counts no more. `lost` counts the wake-ups that came to nothing: these, failed
NOTIFYs, and leases that ran out, of which nobody notifies. `StartFails` is a
LISTEN that fails: a handler returns, but the test reads a `C` that has no writer.

### Events

An event is its sequence number, drawn by the INSERT and visible at the COMMIT,
so numbers appear out of order. `batch` is the result of one query, sent in any
order: there is no ORDER BY. `last` and `cut` are `lastSequence` and `timestamp`.
`QueryBreaks` is a query that ends early, which the code takes for a complete one
(`rows.Err`); the rows that it leaves below `lastSequence` are in `lost`, and no
later query of the stream selects them.
`Wants` stands for topic and label filter. `earlier` remembers which events were
committed before which, for the properties only.

`EventFeed` is a log with readers. What a reader will get if nothing more happens
is its `pending` set: all it asked for when it opens, then each new event unless
a younger one was sent. It says how an event may leave that set: by being sent;
while a younger one is sent, if it was committed after that one, was sent before,
or the reader did not ask for it (the time filter is forgotten); or when a query
breaks off and a younger one was sent. Under the mapping in `Events` the pending
events are those in the batch and those that the next query would select.

### CronJobs

A run is a pair of a cronjob and a number; it is due when `next_run_at` has
passed. A runner of `scheduleJobs` is the backend of a server or a Create call
on it; its open transaction has read `todo`, its commit claims it, and the jobs
are made afterwards one by one. A server may die at any time, which takes its
backend and the Create calls on it along; one way is the unchecked error of
`BeginTx` (line 239), which panics in the backend.

`CronLedger` is an account of all runs without runners: a run is due, claimed,
made or lost. It comes once, it vanishes only with its cronjob and only while it
is due, a claim takes several runs at once, and each claimed run leaves its claim
once. Under the mapping in `CronJobs` the claims of all runners are one set.

### Server

`srv` is where main stands: `wait` (between two tries of `backoff.Retry`), `ping`,
`register` (the loop over `--components`, at `next`), `assigned` (`grpcServer` is
set), `up`, and `drain` once `ListenAndServe` has noticed that its context is over.
Between `cancel()` and that moment the server takes calls as before, even if it
only goes up then. `signal` is the other goroutine: it takes one signal, cancels the
context, and then reads `grpcServer`; the unsynchronised read is a choice of the
two orders, before or after the assignment. `missed` is a signal that found nil:
nobody stops the server, but everything that uses the context fails or ends.
`tables` outlives the process. grpcserver and goserver are not part of the
repository; `ListenAndServe` is taken to return when the server was stopped, and
to take no more calls when the context is over (`Drain`) and to return with the
last one (`ServeDrains`).

### Ctl

A process goes `dial`, `run`, then `handler`, `read`, `rows`, `answered` or
`stream` with the handler of its call, and ends `ok` (exit code 0) or `failed`.
A command and the flags it sends are one action. Tables are sets of rows;
`finished` and `large` mark rows, `large` those beyond the 4096 bytes that the
server sends (`grpc.MaxSendMsgSize`, `main.go:102`). Such a row is stored, but no
answer, list or stream can carry it. What an `Or` without conditions selects for
a cronjob without id and name (`cronjobs/server.go:159`) is decided by squirrel,
which is outside the repository: some row or none.

## Runs

| run | instance | shows |
|---|---|---|
| `jobs` | 1 job, 2 streams, 2 callers, Deadline 2, Stall 1 | types, `OneFreshHolder`, `IndInv`, refinement of `JobLease` |
| `jobs_live` | 2 jobs in a queue, 1 stream, 1 caller, a stream of another queue | `OldestIsServed`: abandoned jobs come back, and streams that share nothing but abort each other do not starve |
| `worker` | 2 workers with 1 job, and 1 worker with 2 jobs; Deadline 1, Stall 0 | types, `PunctualIsAlone`, `FinishedWasDone`, `WorkInv`, `EveryJobIsDone` |
| `locks` | 1 id, 3 clients, Deadline 2, Stall 1, Silence 1 | types, `MutualExclusion`, `IndInv`, refinement of `LockLease`, `FirstInherits`: the lock of a holder that vanished is granted to the last client that asks for it |
| `locks_two_ids` | 2 ids, 3 clients | **violated**: `MutualExclusion` |
| `locks_contention` | 1 id, 2 clients | **violated**: `NeverRefused` |
| `ticker` | up to 3 rows waiting, every reader | types, `NoLostWakeUp`, `IndInv`, `WokenUp`, `PollCatchesUp`, `Closes` |
| `ticker_panic` | up to 2 rows | **violated**: `NoSendOnClosed` |
| `events` | 2 publishers, 1 subscriber, 3 events of 2 kinds, 2 times | types, `NothingElseSkipped`, `SinceSequence`, `IndInv`, refinement of `EventFeed`, `AllDelivered` |
| `events_since` | 2 events of one kind | **violated**: `SinceTime` |
| `server` | a server with the default or a misordered list, 1 process that writes, 1 that reads, every command | types, `NilOnlyIfMisordered`, `NoTableMissing`, `ExitZeroIsTrue`, `ListedInFull`, `CtlInv`, `InterruptEnds` |
| `cronjobs` | 2 cronjobs with 2 runs, 2 servers, 1 caller | types, `OneJobPerRun`, `NoRunForgotten`, `IndInv`, refinement of `CronLedger`, `FirstIsScheduled` |

Why the bounds are enough to be interesting: a takeover race needs two
transactions on one row and a third actor that writes it in between, which
`jobs`, `locks` and `cronjobs` have. Deadline 2 with Stall 1 separates "on
the deadline", "one past it" and "late by the stall". Two workers on one job are
the fewest that can get into each other's way; the theorems about them hold for
any number and any Stall. One worker with two jobs has an older job that comes
back again and again before a younger one; it needs no second worker, because
workers do not choose their jobs. With two workers a callback returns no error: to the
other worker it would be the same as a process that dies. One process that writes and one that reads let a row
be created, deleted, listed and finished while the server goes down and up. Three events are the
fewest for which `lastSequence` can step back in a batch while a row below it is
still on its way. Three waiting rows keep the listener, the main loop and the
handler of the ticker busy and leave one over. Two runs per cronjob let an old
claim meet the next run. `MaxItems`, `MaxSeq`, `MaxTime` and `MaxRuns` are the
only bounds on counters; each is a guard of the action that counts, except that
`lost` of the ticker stops at `MaxItems`, where it excuses every row there can be. Where the
instance is its own mirror image the property is checked for one half
(`FirstInherits`, `FirstIsScheduled`).

The ticker runs allow deadlock, because there the process really may end: the
main loop returns when the context ends, and the panic stops everything. All
other runs have it checked.

### Fairness

* `Jobs`: the handlers of streams run and their tickers tick again (weak). A
  commit that is possible again and again happens (strong): false conflicts are
  broken by the jitter of the ticker. Nothing makes a client call, give up a copy
  or keep its stream; `OldestIsServed` assumes itself that streams eventually
  stay up and that heartbeats for the job stop.
* `Locks`: as `Jobs`, and time passes. Nobody has to take, renew or release a
  lock; `FirstInherits` assumes itself a client that calls Lock again after an
  error, while all others have lost interest.
* `Worker`: the loop and its calls go on, time passes, and a callback that may
  succeed again and again does (strong). That the server gives the next job to a
  stream is fair because `OldestIsServed` was checked of `Jobs`. Nothing has to
  fail and nobody has to stay: `EveryJobIsDone` assumes with `Smooth` that
  failures end.
* `Server`: main and the goroutine of the signal go on (weak); no fairness for
  clients, operators, failures or the backend. For a signal that came before
  `grpcServer` was assigned, `InterruptEnds` assumes that there comes a time with no
  open call, again and again: a stream may stay open for ever.
* `Ticker`: goroutines that can run do (weak); Go's select is random, so a case
  that is ready again and again is taken (strong, for the notification and the
  end of the context). A query that could succeed again and again does (strong:
  neither false conflicts nor broken queries go on for ever). `WokenUp` does
  without the timer; `PollCatchesUp` assumes it, and for Listen, which takes one
  row per tick, that no more rows come.
* `Events`: ticks keep coming (weak), and a stream sends what it read (strong:
  that a query breaks off before its first row does not go on for ever).
* `CronJobs`: backends poll on and handlers run (weak), a commit that is
  possible again and again happens (strong). Servers may stay down;
  `FirstIsScheduled` assumes that one stays up.

### Where the code and its documentation disagree

* `locks_two_ids`: Release frees all locks, so a third client takes a lock that
  is still held. Mutual exclusion holds only while all clients use one id.
* `locks_contention`: the loser of a race for a lock gets an error (duplicate
  key or serialization failure) although `lock.go:16` says it blocks.
* `ticker_panic`: the main loop closes `dbNotifyChannel` while the listener may
  be about to send on it. The send panics outside every handler and ends the
  process.
* `events_since`: the time of `--since` is forgotten after the first event, so
  an older event that commits later is sent.

Also seen, and not contradicted by a document: younger jobs starve while older
ones keep expiring; a holder whose Hold fails is not told; a job claimed by
`scheduleJobs` is lost if the process dies before `jobsServer.Create`; a service
that returns while the ticker is about to tick leaks its main loop; reading the
closed `C` counts as a tick for a service; a job, cronjob or event of more than
4096 bytes is stored, its creator gets an error, and it breaks each stream or list
that comes to it; `hold` and `release` of an id that does not exist end well; a
Hold keeps alive the lock of a dead holder, as long as any lock is held; an
interrupt that finds `grpcServer` still nil stops no server, and no later signal is
read. That process ends only because `ListenAndServe` notices the context, and a
stream that got in before keeps it alive as long as its client likes.

## Proofs

Every theorem holds for all values of the constants under the named assumption
of the module (`JobsAssumption` and so on): finite or arbitrary sets of jobs,
clients, servers and events, any Deadline and any Stall up to it.

* **Jobs.** `IndInv` has seven parts beside the types. The core is
  `LeaseCovers`: for every copy in a client's hand, of age d, the row's
  `updated` is at most d + Stall. With `SnapshotTrue` (a transaction that was not
  overtaken has chosen a job that is still due) a commit finds `updated >
  Deadline`, so all other copies are older than Deadline - Stall, which is
  `OneFreshHolder`. `IdsFresh` is needed because an id is handed out before its
  row exists, `RowsGone` and `CallsWellFormed` bound what Delete and a late
  Heartbeat leave behind. `Inductive` proves it, `OneFresh` and `TypeCorrect`
  follow. `Refinement` shows step by step that the table implements `JobLease`:
  the INSERT of Create is Add, the commit of Listen Grant, the UPDATE of
  Heartbeat Renew, the DELETE Remove, and every other step is invisible.
  `NeverBack` is about steps: an id that was deleted never comes back to the
  table, though a Heartbeat or a Listen that had seen its row still writes it.
  It is `IdsFresh` again: no Create of that id can be under way.
* **Workers.** `WorkInv` relates the table with what the workers know of it:
  `CopyCovers` and `WorkCovers` say that the table's `idle` is at most Stall above
  the age of each copy and the `quiet` of each punctual worker, so that a job in
  such hands is not free; `FreshCopyIsAlone` extends the claim to copies that
  were sent and not received. `CallIsMine` is needed because a Heartbeat may
  outlive its iteration, `ReportsTrue` carries the callback's success to the
  row. From it follow `NeverTwoPunctual` and `NeverFinishedUndone`. `Implements` needs
  `CallIsMine` for the late UPDATEs: each is a Renew of a job or finds no row.
* **Locks.** `TypeCorrect` needs nothing. `Inductive` and `OneIdExclusive` assume
  one id and `Silence + Stall <= Deadline`; the invariant says that while somebody counts
  as the holder, the row is no older than the last renewal plus Stall
  (`LockCovers`), so no snapshot can find it expired and stay valid. `Refinement`
  has the same two hypotheses, which the `locks` run satisfies; `locks_two_ids`
  shows what happens without the first. The takeover is Take because the
  invariant keeps its snapshot true, the UPDATE of Hold is Renew, that of Release
  GiveBack, and Tick keeps the lease of an owner by `LockCovers`. `Exclusive` is
  about `LockLease` alone, for any number of locks: no lock has two owners, and
  the lease of an owner never runs out. Its invariant `OwnersCovered` says that an
  owned lock is not free, which each Take needs and each Tick keeps; it assumes
  only that a renewal is at most Deadline late.
* **Ticker.** `IndInv` is `NoLostWakeUp` with the few facts that relate the two
  goroutines: the waiting rows never exceed the queries that are certain to come
  (unsent and pending notifications, the listener's send, the main loop's tick,
  the handler's query) plus what LISTEN found and what came to nothing. A query
  that does not see to its row takes one from the first and adds one to the last.
* **Events.** `LeftOut` says that an asked-for event which is neither sent nor
  in the batch was committed after every larger one that is, or is there for the
  next query, or was missed for good; with `StreamsSound` it gives `NothingSkipped` and `SinceGiven`.
  `Refinement` is harder, because it speaks of what *will* be sent: when a row is
  sent and `lastSequence` moves past an older one that the next query would have
  selected, that one must have been committed after the row, and not merely after
  the query. `BatchComplete` says so: an event that a running query misses and that is
  above something still to be sent was committed after all of it. Without it the
  invariant is not inductive, as `lastSequence` moves back and forth within a batch.
  `CallsWellFormed` gives an appended event its kind. The commit is Append, and Query
  is invisible, since it moves events from one half of the pending set to the
  other. `NoGapAbove` adds what `EventFeed` leaves to the mapping: all that is younger
  than what a stream sent is pending.
* **CronJobs.** `SnapshotTrue`, `DueIsNew` (nobody else has the run that is due)
  and `NoneAhead` make `OneJobPerRun` and `NoRunForgotten` inductive:
  `AtMostOneJob` and `NonePassedOver`. `Refinement` maps the commit to Claim, which
  needs `SnapshotTrue` (all that was read is still due), each turn of the loop to
  Make or Lose, which needs that no two runners have the same run, and a death or
  an error to one Lose of all that the runners concerned had claimed.
* **Server and client.** `ServerInv` says what Register knows of the part of the
  list it is through with: a nil backend comes from a cronjobs with no jobs before
  it (`NilNeedsMisorder`, for every list). `CtlInv` follows each call through its
  handler: what Insert stored, which row Get found and that it is the one asked
  for, what the commit wrote, which rows of a query are printed. It gives
  `TablesComeFirst`, `ExitZero` and `ListsInFull` for any number of clients.

Only model-checked: everything about liveness (`OldestIsServed`,
`EveryJobIsDone`, `FirstInherits`, `WokenUp`, `PollCatchesUp`, `Closes`,
`AllDelivered`, `FirstIsScheduled`, `InterruptEnds`), since the prover does not handle ENABLED and
fairness. The four violated properties are counterexamples, nothing to prove.
Only proved, and in no run: `Exclusive`, `NeverBack`, `Implements` and `NoGapAbove`.

## Not modelled

* The API messages and generated code; `Ctl` has the fields that commands set.
* The formatting of SQL for label filters (`pkg/sqlizers`; `Events` keeps its
  effect), the build and container files, logging and tracing.
* The echo worker, an example program: its callback is a callback of `Worker`
  that waits for a lock of `Locks`. While it waits it sends no state, so its
  worker is not punctual and another one may get the job meanwhile;
  `PunctualIsAlone` is about those who renew.
* Labels, specs and states of jobs are not told apart by any property. Get and
  List only read; `Ctl` has them as a client sees them. Cron expressions are
  reduced to "the row becomes due".
* The size of rows appears in `Ctl` only. In `Jobs` and `Events` a row that is too
  large is a stream that breaks when it comes to it, which their properties
  allow: `OldestIsServed` assumes streams that stay up, `AllDelivered` ends with
  the stream. That it breaks every stream anew is described above.
* A callback left behind by its worker, and the main loop of a ticker that
  nobody reads: both block for good and are not followed.
* Sequence numbers have no width; after 2^31 - 1 events every Publish fails.
* Clock skew between servers; the code assumes none.

## Plan

Modelled first was what several processes do to one table (`Jobs`, `Locks`,
`CronJobs`, `Events`) and the goroutines under it (`Ticker`), then what uses them:
`Worker` on `JobLease`, and `Ctl` with `Server`. Each has its proofs. What could
still be added, in this order:

1. An abstract specification of the ticker, a wake-up that is never lost, and
   one of the client's view of the server, with their refinements proved.
2. `Worker` with `Locks`: a callback inside a lock, and what a lost lock does to
   it.
3. `Ticker` and `Worker` with the goroutines that are left behind, counted.
