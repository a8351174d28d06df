# bsmiweb in TLA+

`bsmiweb` keeps a local copy of the BSMI registry (the Taiwanese Bureau of
Standards): vendors' registrations, their certificates and authorizations. A web
process serves the copy and refreshes it on demand; a cron process imports open
data, checks registrations for changes and crawls shops; a command migrates the
schema. They share one MySQL or SQLite database and nothing else.

This directory holds TLA+ models of that code, the TLC configurations that check
them on small instances and TLAPS proofs of the properties that matter most.
Paths below are relative to `src/`.

## The system

| Component | State | Operations | Interacts with |
| --- | --- | --- | --- |
| Store (`internal/db/store.go`, `model.go`) | tables `registration`, `certificate`, `authorization` | `SaveRegistration`, `ImportCertificates`, `ReplaceAuthorizations`, `RecordCheck`, `RefreshStats`, queries | every other part, through transactions |
| Synchronization (`internal/collector/jobs.go`: `recent`, `refresh`, `ec`) | time stamps and check statistics of `registration` | ask BSMI for changes, fetch, save, record | BSMI, the store, item pages |
| Cron daemon (`jobs.go`: `Daemon`, `http.go`: `Sleep`) | flag `running`, channel `done` | wake every minute, start, skip, stop | jobs, the signal, `main.go` |
| Web server (`internal/web/server.go`, `cmd/bsmiweb/serve.go`) | `refreshing`, `closed`, wait group, the `http.Server` | item page, background refresh, shutdown, `Close` | BSMI, the store, the signal |
| Migration (`internal/db/migrate.go`, `db.go`) | `schema_migrations`, the schema | adopt, apply, refuse | golang-migrate, Prisma's history |
| Imports (`internal/collector/import.go`, `store.go`) | the rows read, a database session with its foreign key checks off | download and merge three files, write them, restore the checks; replace the authorizations | data.bsmi.gov.tw, the pool, the store |
| Crawlers (`ec.go`, `jobs.go`: `ec`) | page of the search, numbers found, failures so far | search four shops, look up, fetch and save what is unknown | shops, BSMI, the store, item pages |
| Freshness policy (`freshness.go`) | none of its own: the statistics of `registration` | estimate rates, allocate frequencies, order a run | `recent` |
| Configuration (`internal/config/config.go`) and command line (`main.go`) | none | choose a database, check its version, dispatch | every command |
| BSMI parser (`bsmi.go`), HTTP client (`http.go`), pages and feeds, deployment | none | parsing, rendering, wiring | |

What is hard about it: statements of concurrent transactions interleave; answers
of BSMI are up to two minutes old when they are written, and time stamps are
taken then; BSMI answers by the day; requests, refreshes and jobs are cut off by
a signal at any point; the daemon hands a flag and a channel between goroutines;
a migration can die half-way; an import switches off what protects the tables, on
a session that others will use next. `PROJECT.json` lists each hazard at its line.

What makes each part correct:

* Store: each operation takes effect as a whole or not at all; links resolve
  although imports switch foreign keys off; a copy is its last page and nothing
  else; an import never takes away a link or scraped details.
* Synchronization: a change at BSMI is found by a later check, although pages and
  time stamps may be written late and in another order than they were taken; the
  checks of a job count the time they cover once.
* Daemon: jobs never overlap, no minute is skipped, the daemon ends on a signal
  after its job, and goes on starting jobs until then.
* Web server: one refresh per item, no refresh after `Close`, no request cut off
  before the deadline, the process always ends.
* Imports: the first row of a certificate wins; nothing is written unless all three
  files were read, and then all of them; no
  session goes back to the pool with its checks off.
* Crawlers: they end whatever a site says, and a success means that everything
  found was dealt with.
* Freshness: as fresh as the budget allows; a backlog is worked off; what always
  fails starves nobody.
* Configuration: production never runs on a database it was not given.
* Migration: nothing is marked as applied that was not; a dirty or unknown
  schema is refused and left alone.

## Modules

| Module | Models | Extends |
| --- | --- | --- |
| `CatalogData` | the rows, the inputs (pages, dataset releases, feeds) and what one write makes of a row | |
| `Catalog` | abstract store: three atomic operations | `CatalogData` |
| `CatalogTx` | the same operations statement by statement, by concurrent clients; implements `Catalog` | `CatalogData`, `INSTANCE Catalog` |
| `RegistrationSync` | recent jobs, refreshes, the clock and BSMI | |
| `Freshness` | the allocation of checks and the order of the daily runs | |
| `Config` | the decision table of the environment | |
| `Process` | the step, error and context of a process, the pool of its database | `Config` |
| `ImportJob` | the three import jobs | `Process` |
| `EcJob` | the four crawlers | `Process` |
| `Collect` | a process from its environment to its end: composes the jobs, the pool, the signal and visitors | `ImportJob`, `EcJob` |
| `CronDaemon` | the daemon's loop, its jobs, the signal, the clock | |
| `WebServer` | requests, refreshes, shutdown | |
| `Migrate` | runs of `migrate`, the schema they find, golang-migrate, the gate of the services | |
| `…Proofs` | theorems about the module they are named for | it, `TLAPS` |
| `MC…` | instances for TLC | the module |

A definition `Mutant…`-commented is a plausible bug of the definition after it;
no specification uses it. Replacing the one by the other in a run shows that the
property of the run notices.

### Catalog and CatalogTx

A column matters only through who writes it, so a certificate row is three
groups of columns: the link (`registration_id`), the columns both pages and
imports write (`shared`) and those only pages write (`scraped`). The value of a
group is the edition of the page, or the release of the dataset, it came from;
this is what the properties tell apart. `lastPage` is a history variable.

`CatalogTx` has one action per statement: `UpsertRegistration`,
`DeleteCertificates`, `UpsertCertificate`, `CommitSave` for `SaveRegistration`,
and likewise for the other two. `Rollback` stands for every early return (a
duplicate ID, an SQL error, a deadlock the database resolves), for a cancelled
context and for a crash: they all end in the deferred `tx.Rollback()` or in the
database's own. The database is modelled as the code uses it: a transaction reads
committed rows under its own writes, the rows it wrote stay locked, `DELETE FROM
authorization` also locks the gaps against inserts. SQLite allows a subset of
these behaviours.

`ImplementsCatalog` says that every step of `CatalogTx` is one whole operation of
`Catalog` on the committed tables, or leaves them alone.

### RegistrationSync

Each request to BSMI, each time stamp and each statement is a step, and the clock may
tick between any two. That matters most between a time stamp and its statement
(`StampPage` and `SavePage`, `StampChanged` and `SaveChanged`, `StampCheck` and
`RecordCheck`): `s.now()` is evaluated before the statement gets a session of the pool
and the lock of the row, so that an older time stamp may be written over a later one,
and `updated_at` and `checked_at` may go back. All processes read one clock.

A page is a revision number with the time of its last change; a copy is
the revision it holds, with `updated`, `checked` and the seconds that checks covered,
and, as history for the properties, the earliest `updated_at` (`first`) and the latest
time stamp (`latest`) it has had. `Refreshers` are item pages of unknown
registrations, background refreshes of copies older than `RefreshAge` and e-commerce
jobs; `Runners` are recent jobs, of the daemon and by hand. A run reads all time stamps
first (`BeginRun`) and may check the registrations in any order, which covers any order
of `freshness.go`. BSMI dates its changes by the day in Taiwan (`Day`), a job asks in
its own zone (`JobDay`), which is ahead by one of `Offsets`, chosen at the start.
`Homonyms` is the detail that a query drops the type of a registration number, so
that a certificate of another one may answer it. `Uncounted` is the other end of
`HasRecentChanges`: a list without its number (`共N筆`) is taken for none if it has fewer
than seven certificates (`bsmi.go:131-132`). `check_count` and `change_count` are left
out: only the estimate of a rate reads them.

`Exposed(r)` says that the copy is behind and that the change is dated on an earlier
day than the latest time stamp the copy has had; `Lost(r)`, the same of the time stamp
the next check asks from, is what must not happen. `LostOnlyAcrossMidnight` says that
nothing is lost that was not exposed, and that a step exposes a change only in one of
four ways: it writes, on a later day, an answer of an earlier one; it records the check
of a registration whose page was empty although a change had been reported, or of one
whose changes were listed without their number; or it is a change made at an hour at
which the zone of the job is already a day ahead of Taiwan's.

`ChecksCoverElapsedTime` bounds the seconds of a copy by the time since `first`, once
for a single job. For `n` jobs the bound is `n + (n - 1) + ... + 1` times that. Each counts
a moment for itself; and it may count it again when the check of another job, that was
stamped before that moment, is written after its own. A job that still has such a check
to write has not counted the moment yet, so the first job that counts it may be put
back by `n - 1` others, the second by `n - 2`, and so on. With two jobs and a copy of 2
seconds, 5 are possible: `k1` asks and takes its time stamp at 1 and waits, `k2` asks and
records at 2, the write of `k1` puts `checked_at` back to 1, and both ask again at 2.

### Freshness

Frequencies are reals in the code and multiples of `1/Steps` here: a positive one below
the first step is none, and such a registration no candidate, where the code keeps it.
The slope of the freshness is a table, of which only its fall matters. The two nested bisections are
those of the code, down to neighbours of the grid. `freq` is `allocate` of the
estimated rates, `age` the days since a registration was synchronized. A day is one
step: `Run` takes the first `Budget` candidates in the order of `refreshOrder`,
`CutShort` fewer of them (a rate limit, a signal, a skipped day); a visit may refresh
a copy in between. Estimates are fixed after the start, but the start takes every
estimate with every age, so it is also what follows any change of them.

### Config, Process, ImportJob, EcJob, Collect

`pc` of `Collect` follows `run`: `Load`, `OpenDatabase`, `CheckVersion` (and `NewClient`,
which may fail), then the steps of one job, or for `cron` of one job after the other. A step that can fail has
an action for it (`DownloadFails`, `RestoreFails`, ...), and `err` says that the job
has failed. The context of the process (`cancelled`) is checked by each request and
statement. `pool[s]` and `checks[s]` are the state of a session of `database/sql` and
whether it enforces foreign keys; a session taken for a query may be a new one, be
discarded by its driver or expire. On SQLite `limit` is one session.

`ImportJob` follows the two functions of that name: the rows are named for the file
and the place they come from, so that precedence can be told. Its transactions are
one step each, as `CatalogTx` has their statements; an error may hide that a COMMIT
took effect. The deferred call that restores the checks has a context of its own.
`EcJob` is the loop of `Scan` and that of `ec`: a page may announce any number of
pages, the pauses end early on a signal, a product page that fails is passed over,
a registration that fails is remembered.

What a job had in its variables is reset when it ends (`Finish`) and what is not read
again is reset where that is (a comment says so), which keeps the state space small.

### CronDaemon

`pc` follows the loop of `Daemon`; `worker[g]` the goroutine of a job through
`Run`, `done <- struct{}{}` and `running.Store(false)`. Time is a cyclic clock of
one day: `due` is the distance to the timer, `next` the mark the loop sleeps for.
`MaxLag` bounds how late the loop may run.

### WebServer

`handler[h]` follows a request for an item through `item`; `worker[g]` a refresh
through its three deferred calls; `main`, `stopper` and `server` the goroutines
of `serve` and the `http.Server`. What the mutex protects (`refreshing`,
`closed`) changes in one step. A listener that fails, the fifteen-second deadline
of the shutdown and handlers that outlive it are all there.

### Migrate

`level` and `partial` say what was executed, `version` and `dirty` what
`schema_migrations` says of it, `history` and the parts of the schema (`Style`)
what the program can see when there is no row yet. `pc[p]` follows a run through
`Migrate`, `runMigrations` and golang-migrate's loop: mark dirty, execute, mark
clean. `Touched` gives each part of the schema the statement of
`000002_rename_to_snake_case.up.sql` that drops and that renames it, so that
validation sees a half-done migration as the code does. A run may fail or die
anywhere; on MySQL the server may go on with the statements of a dead client and
hold its lock meanwhile. golang-migrate itself is external: its version row is
replaced in one transaction, on SQLite a migration is one transaction, and its
own lock only matters within a process. The operator repairs a dirty database as
the README asks, with no run at work.

`HistoryAccepted` is the whole of `prismaVersion`; the order of its rows does not
matter, as any bad row is an error. The SHA-256 of a file is a boolean, as are the
type, nullability and key of a column (`drift`).


## Runs

| Run | Instance | Shows |
| --- | --- | --- |
| `catalog` | 2 registrations, 2 certificates, 2 authorizations, 2 editions, 1 release, 2 feeds; symmetry | the promises of the store |
| `catalog_tx` | 2 clients on the same; symmetry; 440,000 states | saves, imports and replacements interleaved implement `Catalog` |
| `sync` | 1 registration, 1 refresher, 2 recent jobs, instants 0 to 2, 1 change, days of 2 ticks, zones level with Taiwan's and half a day ahead, uncounted lists, homonyms; symmetry; 2.2 million states | lost changes and counted seconds |
| `sync_every_change` | 1 refresher, 1 recent job, 4 ticks, 2 changes | **violated**: a change is lost across midnight |
| `freshness` | 3 registrations, 3 rates, frequencies in thirds, budget 2, ages 1 and 7, horizon 7; 111,000 states | optimal allocation, recovery, no starvation, with liveness |
| `collect` | 2 sessions, 2 numbers, files of up to 2 rows, 2 pages of a search, 1 product page; 513,000 states | imports, crawls, sessions and configuration, with liveness |
| `cron_daemon` | 2 goroutines, minutes of 2 ticks, days of 4 minutes, jobs at 2 marks in a row, lag 1 | the daemon, with liveness |
| `web_server` | 1 item, 2 requests, 2 goroutines | the web process, with liveness |
| `web_server_sharing` | the same | **violated**: two stale requests, two refreshes |
| `migrate_mysql` | 2 runs, 1 service, some 70 databases | the migration, with liveness |
| `migrate_sqlite` | 2 runs, 1 service, 14 databases | what holds without the lock |
| `migrate_sqlite_dirty` | the same | **violated**: a dirty version is forced clean |

Why the bounds are enough. Two registrations and two certificates allow a
certificate to move between registrations, to be delisted and to stay; two
clients are the least that interleave, and two authorizations the least of which
each may hold one while the gap locks keep it from the other. Registrations do not
interact in `RegistrationSync`, so one is enough; two recent jobs and a refresher
let a stale page or an old time stamp overwrite a newer one and a stretch of time be
counted again (the second job, whose page may be saved late and whose check may fail, is
a second refresher too), and three instants let a day end between any two steps, in
Taiwan or in the zone of the job. A zone behind Taiwan's is left to the proof.
Three registrations with a budget of two are the least of which one has to
wait while another always fails; an age of seven days is beyond twice the longest
interval of the grid (three days), and the horizon only stops ages that are.
Two rows and three files repeat a number within a file and across files, with a row
without a number before or between; two sessions are the least with which a query
may get another one than the import's; two pages are the least that go on; one more page
than `MaxPages` may be announced. A third goroutine of the daemon would never run: at
most one does, which the proof shows for any number. Two requests and two goroutines
for one item are the least that can refresh it twice. Two runs of `migrate` are the
least that compete for the lock; the databases are those of every Prisma version,
interrupted after each statement and resolved either way, each part altered, each
kind of bad history, and that of a newer release. Symmetry is used only in runs
without liveness.

Most type invariants are proved and in no run. That of `Collect` is in its run too:
it bounds the pages of a search, which `Scan` has to do.

`CHECK_DEADLOCK FALSE` is set where the process ends (`cron_daemon`, `web_server`,
`web_server_sharing`); a process of `Collect` that is gone stutters explicitly
(`Gone`), so that its other deadlocks would be found.

### Fairness

* Daemon: weak fairness of the clock, of the loop and of each job's goroutine.
  A job ends because its requests time out after two minutes (`http.go:64`) and
  its loops are bounded. Strong fairness of `SleepCancelled`: a loop that is late
  finds the timer and the cancellation ready, and `select` draws one at random.
* Web server: weak fairness of the refreshes (two minutes, `server.go:256`), of
  the goroutine that shuts down and of the one that serves. None of requests,
  clients or the signal: the deadline of the shutdown is what ends the process.
* Freshness: weak fairness of complete runs; the two liveness properties assume that
  from some day on no run is cut short. BSMI limits the rate of a client for a while,
  not for good.
* Collect: weak fairness of the process. Requests time out (`http.go:64`), statements
  are answered or the connection breaks. None of the signal, of visitors or of
  sessions that expire.
* Migration: weak fairness of a live run. None of the operator, or of the session
  of a dead client, which may hold the lock for ever: the thirty seconds of
  `GET_LOCK` (`migrate.go:42`) are what ends the runs that wait for it.

## What is proved

For every value of the constants, from the named assumptions only (sentinels are
distinct from rows, a day is a whole number of minutes, what is counted is finite, the
slope of the freshness falls): every safety property that a passing run checks, except
that `ChecksCoverElapsedTime` is proved for one recent job only.

* `CatalogProofs`: type correctness, the four invariants and the two action
  properties of `Catalog`. `LinksResolve`, `DetailsFollowLinks` and
  `OneFeedAtATime` are inductive with the types; `CopyIsLastPage` needs them all.
* `CatalogTxProofs`: `TransactionsImplementCatalog`, the refinement. The inductive
  invariant is `WritesFollowProgress`: what a transaction has written is a
  function of how far it got and of the tables as committed *now*. It is needed
  because a commit maps to one atomic operation on the tables of that moment,
  although the statements ran earlier; the row locks (`LocksExclusive`) keep it
  true over the commits of others. `DeleteStaysComplete` and
  `ImportKeepsCommittedLink` follow. So does type correctness.
* `RegistrationSyncProofs`: type correctness and `LostOnlyAcrossMidnight`, for any
  number of registrations, refreshers and recent jobs, any zone, length of the day
  and bound of the clock. An answer is judged when it is saved or recorded, long
  after it was given: `Behind` says that what a fetched page does not show came after
  it, `Covered` that the same is true of what a query did not report, or that the
  change is outside its days, or that the copy has had a later time stamp anyway. Time
  stamps go back, but `latest` does not: both survive what others do, as pages and
  `latest` only grow (`Grown`), and `StatsAreOld` ties the time stamps read at the start
  of a run to `latest`. The late statement of another cannot expose a change by itself,
  as `SaveExposes` and `CheckExposes` show of the two statements that write a row.
  `OneJobCountsOnce`: `ChecksCoverElapsedTime` for one recent job and any refreshers. The
  seconds of a copy fit between `first` and `checked` (`Counted`); `checked` is then the
  job's own and never goes back, and what the job has read is at least that (`OwnCheck`).
* `CollectProofs`: type correctness, `ChecksAreRestored` and
  `ProductionKeepsItsDatabase`, for any sessions, files, pages and numbers. That no
  session is in the pool with its checks off is not inductive: `WhereChecksAreOff`
  says that it is the import's, on its way to the restoration, or closed, or the
  process is being stopped; `ConnIsUsed` keeps it from being handed out meanwhile.
  `SuccessMeansDone` and `FirstRowsWin` rest on a second invariant, `WInv`, of the work
  of a job: at each point, the files read so far are merged (`FilesMerged`), the rows
  are in the table or an error is kept (`CertsWritten`), and what a search has found is
  saved, unknown to BSMI or still to be looked at, unless a failure is remembered
  (`SearchCovered`). That merging a file keeps the first row of every certificate
  (`MergeFirst`) is shown by induction over the places of the file. `ImportsAreWhole`
  needs it too: at the step that writes the table, three files were read, each with a
  number in it, and what is written has a row of theirs for every number in them.
* `FreshnessProofs`: `AllocationIsOptimal`, for any registrations, rates, budget and
  grid. The bisection of `frequency` stops where the slope falls to `mu` (`Stops`), that
  of `allocate` at neighbours `mu` and `mu + 1`, the first over the budget and the second
  within it (`Balances`). The rest is the argument of Lagrange: every step of the grid
  taken gains at least `mu + 1` and every step left out no more (`GainBound`), summed
  over the registrations, so that no frequencies of the same total are worth more; and
  a registration gets at most one step more at `mu` than at `mu + 1` (`NextFrequency`), so
  that less than a step each is left. The last part needs a `mu` between the slopes of
  two neighbours of the grid: there always is one in the code, where slopes are reals,
  so `FreshnessAssumption` asks that integer slopes fall by more than one. With falls of
  one it is false: with slopes 10, 5, 4, two registrations and a budget of one check,
  nothing is spent.
* `CronDaemonProofs`: `QuietAfterReturn`, `NotifyNeverBlocks`, `JobsNeverOverlap`.
  None is inductive. `OneHolder` says who holds the flag (the loop from `Claim` to
  `Start`, then one goroutine), `NotYetNotified` that the channel is empty from
  `Drain` to `Notify`. And `EveryMinuteOnce`, if the daemon is never a whole minute
  late, for any length of minute and day: timer and clock agree on the mark the next
  wake-up is for, over midnight too (`Aligned`).
* `WebServerProofs`: `OneRefreshPerItem`, `QuietAfterClose`, `DrainedBeforeClose`.
  `RefreshingIsTrue` ties the set under the mutex to the goroutines, `Handover`
  orders the goroutines of `serve`.
* `MigrateProofs`, for the MySQL driver: all six safety properties. The invariant
  `Knows` says at each step of a run what it may rely on; `LockHeld` keeps it true,
  as a run that is past `GET_LOCK` is alone. Adoption rests on the lemma `Verdict`:
  the foreign key is the first thing migration 2 drops and the last it brings
  back, so a schema that passes validation is at the end of a migration. Versions
  2 and 3 look the same; that the history tells the truth about the cleanup is
  `DatabasesAssumption`. For the SQLite driver: the types, `MarkedIsApplied` and
  `ServiceHasFullSchema`, although runs overlap. What a run has found of the schema may
  be old, but stays true while the schema only goes forward (`SeesSchema`), and a row
  without a version never hides a baseline half-way (`RowFollowsSchema`). The other
  three need the lock: `DirtyIsNeverCleared` fails on SQLite (`migrate_sqlite_dirty`).

Sums, merges and bisections are folds and recursive functions over data. The
provers cannot instantiate the induction theorems of the library, which take a
predicate; `SetInduction` states induction with a set in place of the predicate, from
the well-foundedness of the naturals, and `SetRecursion` that a fold over a finite set
exists. `CollectProofs` and `FreshnessProofs` each prove them.

Only model-checked: liveness, which is out of the prover's reach, as is `ENABLED`; and
`ChecksCoverElapsedTime` for two recent jobs (`sync`). For more the argument is the one
given above, which is not proved.

## Findings

* `store.go:109, 178`: the time stamps are those of the write, not of the request
  they stand for. A page fetched before midnight and saved after it hides a change
  made in between from every later check (`sync_every_change`). Within a day of
  Taiwan's zone that is the only harm of late pages and late time stamps, even of an old
  one written over a newer one: a query covers the whole day of the last synchronization
  (`jobs.go:57`, `bsmi.go:113`), and finds again even what it already stored. `sync`
  checks that there are only three other ways to lose a change. With a `TZ` ahead of Taiwan's (the day of
  the query is that of `j.Location`), one made in the hours of difference; one whose
  registration has an empty page (`jobs.go:83-85`); and one that BSMI lists without the
  number of the list, with fewer than seven certificates (`bsmi.go:131-132`): the check
  is recorded, and the next query starts after them if it is on a later day.
* `server.go:231-248`: staleness is decided before the mutex is taken, so two
  stale requests can refresh an item one after the other (`web_server_sharing`).
* `migrate.go:34`: only MySQL has a lock around `Migrate`. Two runs that adopt the
  same SQLite file overwrite each other's row, dirty mark included
  (`migrate_sqlite_dirty`). The damage is bounded: `migrate_sqlite` shows that a
  clean version never runs ahead of the schema.

One thing is weaker than a comment says, and harmless. `store.go:200-201` promises
that the foreign key checks are restored on every failure path. When the context is
cancelled, the statement that switches them off may take effect and still return an
error, before the restoration is deferred; on SQLite the restoration is ignored as
long as `database/sql` rolls back the cancelled transaction. The context is cancelled
only when the process has to stop, and its sessions end with it, so `ChecksAreRestored`
exempts a process that is being stopped.

## Not modelled, and why

* Parsing (BSMI pages, XML, shops), rendering, TLS profiles: data in, data out.
  What they return, nothing or an error are inputs of the models.
* The estimate of a change rate (`changeRate`) takes logarithms: `Freshness` takes any
  rates instead. Real frequencies are a grid.
* `Registration` reads a row and its certificates in two queries (`store.go:51`): a save
  in between shows a page that never was, for an hour. Nothing states it should not.
* A crawl and a recent job of different processes meet in `RegistrationSync`
  (`Refreshers`, `Runners`), not in `Collect`.
* Collations: MySQL compares IDs case-insensitively, `seen` in
  `SaveRegistration` does not. Keys are model values here.
* A wall clock that steps, a host that sleeps: `CronDaemon` assumes a lag of less
  than a minute. `next.In(j.Location)` (`jobs.go:136`) is the identity on a day of fixed
  length: in a zone whose clock is changed for summer time, a scheduled hour that the
  change leaves out is skipped that day, and one that it repeats comes twice, although
  consecutive wake-ups are for consecutive minutes (`EveryMinuteOnce`) all the same.
  `RegistrationSync` assumes one clock for all processes, and a zone a fixed time apart
  from Taiwan's.
* An existing but empty `_prisma_migrations` table, which `migrate.go:73-76` refuses on
  SQLite: the empty history of `Migrate` is that of a database without the table.
* A transaction of `ImportJob` is one step, which commits all or nothing; that its
  statements do is `CatalogTx`.

## Plan

Done: the store, synchronization, the daemon, the web server, the migration, imports
and their sessions, crawlers, configuration, the freshness policy on a grid. Left, in
this order:

1. Proofs: the variant functions that `JobsEnd` and `SettlesWithinTwiceTheInterval` rest
   on, as action properties (what a step of a job always lowers).
1. `Freshness` with estimates that follow from the checks (`check_count`,
   `change_count`, `check_seconds`), and its composition with `RegistrationSync`.
1. A wall clock that steps, for the daemon.
