# Formal models of FirmScout

FirmScout watches the web pages on which vendors announce firmware, extracts
candidate releases from them, validates each candidate and publishes what
passes as the answer to "which firmware is the latest". This directory holds
TLA+ models of the parts of that program where order, concurrency, failure or
boundary cases matter, the TLC instances that check them, and TLAPS proofs
about them. Paths below are relative to `src/`.

## 1. The system

### Components and what they keep

| Component | Code | State | Operations |
| --- | --- | --- | --- |
| Job queue | `internal/adapters/postgres/queue.go` | table `jobs`: status, attempts, run_after, locked_until, locked_by | Enqueue, Dequeue, Complete, Fail |
| Worker | `apps/worker/main.go` | leased batch, concurrency slots, scheduler ticker | runScheduler, runJobs, handle, dispatch |
| Watcher | `internal/application/checksource.go` | check columns of `sources` | Execute, applyOutcome |
| Extraction, validation, publication | `internal/application/ingest.go` | `candidate_releases`, `releases`, `source_observations`, `source_conflicts`, `review_items` | three use cases |
| Review | `internal/application/review.go` | the same | Accept, Reject |
| Domain rules | `internal/domain` | none | state machines, gates, scheduling, dates |
| Fetcher and address guard | `internal/adapters/fetch` | per-host slots and next send time, robots cache | Fetch, Allowed, ValidateURL, CheckAddr |
| Collectors, normaliser | `internal/adapters/{collectors,normalize}` | none | validate a configuration, read an artifact, hash a page |
| Artifact store | `internal/adapters/artifact`, `artifact_repo.go` | two files per content hash, table `source_artifacts` | Put |
| Migrator | `internal/adapters/postgres/migrate.go` | `schema_migrations`, the schema | Up, Status |
| Registry sync | `internal/application/registry.go`, `internal/adapters/registry` | vendors, categories, families, products, aliases, edges, sources | load, Execute |
| Catalogue and pages | `release_repo.go`, `conflict_repo.go`, `summary_repo.go` | `releases`, mappings, latest marks, `product_summaries` | Insert, MarkLatest, RefreshProductSummary |
| Snapshots | `internal/adapters/postgres/snapshot_repo.go` | the same | export, import |
| Listings | `queries.go`, `review_queries.go`, the List statements | cursors | history, vendors, review queue |
| HTTP API | `internal/adapters/httpapi`, `apps/api` | token buckets, task queue | middleware chain, Close |
| Entitlements, usage | `entitlements.go`, `usage_repo.go` | usage rows, monthly counters | quota, Record |
| Command line | `apps/cli/main.go` | none | check-source, sources activate, registry sync, migrate |
| Telemetry, wiring, web front end | `internal/adapters/telemetry`, `internal/platform`, `apps/web` | none | none |

### How they interact

The scheduler lists the sources that are due and enqueues one `check` job per
source and instant. A worker leases it and runs CheckSource, which fetches the
page through the guard, the robots policy and the pacing of its host, stores
what it got, compares it with the stored hash and enqueues an `extract` job for
content it has not seen. Extraction reads the artifact with the collector that
the source's configuration names, stores candidates and enqueues a `validate`
job for each new one. Validation runs ten gates, records what the source says,
opens or closes a conflict with other sources, moves the candidate, files or
retargets a review item, and enqueues a `publish` job for what passed. A
reviewer accepts (which publishes) or rejects. Publication inserts a release,
moves the latest mark and rewrites the summary of the product's page; a registry
sync and a snapshot import write the same rows. The API reads them, limits,
meters and windows what each plan may see. Processes share PostgreSQL and the
artifact directory and nothing else; the command line runs the same use cases
beside the workers.

### What is hard

* *Delivery is at least once.* A lease may run out under a live worker; a
  worker may die, or lose its report, at any point. Every handler may run
  again, at the same time as its earlier self.
* *Use cases read outside their transaction.* Validation, publication and the
  reviewer's decision decide on rows that may have changed by the time they
  write, and most writes have no condition on the old state.
* *Transactions are READ COMMITTED,* so two of them may read around each other
  and wait for one another's rows in the middle.
* *Several parties write the same row:* a source row is written by checks and by
  the registry sync, a summary by every publication, sync and import.
* *Work goes on after the response:* usage is metered by a queue that may drop a
  task, and the quota is compared with what it has counted so far.
* *Callers come and go while they wait:* a fetch that is cancelled has reserved
  a send time, taken a slot or is asking for everyone's robots.txt.
* *Small parsers decide a lot:* robots.txt, migration files, collector
  configurations, dates of several precisions, feeds of two dialects.

`PROJECT.json` lists the single hazards with the line where each one bites.

### What makes each component correct

* Queue: nothing enqueued is lost, a verdict is final and earned, a job is in no more
  hands than it was leased, everything settles in the end.
* Watcher: a change that was seen is extracted; a source that may be checked
  is checked; a source that may not be is left alone.
* Ingestion and review: nothing is released that no gate and no human has let
  through, a candidate becomes at most one release, the latest release is the
  latest, a dispute reaches a human once, a takedown stops what follows it.
* Fetcher: a host is asked no faster than it wants, its robots.txt is believed
  neither too long nor too briefly, every call ends.
* Collectors: a configuration that loads reads something, what is read is what
  the page says, and what changes what is read changes the hash.
* Registry: a sync writes what the files declare in any order of the files, and
  what a file leaves out permits nothing.
* Pages and snapshots: a page says what the tables say, a product keeps exactly
  one latest mark per channel, an import is all or nothing, an export loads back.
* Listings: a walk by cursors ends and shows everything once, a plan's window is
  the same in the rows, in the SQL and in what is said to be withheld.
* API: the limiter is a token bucket to its callers, a request is billed once, what
  exceeds a quota is accounted for, plans do not mix in a cache that heeds its headers.
* Storage: the schema is whole, an artifact that has a row has its bytes.

## 2. Modules

| Module | Models | Relations |
| --- | --- | --- |
| `WorkLedger` | what the queue promises: owed, succeeded, dead | abstract specification |
| `JobQueue` | the `jobs` table and the worker processes | refines `WorkLedger` |
| `CandidateStates` | `candidateTransitions`, `pathTo` | used by `Ingest` |
| `Catalogue` | what the pipeline promises its readers | abstract specification |
| `Ingest` | extract, validate, publish, review | refines `Catalogue` |
| `SourceHealth` | `sourceTransitions`, `HealthForOutcome` | used by `Watcher` |
| `Watcher` | scheduler, CheckSource, sync, activate, check-source | |
| `Robots` | parser and matcher of robots.txt | used by `Fetcher`'s instance and `Rules` |
| `Fetcher` | Fetch with robots cache, slots, pacing, redirects, cancellation | |
| `TokenBucket` | what a rate limiter promises | abstract specification |
| `RateLimiter` | lazy refills, sweeps, the bound on the map | refines `TokenBucket` |
| `Gateway` | authentication, quota, idempotency, cache headers, metering, Close | takes the limiter as `TokenBucket` |
| `RegistryFiles` | what the loader makes of a file | used by `Registry` |
| `Registry` | the passes of a sync over the registry tables | |
| `CatalogueRows` | rows of the catalogue: latest, page, snapshot | used by `Pages` and `Listings` |
| `Pages` | units of work at READ COMMITTED on those rows | |
| `Listings` | pages of listings while rows change, the plan's window | |
| `Schedule` | NextInterval and its 64-bit arithmetic | used by `Rules` |
| `Guard` | ValidateURL, CheckAddr | used by `Rules` |
| `Collector` | configuration and pipeline of a collector | used by `Documents` |
| `Documents` | pages, feeds, the normaliser, the three engines | used by `Rules` |
| `Rules` | asks the five above one question at a time | |
| `Migrations` | the parser of migration files | used by `Storage` |
| `Storage` | `migrate up` by several, start of workers, Put | |
| `JobQueueProofs`, `IngestProofs`, `LimiterProofs`, `GatewayProofs`, `StorageProofs` | theorems | each about the module of its name (`LimiterProofs`: `RateLimiter`) |
| `FetcherProofs` | theorems | about `Fetcher`; a second part about `Rules`, `Schedule` and `Guard`, a third about `Robots` |
| `PagesProofs` | theorems | about `Pages`; a second part about `Listings` |
| `RegistryProofs` | theorems | about `Registry`; a second part about `Watcher`, whose row a sync writes too |
| `MC...` | the instances TLC checks | |

`Ingest` and `Watcher` do not carry the leases of `JobQueue` along: they use the
queue only through what `WorkLedger` says and `JobQueueProofs` proves. An owed
job may be delivered again until it has a verdict, and a verdict is final. In
the same way `Gateway` uses the limiter through `TokenBucket`, which
`LimiterProofs` proves, and `Fetcher` uses robots.txt through the policies that
`Robots` computes of files.

### JobQueue

A job is its idempotency key, a row is the columns `status`, `attempts`, `due`
(run_after is past), `lapsed` (locked_until is past) and `lockedBy`. A worker
has a `batch` (leased, no slot yet) and one `slot` per concurrent handler.
`Enqueue`, `Dequeue`, `MarkSucceeded` and `MarkFailed` are the four
statements; `Start`, `Return`, `Err`, `Complete`, `Fail` and `ReportLost` are
`runJobs`, `dispatch` and `handle`; `Crash` is the death or the shutdown of a
worker. `BackoffElapses` and `LeaseLapses` are the clock: no statement tells
two future instants apart, so an instant is only past or not. A lease that
lapses while its holder works is therefore always possible. `done` and
`overtaken` are history and no action decides by them.

A comment on Dequeue (queue.go:160-193) reports, as a known open defect, that rows are
leased a second time while their lease is good, by a mechanism its authors have
measured and not found. The model has what was measured and explains nothing: the
statement reads what may be leased when it begins (`BeginDequeue`), and takes any of
these rows when it ends that are leasable still or have been leased since (`MayTake`,
`Dequeue`). `overtaken` counts how often that, or a lapsed lease, put a job into another
hand while its row was running.

### Ingest

One product and one channel. A candidate is one (source, dedupe key); its
source, version, date and what a gate thinks of it alone are constants, so an
instance is a scenario:

| Gate | In the model |
| --- | --- |
| 1 product identity | `Match` |
| 2 version, 5 date too early, 7 evidence | `Bogus` |
| 3 source eligible | `standing` |
| 4 duplicate | `Duplicate` |
| 5 date in the future, 8 confidence, 9 applicability | `Doubtful` |
| 6 plausible transition | `Implausible` |
| 10 agreement of sources | `Disputing` |

Each use case is two steps: `BeginValidate`, `BeginPublish` and `BeginDecision`
read and keep what they saw in `proc` or `desk`; `Validate`, `Publish`, `Accept` and
`Reject` are the unit of work with every statement in it, and the report to the
queue. `PublishNothing` stands for the early returns. A rolled back unit of
work is `Crash` or `Refused`; `Mishaps` is the set of candidates whose handlers
may die. The unit of work is one atomic step here; `Pages` takes the statements
of publications apart. Extraction is one step whose two writes may be torn
(`Torn`).

Any number of handlers and a reviewer may be between their reads and their writes, on
the same candidate too: several workers without a heartbeat give no less. Three
histories note what such an overlap has touched, and the properties name them where
they except it: `raced` (candidates published while another use case had read them),
`hasty` (releases whose flag was decided on a reading of the latest that had passed) and
`misread` (items decided as they were before a validation changed them).

### Watcher

One source. `terms` stands for enabled, robots and terms review together,
`hash`, `failures` and `health` are columns, and `turn` numbers the values of
`next_check_at`, each of which is new. `ListDue` and `EnqueueDue` are one
scheduler tick. A check is `LoadSource` (or `RefuseCheck`), `Fetch`, `Save`
(applyOutcome and UpdateCheckState) and `Finish` (the check record, the extraction job and the
report); each is a step, and between any two of them anything else may happen,
a crash or an error included. `Fetch` is the one that waits for a vendor. `ReadForSync` and `ReadForActivate` followed by
`Upsert` are the command line, `CheckNow` is `check-source --force`. ETag and
hash always stem from one response, so 304 and an equal hash are one outcome.

### Fetcher, Robots

One host, several calls of Fetch. `entry`, `asking`, `wire` and `stalled` are the
robots cache with the mutex of its entry; `hostNext` is the next send time and
`taken` the used places of the host's semaphore; `call[p]` holds the stage a call
is in and the send time it has reserved. A stage is left by `Proceeds` (the
steps no other call can hold up) or `Acquires` (the mutex and the semaphore); any
of `Impatient` may be cancelled at any stage. The host changes its robots.txt,
falters and stalls as it likes. `Robots` is a fold over the lines of a file; a
name is a sequence of letters, for which prefix and wildcard matching is done
as the code does it: the greedy walk over the segments of a pattern is a recursive
function, the cursor behind each segment (`Cursors`).

### RateLimiter, TokenBucket, Gateway

An instant is a second and a token `Unit` fractions. `Allow(k, at)` is one call of
`allow`, whose clock was read `at`, up to `MaxLag` instants before it got the lock:
it sweeps (`Swept`), replaces a full map, refills, takes a token or computes
Retry-After. `TokenBucket` has buckets that fill with every instant and nothing
else; the mapping is `Level`, the refill computed for now.

A request of `Gateway` passes APIKey, Quota and the handler in steps of its own,
so several are between any two of them; its response goes through a shared
cache (`stored`) that may honour `no-store`, `Vary`, both or none; what is queued
(`work`, at most `Buffer`) is run by one `Worker` whose tasks may fail. `Close`
closes the queue. A consumer has several keys; a request comes with one or none, and
with an id of the server's (`None`, never used twice) or one the caller chose.
`rows` and `meter` are the usage rows, at most one for an id whatever the key, and the
monthly aggregate. History counts the requests that were metered (`served`), those a
month's quota admitted (`drawn`), and of these the ones whose record the month never got
(`lost`) and the ones whose id had a row already (`repeats`).

### RegistryFiles, Registry

A document is a record in which fields are `Omitted`; `ParseDocument` puts in the
defaults and refuses what the loader refuses. It is known by its place, which file it
is in and which document of that file it is; the loader does not mind two documents
of one name, so the later one wins (a parent: the last that names one). A sync is the
set of the visits that it still has to make (`todo`), a visit being one step of one pass
at one document: vendors, categories, parents, families, products with their aliases,
edges, sources, refreshes. Each visit is one transaction, and the next is always the
least (`Due`, `Before`). A sync may stop between any two; the next one takes another
checkout.

### CatalogueRows, Pages, Listings

`CatalogueRows` has no state: a `db` is a record of the tables, and its operators
are the statements. A page has seven columns (`SummaryRow`): the latest, the recommended
and the number of releases, their sources, when one was last verified, whether there is an open
conflict, and what that claims, for which stands when it was last stated. `Pages` runs units
of work statement by statement: publications, the validations that write a page or what a
page shows (`Validate`, `TouchVerified`), refreshes, imports. A statement sees what was committed when it began and what its unit wrote; one
that meets a row another open unit has written waits, and what it then writes was
computed before it waited. The import's facts are one step; several imports may run at once,
and one waits for a release that another is inserting; `Rollback` is possible
anywhere. A product has one open conflict at most: those of its channels are one here. `Withdraw` is the manual correction that the documentation describes.
`Listings` counts time
in half days, so that a window's edge may fall inside a day; a client asks
page after page while rows are published, added, resolved or retargeted. The three
listings are one: a row has a place (`RowPlace`), places have an order (`Ahead`), a page is a
set of the foremost rows behind the cursor (`Pages`), and the cursor is the place of the
last of them (`LastOf`). In which order an answer shows its rows is left out.

### Rules and the modules it asks

`Schedule`, `Guard`, `Robots`, `Collector` and `Documents` compute and keep nothing.
`Rules` asks one question from the small sets of `MCRules` and answers it in the
next step, and its properties compare the answer with a definition made the
other way round: robots.txt by what the governing rules say rather than line by
line, an interval by what was promised rather than how it is stretched (jitter included,
for it is the jittered instant that is stored: `NextWaits`), an
address by whether it lies in a denied range however it is wrapped. In
`Schedule` a duration is a number of quarters of an hour; the conversion of a product
that does not fit 64 bits is left to the machine, so there is a set of answers. A question
about a change of a page has two settings, the ones of the source's row, with which the hash
is made, and those of the collector's configuration, with which candidates are read.

### Migrations, Storage

`Migrations` reads a file as a sequence of lines, each an annotation or a sequence
of tokens (quote, two dollar quotes, comment sign, semicolon, word), with the
scanner's state carried from line to line. `Storage` runs `Up` for several
operators whose builds have any files (`Carries`), older ones or those of other branches:
what is applied is read once, each migration is executed statement by statement in a
transaction of its own, may fail on a schema its author did not foresee, and
the primary key of `schema_migrations` makes the second one fail. Workers start
when none of their migrations is missing, and put bodies: temporary file,
link, sidecar, row. Only the bytes of the object are synced: the name of the object and the
sidecar are `unwritten` until the system writes them back (`WriteBack`), and a `PowerCut`
loses any of them, while the database keeps what it committed. `Mishaps` bounds the
failures, deaths and power cuts.

## 3. Runs

Every run has a cfg of its name; `tlc -config MCPages.cfg MCPages` repeats one. `MCRaces` is a
second instance of the module `MCIngest`, and `MCJobQueue`, `MCWatcher` and `MCLimiter` need no module of
their own: they are instances of `JobQueue`, `Watcher` and `RateLimiter`. Bounds are CONSTANTS named in the modules. `CHECK_DEADLOCK FALSE` is
set where the run ends: every job done, every question answered, the clock or
the load of requests used up, every listing walked.

| Run | Question | Instance |
| --- | --- | --- |
| `MCJobQueue` | Is a job in no more hands than it was leased, does the queue implement its ledger, does every job settle? | 1 job, 2 workers of 2 slots, 2 attempts |
| `MCIngest` | Is nothing released uncleared and no dispute filed twice, whatever the gates say? | 4 candidates of 2 sources of unlike authority: one doubted, one of unclear product, one to be rejected; 1 handler and a reviewer, 2 items, 2 conflicts |
| `MCRaces` | Do candidates, releases, conflicts and catalogue agree when two handlers and a reviewer overlap, does a takedown hold, is every candidate judged? | 2 candidates, 2 handlers, a reviewer, one source whose standing changes, torn extractions |
| `MCWatcher` | Is a seen change kept, do checks keep coming, does a takedown drain? | 2 contents, 1 handler, 1 operator, 3 turns, 2 attempts |
| `MCFetch` | Is the pace kept, the policy recent, does every call end? | 2 calls, 1 slot, 3 robots.txt, 5 instants |
| `MCLimiter` | Is Retry-After enough, is the limiter a set of token buckets? | 3 callers, 2 tracked, 3 fractions to a token, 6 instants, a lag of 1 |
| `MCGateway` | Are quota, bill, plans and shutdown right? | 2 connections, a queue of 1; 5 requests for a quota of 1, 6 with a repeated id for a quota of 2; 2 keys that share an id; 2 months; 4 kinds of cache |
| `MCRegistry` | Does a sync write what is declared, in any order, stopped anywhere? | 10 checkouts, 3 syncs |
| `MCPages` | Do pages, latest marks, import and export survive overlapping units? | 5 releases, 2 of them to be published, 3 snapshots, 2 products, 2 channels, 2 units at once, 3 in all, 1 withdrawal |
| `MCListings` | Do walks deliver, is one window used everywhere? | 4 releases of 4 precisions, 4 vendors, 3 review items, pages of 1 to 3 |
| `MCRules` | Do the computed decisions mean what they should? | all small robots.txt, histories, addresses, configurations, feeds and pages of `MCRules` |
| `MCStorage` | Is the schema whole and an artifact readable whoever writes, and do workers start? | 2 operators and 2 workers of unlike builds, 3 sets of 2 files and one of 3 from two branches, 1 body, 2 mishaps |

The bounds let each hazard happen. One job and two workers are what it takes for
a lease to lapse or be overtaken and both reports to come in any order; jobs have nothing in
common but slots, and the theorems are about any number. Two
sources and a third candidate are the smallest dispute that changes its members;
two handlers are what it takes to overlap; three turns are a check, one that
overlaps it and one after both. Two calls for one slot let one wait for the
mutex, the slot or its send time while the other is cancelled there, and a
robots lifetime of two instants with five to live lets it run out twice. Three
callers where two are tracked overflow the map. Two connections, a queue of one
and its worker may hold three requests that have not been counted when one is admitted, so the fifth
shows the excess over a quota of one; with a quota of two and ids that repeat, the sixth does. Three units are two that overlap and one that
meets what they left; a fifth release is of a product that only the other
installation has. Months of two days and years of two months put every kind of
date on either side of a window that moves with the clock. Two builds, one a
migration behind, are what it takes for one operator to find the work of the
other done, half done or missing; two branches that share their last file are what it takes for
a file to be applied after one that its name precedes.

`AttemptCap` lies above `MaxAttempts`, so attempts beyond the limit are seen. `MaxItems`,
`MaxConflicts`, `MaxRows`, `MaxRefs`, `MaxWithdrawn`, `MaxBegun`, `MaxSyncs`, `MaxWalks`,
`MaxRetargets`, `MaxNow`, `MaxTransit` and a deployment's `load` and `months` bound what the
program does not; a step that would need one more does not happen.

What the properties say and what they except:

* `HoldersAreCounted` says of a job nobody overtook that one worker has it at most, and none
  once it is pending again, succeeded or dead, and that it is delivered no more than
  `max_attempts` times; every time it was leased over the head of a holder, by a lapsed lease or
  by the double lease, allows one more. `EveryJobSettles` needs the handlers of one worker to keep
  returning, and no more: those of another may hang for ever.
* `ImplementsLedger`, `ImplementsCatalogue` and `ImplementsBuckets` are refinements. The
  second says that releases are only added, one for each candidate, and the one
  flagged latest is the newest by date and then by discovery. PublishRelease decides on reads
  made before its transaction, and that costs what `Catalogue` names: a candidate of `raced` may get a
  second release, and a release of `hasty` may take or leave the flag. It speaks of one candidate
  at a time; that two candidates of one version become two releases is told below. The third has a
  slack of what flows in during the lag, and lets all buckets be refilled once
  more than `MaxTracked` callers have asked.
* `PublishedIsFinal` survives redelivery of any validation because `pathTo` finds
  no way out of published; it excepts `raced`. `ConflictHasItem` excepts a conflict whose item was
  `misread`. Both, like the refinement, are about any overlap.
* `TakedownHolds` allows exactly the publication whose permission had been
  asked before the takedown.
* `EveryCandidateIsJudged` is about validations that were enqueued: a candidate whose extraction died before it
  enqueued one stays behind unjudged, and nothing in the code looks for it.
* `RecordedChangeIsQueued` allows exactly the crash between `Save` and `Finish`, and
  `ChecksKeepComing` the dead check job of this very instant. `ChecksKeepComing` and `TakedownDrains`
  need that fetches return (`FetchesReturn`): the worker gives a check no deadline, and one that hangs over
  robots.txt keeps every other check of that host waiting for the mutex of its entry.
* `RateHolds` counts requests against crawl delays, not gaps: a slot may hold a call
  back and bunch it with the next. `RobotsIsRecent` bounds the age of a refusal by
  the long lifetime and that of a failure by the short one. `FetchesEnd` excepts a
  host that falls silent in the middle of a robots.txt, whose body the code reads
  without a deadline; the other calls then wait for the entry's mutex.
* `QuotaHolds` allows what is under way, that is the other connections, the queue and the
  task that runs, and adds what the meter never learns of: requests whose record was dropped or
  failed or came a month late (`lost`), and requests whose id had been recorded before (`repeats`), of which a
  caller who chooses its ids may have as many as it likes. `BilledOnce` has every
  metered request recorded, waiting, dropped, or with an id that has a row already, whichever key that
  row is of. `TiersKeptApart` says what a cache that honours `no-store` may do and what one that honours
  `Vary` may do; the first may give the anonymous window to a key.
* `PageIsCurrent` excepts, column by column, what another unit committed after the page was computed and
  before it was committed, a withdrawal, after which nothing refreshes, and the two columns that
  ValidateCandidate leaves as they were: when a release was last verified (a duplicate is
  confirmed after the refresh, or without one) and the versions and sources of a conflict that was
  open already (`Outdates`). `FlagStays` says that a latest mark stays, not that it is on the right
  release. `ExportLoadsBack` excepts an export with
  a commit between its two reads, and one that holds a withdrawn release.
* `OmissionNeverPermits` is about what files say or omit now; a row keeps what an earlier sync wrote
  into it, and terms that a file no longer mentions go back to the default that forbids.
* `WalkDelivers` speaks of the rows that kept their place; a review item whose priority
  changes may be seen twice or not at all.
* `CommitmentsHold` adds to each promise its share of jitter, and excepts the three rules that return
  before the promises are applied: a Retry-After, a rate limit and missing authentication. The watcher
  passes outcome, health, counts, the last change and the configured interval only; the rest of a
  question is what NextInterval answers to whoever asks. `GuardHolds` excepts hosts exempted by address.
* `RobotsSaysSo` speaks of files in which one group speaks to the agent. `ChangeIsSeen` speaks of sources
  whose row leaves out no more of a page than the configuration of their collector does (`Covers`).
* `RowHasBytes` excepts files that went with the power after their row was committed (`cut`). `SchemaIsWhole` is
  about any builds: a file comes after those that precede it in some build that has it, and not
  necessarily after those of another branch. `SchemaArrives` speaks of builds that grow out of one another
  and whose files load, and of what is done again: see Fairness.

Each module also has a `TypeOK` (`WatcherTypeOK`, `ListingsTypeOK`), which is a property of no
run: the type invariant of `JobQueue` is a theorem, those of `RateLimiter`, `Gateway`,
`Storage` and `Listings` are part of the inductive invariants of their proofs, and the others
document the variables.

### Where the code does something else than is written

Six more configurations are counterexamples to keep. Each names sentences of
a comment or document as properties, and TLC is expected to report each of them
violated (where there are several, check one at a time: TLC stops at the first):

| Configuration and property | The sentence | What happens |
| --- | --- | --- |
| `MCJobQueue` (`JobQueue`), asked for `LeasesAreRespected` | queue.go:127, queue_test.go:310: two workers never receive the same job | the double lease that queue.go:160-193 measures |
| `MCKillerJob` (`JobQueue`): `KillerJobDeadLetters` | queue.go: a job that kills its worker dead-letters | it is leased for ever: only Fail looks at max_attempts |
| `MCIngestSentences` (`MCIngest`): `FailedGateNeedsHuman` | review.go: acceptance is the one path past a failed gate | a publish job left by an earlier delivery publishes it |
| `MCIngestSentences` (`MCIngest`): `ItemsAreDecidable` | ADR-0020: the reviewer still has something to resolve | the conflict closed by itself, and no decision succeeds |
| `MCWatcherSentences` (`Watcher`): `ChangesAreExtracted` | queue.go, ADR-0015: a job cannot be lost, a check is retried safely | the hash is saved before the job, without a transaction |
| `MCWatcherSentences` (`Watcher`): `RateLimitedRecovers` | source health diagram: rate_limited returns to active | it is never dispatched again |
| `MCGatewaySentences` (`MCGateway`): `QuotaIsExact` | ratelimit.go:57-59, api.md:463: the quota is exact by design; api-commercial.md:154: its counter is written synchronously | a lost record or a repeated X-Request-Id is not counted, whatever is allowed for requests under way |
| `MCGatewaySentences` (`MCGateway`): `BilledPerKey` | api-commercial.md:159: the key is derived from (request_id, api_key_id) | it is "usage:" and the request id (middleware.go:724): of two keys that use one id one is not billed |
| `MCGatewaySentences` (`MCGateway`): `KeysGetTheirPlan` | middleware.go:785, api.md:30: an anonymous response must not be reusable for a caller who sent a credential | a cache that honours no-store and ignores Vary, which both say of CloudFront, stores the anonymous window and serves it to a key |
| `MCRulesSentences` (`MCRules`): `GroupsAddUp` | RFC 9309 2.2.1, which robots.go:326 cites: groups of one agent are combined | the first one is taken |
| `MCRulesSentences` (`MCRules`): `FreshnessIsKept` | scheduling.go:72: "the interval may never exceed" the paid freshness | jitter is added behind it, and two rules other than Retry-After return before it |
| `MCRulesSentences` (`MCRules`): `FailuresNeverHasten` | scheduling.go:193: the exponent is bounded "so the multiplication cannot overflow" | 17 failures of a source of base interval 24 h leave 64 bits, and it is due again after 15 minutes |
| `MCRulesSentences` (`MCRules`): `EveryChangeIsSeen` | config.go:147-152: one section selector restricts hashing and extraction | the hash uses the source row's settings (checksource.go:134), extraction the configuration's |
| `MCStorageSentences` (`MCStorage`): `ArtifactsAreDurable` | system-context.md:107: nothing is extracted from an artifact that was not durably stored | neither the directory nor the sidecar is synced (filesystem.go:254-291); after a power cut a row may be without them, and Put stores nothing again for a row that is there |

The rest was met while modelling and is either visible in a definition or left out
of the models.

Ingestion and review:

* Gate 4 is skipped when this validation is the one that resolves the product, so
  one product, version and channel may get two releases, which
  update-pipeline.md:162-164 excludes ("exactly one release, not two"); so does a candidate
  that two use cases publish at once.
* Deciding one candidate of a dispute leaves the others in human_review_required
  with no open item, which releaseSuperseded's comment (ingest.go) excludes.
* Resolve's WHERE clause (review_repo.go) asks whether an item is open, not whether it still is what the
  reviewer read: a validation that attaches a conflict to the item between the read
  (review.go:137) and the unit of work leaves that conflict open with its item closed.
* A candidate without a channel is compared with the newest of any channel.
* TouchVerified on a duplicate, and UpsertOpenConflict on a known conflict, refresh
  no summary. Of observations of one date the one validated last wins.
* The detail of a review item is several queries without a transaction.
* A publish job that was refused stays dead; extraction is keyed by source and
  hash, so content that returns (A, B, A) is not extracted again.

Watching and fetching:

* retry_after_until is read and never set, although update-pipeline.md:113 says a
  Retry-After is honoured; a Retry-After above the maximum interval is clamped, and
  its product with a second may overflow.
* `sources activate` says it does not touch the compliance columns and upserts all of
  them as it read them.
* An address exempted by host name stays refused, for CheckAddr sees the literal.
* Change detection hashes text: an attribute that changes, or empty words that
  move between entries of one section, are no change.
* validateDateField accepts a layout without a year; a constant that its own map
  does not list loads and skips every candidate.
* Registry.For trims a collector id and Supports does not; platform/wire.go builds
  the registry without WithCollectorLimits.

Catalogue:

* A withdrawn release in a snapshot violates releases_withdrawn_consistency, and so
  does a mark that another release holds: the whole import fails, though
  snapshot_repo.go:123 says that an export must not produce such a file.
* The export reads facts and mappings in two statements without a transaction, and
  its files are replaced one by one; the import does not read the manifest.
* Publish reads LatestForProduct before its unit of work, so an older release may
  take the mark. GET /latest reads the recommended release unfiltered, and page and
  endpoint may name different latest releases.
* primaryCategorySlug takes the first category, which is the first by alphabet.
* registry.go:441-464 never resolves the family of a source: a foreign key fails
  where ~135 promises a validation error. Parents of categories vanish between two
  passes, only a category that is its own parent is refused, a source whose file
  was removed stays enabled, and `runs` that lists a product twice breaks a unique key.

API and storage:

* apps/api passes neither APIKeys nor Usage, so every request with a key is answered
  401 there, and never calls Close. Requests refused by the limiter are metered,
  panics are not; the tier label is always "anonymous" (middleware.go:324-329).
* The limiter's clock is read outside its lock, so lastSeen may move back.
* Put reports "created" to both of two first writers (ports.go:578 excludes it), and
  the times in sidecars may move back.
* Of two `migrate up` at once one may fail and has to be run again, which the deployment does
  not do (docker-compose.yml:92 has `restart: "no"`); and a build of one branch may apply a file after
  one of another branch that comes later by its name. Inside a
  StatementBegin block quotes are not followed, so "-- +goose Down" in a body counts as
  an annotation (migrate.go, ~270); `--` ends a line even inside a literal.

### Fairness

* `JobQueue`: the clock (a backoff elapses, a lease lapses), a worker that polls, and the report of a
  handler that is done. Nothing makes a handler return, for worker/main.go:221 hands it the context of the
  process, which has no deadline. Liveness is claimed once crashes and lost reports stop
  (`MishapsStop`) and while the handlers of some worker keep returning (`SomeWorkerKeepsUp`).
* `Ingest`: delivery of owed jobs, which `JobQueue`'s `EveryJobSettles` gives while handlers return, and the
  end of its own handlers, which wait for the database only. No reviewer, source or operator has to do
  anything.
* `Watcher`: the scheduler's ticks, the clock, delivery, and the steps of a check that wait for the
  database. Nothing makes a fetch return, for the body of a robots.txt is read without a deadline
  (robots.go:225); that they do is a premise (`FetchesReturn`), as is `MishapsStop`. No vendor, maintainer or
  operator has to do anything.
* `Fetcher`: the clock, a host that answers for its robots.txt, and goroutines that
  run. Only a mutex and a semaphore need strong fairness, for others may take them
  in between: Go's serve their waiters in turn. No caller has to give up.
* `Gateway`: the background worker, a goroutine whose tasks have a deadline.
* `Listings`: the requests of the one client, which answer while they are read.
* `Storage`: an Up or a Put that is under way goes on. Nothing runs `migrate up` a second time: the
  deployment runs it once (docker-compose.yml:92, infrastructure/docker/README.md:78), and the workers wait for it
  to succeed. That somebody runs it again as long as a migration is missing (`RunAgain`), and starts a worker
  again that finds its schema (`StartedAgain`), are premises of `SchemaArrives`; `Mishaps` ends.
* The other modules state safety only and assume nothing.

Weak fairness is enough everywhere else: what is owed stays owed until it is taken.

## 4. Proofs

Each holds for any values of the constants that meet the named assumption of the
module (`JobsAssumption`, `GatewayAssumption`, ...), which TLC evaluates on every run. Three
proof modules are about two systems each (`Registry` and `Watcher`, `Fetcher` and `Rules`,
`Pages` and `Listings`) and extend both, which is why the second of each pair has a
`WatcherSpec`, `RulesSpec` or `ListingsSpec` instead of a `Spec`, and names its `Init`,
`Next` and `vars` likewise.

`JobQueueProofs`, for any finite or infinite sets of jobs, workers and slots and
any attempt limits:

* `TypeCorrect`: `Spec => []TypeOK`.
* `HoldersCounted`: `Spec => []HoldersAreCounted`. `Counting` adds to the property the types
  (`Typed`, which is `TypeOK` with the shape of a slot) and that a job that is pending or not yet
  submitted has an attempt left (`AttemptsLeft`), without which the bound on the attempts is not kept
  by the next lease. That a pending job is in no hand it was not overtaken in is the bound itself.
  Its lemmas count the places that have a job as each step adds or empties one.
* `QueueImplementsLedger`: `Spec => ImplementsLedger`. Each action is a step of the
  ledger or a stutter; `Known` (`Typed` and `HeldIsKnown`) supplies that a job in a
  worker's hands was submitted and that a handler that says it returned did.

`RegistryProofs`, for any checkouts, documents in any files and in any order, any number
of syncs and publications between them. One invariant carries all three, `SyncInv`:

* `SyncsWriteTheirDocuments`: `Spec => SyncWritesWhatIsDeclared`. What holds at the end of a
  sync says nothing of its middle. `Said` says of every pass what the tables hold of the
  documents visited so far: the last document of each name among those, and nothing
  newer or older. `InOrder` says that the visits made are the first ones of the
  schedule, so that the passes a step relies on are complete. There is one lemma for
  each kind of row (`VendorSaid` to `SummarySaid`), and publications may refresh a summary
  at any moment (`SyncPublishes`).
* `OrderNeverRefuses`: `Spec => []RefusedOnlyForADangle`. By the same `Said`: when a step looks
  a name up and does not find it, the whole pass that would have written it is done
  (`RefusedDangles`).
* `DefaultsForbid`: `Spec => []OmissionNeverPermits`. From what a row can have been written
  by: every default of robots or terms that the loader fills in forbids (`PermissionIsWritten`).

Its second part is about `Watcher`: `ChangesAreRemembered`, `WatcherSpec =>
[]RecordedChangeIsQueued`, for any handlers, operators, contents and bounds. The property says
nothing of hashes that handlers loaded and will write back; `Remembered` adds that each of
these is accounted for as well, which is why overlapping checks lose nothing.

`IngestProofs`, for any candidates, sources, terms and handlers that overlap with one another and the
reviewer in any way, with any `Mishaps`:

* `ReleasesAreCleared`: `Spec => []ReleasesWereCleared`. A release may follow its
  clearance by several steps of several handlers, so `Clearance` adds `Warranted`:
  a publish job exists only for a candidate that passed some validation, and a
  publish handler works only on one.
* `TakedownIsKept`: `Spec => TakedownHolds`. From the shape of `rows` alone, one step
  at a time: only `Publish` and `Accept` add a release, and `Accept` asks for the terms.
* `QueueStaysShort`: `Spec => []QueueHasNoDoubles`. The property counts open conflicts;
  `ShortQueue` says the same by equality of ids. `Routed` says what `routeToReview`
  writes: an item about a subject no other open item is about.

* `PublishedStaysPublished`: `Spec => []PublishedIsFinal`. `Finality` adds that a candidate to be
  validated has a row (`Stored`) and that, of a candidate nobody raced, what a handler read still holds: a
  validation of a released one has read it as published, and a publication is the first
  (`SoundReads`). `WalksNowhereElse` says where `PathTo` can lead, and so that there is no way out of
  published.
* `ConflictsReachAHuman`: `Spec => []ConflictHasItem`. That some item names the conflict
  is not inductive: the item may be retargeted, superseded or closed. `Disputes` says
  that the conflict's own link names an open item that names it back, or one that was misread
  (`Linked`), and that whatever takes part in a dispute has a product (`Attributable`), without which
  an item would be retargeted to a candidate that cannot be in one.
* `PipelineImplementsCatalogue`: `Spec => ImplementsCatalogue`. Each action is a step of
  `Catalogue` or a stutter. `Seen` supplies that what is shelved was seen and that no
  two candidates were first seen at once, so "newest" names one.

`FetcherProofs`, for any finite set of calls, any of them cancelled at any stage, any
policies, slots, minimum interval, redirects, lifetimes and transit time:

* `CrawlDelayIsKept`: `Spec => []RateHolds`. Requests sent say nothing of those about to
  be. `KeepsPace` counts for every future instant what was sent and what may be sent
  by then, and says that `hostNext` lies behind all that was reserved: a cancelled call
  leaves a gap and never frees one, and a smaller delay learned later starts after it.
* `HostIsHeardSoon`: `Spec => RobotsIsRecent`, for lifetimes that are not zero (24 hours
  and 10 minutes by default; with zero nothing is reused and the bound is reached).
  `Recent` dates what is on the wire and what is cached by when the host last said so;
  from the cache a call takes over that date with the answer.

Its second part is about `Rules`, for any questions whatever:

* `CommitmentsAreKept`: `RulesSpec => []CommitmentsHold`, for any tuning and jitter. A product beyond what a
  duration holds may become any duration at all (`IntervalsAreDurations`); the promises
  are applied after it and bound it from both sides (`PromisesBound`), and jitter keeps the order
  of intervals (`JitterKeepsOrder`).
* `GuardIsKept`: `RulesSpec => []GuardHolds`, for any denied ranges, exemptions and resolver.
  What is dialled has passed `CheckAddr`, and of a literal `ValidateURL` asks the same
  (`GuardIsWhole`).

Its third part is about the matcher of `Robots`:

* `GreedyWalkSuffices`: for any segments and path over any letters, the walk, which takes
  each segment where it first fits and never goes back, matches exactly when the
  segments have places in their order at all (`Placed`). The walk is never behind a
  placement (`WalkIsAhead`), and where it ends it has found one (`WalkPlaces`). Both are
  inductions along the segments, by the least segment at which they would fail.

`PagesProofs`, for any units open at once, any releases, products, files and
registries. The assumption says that a candidate is of one registered product and
that no file holds a release that is yet to be published here (`PublishRelease` writes
one mapping and mints the id). All four theorems rest on one invariant, `Consistent`: marks
are unique, what each unit has added, marked, cleared and read agrees with the tables
as they will be when it commits (`Sane`), and no two units hold the same place of an
index (`Apart`). It is written of a unit's record and of tables, so that a commit of
another is a change of the tables beneath.

* `PagesStayCurrent`: `Spec => []PageIsCurrent`. Every column of a page in the hands of a unit is what the
  tables would say after that unit, unless a commit in between is noted or the unit itself writes
  behind its refresh (`Current`, `Outdated`).
* `LatestIsKept`: `Spec => FlagStays`. Marks come with the ones that they displace, and
  units that touch one place wait for each other, so that a commit that clears a mark
  sets one in the same place.
* `ImportsAreWhole`: `Spec => ImportIsWhole`. What a file holds and the tables do not is
  what its unit adds, from the insert on and whatever commits meanwhile.
* `ExportsLoadBack`: `Spec => ExportLoadsBack`. A file written between no commits holds the
  lines of the tables (`Exported`), which have no two marks in one place.

Its second part is about `Listings`, for any rows, limits, calendar and changes under way.
Both theorems rest on `WalkInv`: every row shown has been passed by the cursor
(`SeenIsPassed`), and every row that was there throughout has been shown, lies ahead of the
cursor, or has left the window (`RestIsAhead`).

* `WindowsAreKept`: `ListingsSpec => []WindowIsKept`. A date of any precision lies within the
  window as the SQL computes it exactly when some day that it can mean does
  (`WithinIsEntitled`).
* `WalksAreComplete`: `ListingsSpec => []WalkIsComplete`, the safety half of `WalkDelivers`.
  It needs that a window only ever loses rows as the clock moves on (`LaterShowsLess`), that
  places are ordered (`PlacesAreOrdered`), and that the cursor is the last place of the full
  page (`PageServed`).

`LimiterProofs`, for any callers, rates, capacities, sweeps and lag. The assumption
asks that a bucket left alone for `IdleTTL` is full, without which an eviction would
be a gift; the code's constants satisfy it.

* `RetryAfterSuffices`: `Spec => []RetryAfterIsEnough`. `Promised` says the same of the
  instant that was promised rather than of those at or after it: the bucket as it
  is will then hold a token. The lemmas before it say that refilling in two goes
  is refilling in one, that an idle bucket is full, and that rounding up suffices.
* `LimiterImplementsBuckets`: `Spec => ImplementsBuckets`. The mapping computes each
  bucket's level for now (`Level`). A request that read its clock earlier finds less
  than the mapped bucket has, by what flows in during `MaxLag` at most; that is the
  slack (`LevelServe`). `Found` is what the abstract request is served from: the
  levels, or full buckets when the map was replaced (`ReplacedForMany`).

`GatewayProofs`, for any requests, ids, deployments, connections and buffer:

* `BilledForItsRows`: `Spec => []BilledOnce`. `Billed` adds what the queue and the worker carry (`Books`): a
  record that waits is that of a request which was metered under the id it had, and no two are of one request. Then
  a counter grows in the transaction that adds the row, and only if it adds one.
* `QuotaIsKept`: `Spec => []QuotaHolds`. `net` is what a month admitted less what it lost and what was
  repeated. `Accounted` says where each of these requests is:
  in the counter, on a connection, in the queue or in the worker's hands. At the
  moment of an admission the counter is below the quota, and there are only so many
  of the others; the lemmas on `Carrying` and `Queued` count them.
* `TiersStayApart`: `Spec => []TiersKeptApart`, for every kind of cache. `Tiers` adds that what is
  stored is the answer its caller got, that a cache that heeds
  `no-store` holds nothing of a key's, and that a request whose key resolves now had
  it resolve when it came, for keys are only ever revoked.

`StorageProofs`, for any operators, workers, builds with any files, and bodies:

* `ArtifactsAreReadable`: `Spec => []RowHasBytes`. `Stored` adds what each stage of a Put
  may rely on: an object under its final name is whole, and once a worker is past
  a stage, what that stage made is there, whoever made it, until the power goes, and every
  worker with it.
* `SchemaStaysWhole`: `Spec => []SchemaIsWhole`, under the hypothesis `FilesDoWhatTheySay`:
  of every file all of whose statements PostgreSQL executes, the statements are
  what its author means. `MCStorage` checks this of its files. `Migrated` adds what each
  operator under way knows: what it saw applied is applied, everything that precedes its
  migration in its own build is, and the transaction it has open has executed so many statements; and
  of two operators that have one migration in hand, only one can hold its key (`HeldOnce`).

Only model-checked, and why:

* Liveness is out of the prover's reach: `EveryJobSettles`, `EveryCandidateIsJudged`,
  `ChecksKeepComing`, `TakedownDrains`, `FetchesEnd`, `CloseReturns`, `SchemaArrives`,
  `WalkDelivers`.
* `RobotsSaysSo`, `DialectsAgree`, `ExtractionIsFaithful` and `ChangeIsSeen` of `Rules`
  compare what folds over lines, items and fields make of a document with a definition that
  folds nothing. That is induction over data, of operators from a library of folds; of all
  this only the walk of the robots matcher is proved, as a recursive function.
  `FilesDoWhatTheySay` of the migration parser is of the same kind.
* That `MatchesFrom`, by which `RobotsSaysSo` reads a pattern, says the same as places for its
  segments: cutting a pattern at its stars is such a fold.

## 5. What is not modelled

* Summaries, events, audit rows and TouchVerified in `Ingest`: no rule reads them
  back, and `Pages` has the summaries and TouchVerified.
* Candidates of undetermined type, advisories, and more than one product or
  channel in `Ingest`: `Pages` has products and channels without the gates.
* More than one product or source per `Watcher`, more than one host per `Fetcher`: they
  share no row and no slot.
* A second scheduler; its enqueue would be a no-op under the same key.
* Dead validate jobs, which are the same as validations not delivered.
* Two writers of one release in `Ingest`'s units of work: one atomic step there.
* Version comparison, slugs and the applicability rules as string functions; the
  syntax of selectors and regular expressions; excerpts and evidence.
* The length of months: AddDate's normalisation at the end of a short one.
* Product search, counts and detail pages; presenters beyond one flag.
* Times in artifact rows and sidecars, which nothing reads; there is no sweep.
* The down halves of migration files, which are parsed and nothing runs.
* Connection set-up, metrics, configuration from the environment, the web front
  end, and the in-memory repositories of the unit tests.

## 6. Plan

1. Proofs: the groups of a robots.txt as an invariant of the lines read so far, and with it
   the rest of `RobotsSaysSo`.
2. The mechanism behind the double lease, should its authors find it: `MayTake` stands for it.
3. Version transitions and the comparison of versions beside the other rules.
4. Product search and the detail pages in `Listings`; several channels in `Ingest`.
