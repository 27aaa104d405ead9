# Formal models of the Xiaohongshu data dashboard

The dashboard collects the notes, metrics and comments of the accounts an
administrator manages, keeps every observation as evidence, and turns the
evidence into daily, weekly and monthly reports. This directory holds TLA+
models of the parts whose correctness depends on the order of things (queues,
retries, crashes, leases, overlapping transactions and requests), the TLC
configurations that check them on small instances, and theorems checked by TLAPS.

Run a check with `tlc -config SyncJobs_one.cfg MCSyncJobs`, a proof with
`tlapm SyncJobsProofs.tla`.

## 1. The system

Paths are relative to the repository. *Hard* names what tests hardly reach.

| Component | State | Operations and neighbours | Hard | What makes it correct |
|---|---|---|---|---|
| **Account sync jobs** `apps/worker/src/sync`, `apps/api/src/jobs` | `SyncJob`, `SyncCheckpoint`, `CommentSyncCompleteness`, notes, comments, BullMQ queue `sync-account` | the API creates and cancels rows; a one-second dispatcher adds pending rows to the queue; worker slots run stages authorize, notes, metrics, comments, replies, complete | late adds, retries, crashes at any await, stalls, two jobs of one account, connectors that repeat cursors | no two attempts of a job overlap; a resumed run continues with the first page not stored; *succeeded* means everything found was followed through; jobs end |
| **Report rebuild outbox** `report.scheduler.ts`, `saveMetrics` in `sync.repository.ts` | `BackfillEvent` (state, claim token, lease), BullMQ queue `reports` | a changed observation and its event are one transaction; `dispatchPending` (after every commit and every minute) claims, enqueues rebuilds, marks dispatched | overlapping invocations, lapsed leases, answers lost after the commit, crashes | dispatched means every report affected at commit has its rebuild; dispatched is final; no event is forgotten |
| **Report generation** `report.service.ts`, `report.processor.ts` | `Report`, `ReportMetric`, an advisory lock per scope | schedule, load evidence, append a version | two slots on one scope, retries after a stored version; series with two definitions | versions numbered in commit order; the latest report agrees with the evidence once everything is quiet, and with the dashboard |
| **Metric evidence** `saveMetrics`, migrations 0013-0017, 0022, 0023 | `MetricDefinition`, `MetricSnapshot` revisions | save observations, supersede, move to a new definition; imports write the same tables without locks | two jobs on one identity, imports that read before they write, definition transitions | sync jobs never collide; no idle revision; definitions tile the time; imported evidence is reported |
| **Rolling scheduler** `sync.scheduler.ts`, `rolling-sync-window.ts` | none (rolling jobs in the sync queue) | page through accounts, enqueue one job per date (not started by `worker.module.ts`) | accounts that come and go while paging, job ids that are still known | every account and every date of the window; the month is asked for once more on its end |
| **Notifications** `apps/worker/src/notification`, `apps/api/src/notifications` | `Notification`, `PushSubscription`, queue | publish, create once by event id, push, drop gone subscriptions | crash between creation and push, stalls, two handlers of one job | at most one push of an event to a browser; the event gets into the inbox |
| **Accounts and revocation** `apps/api/src/accounts` | `Account.revocation*`, credentials, capabilities, audit log | deactivate, reauthorize, remove (prepare, connector call, complete or fail) | crash or concurrent request between the transactions, late callbacks | a revocation deletes its own credential and no other; kept data is never deleted |
| **Local collector** `apps/collector/src`, `apps/api/src/local-collector` | browser session, one collection run, import maps in memory | start, refresh, close, collect; the API polls and imports | refresh overlapping close, runs replaced during an import, restarts of either process | data is stored whole, and only under the identity it was collected under |
| **Douyin sessions** `apps/collector/src/douyin`, `apps/api/src/douyin-local` | `sessions.json`, managers, browser profiles, one run per session | create, status, refresh, close, collect; the API binds and imports | read-modify-write of the file, close against lookup, identities of other users on the page | the file and the profiles agree; a session keeps the account it was restored for |
| **Imports** `packages/database/src`, `packages/self-scrape-import`, `apps/worker/src/import` | accounts, notes, snapshots, comments, events | import one collected run in one transaction; import a file line by line | concurrent imports, replays, a command that dies between two lines | replays change nothing; changes raise an event; a run recorded as succeeded stored its file |
| **Domain algorithms, dashboard** `packages/domain`, `apps/api/src/dashboard` | none | aggregate a series, segments of definitions, periods, windows | boundaries, decreasing counters, revisions in any order | card, daily rows and report agree with the counter and with each other |
| **Administrator login** `apps/api/src/auth` | `AdminSession`, `LoginAttempt` | login, session, logout | one transaction under an advisory lock: nothing interleaves | not modelled |
| **Connector** `packages/connector` | none | pages, metrics, capabilities | the adversary of the models | external: arbitrary answers |
| **Export services, web dashboard, page parsing, credential cipher** | none that lasts | queries, pages, parsing, encryption | | not modelled: no state change, pure I/O or a library |

How they interact: the API and the worker share only PostgreSQL and Redis. The
API writes a pending row; the dispatcher carries it to BullMQ; a slot runs it and
commits observations; a commit triggers the outbox; the outbox feeds the report
queue; both queues' workers publish notifications. The collectors are processes
of their own that the API drives over HTTP and whose results it imports, which
ends in the same evidence and the same outbox.

## 2. Modules

| Module | Models | Proofs |
|---|---|---|
| `SyncJobs` | the life of the sync jobs of one account | `SyncJobsProofs` |
| `Outbox` | abstract: what the rebuild outbox promises | |
| `BackfillOutbox` | detailed: evidence, outbox, report queue, report worker | `BackfillOutboxProofs` |
| `MetricEvidence` | the tables of the evidence and their three writers, statement by statement | `MetricProofs` |
| `MetricSeries` | the numbers shown: dashboard and report over one series | `MetricProofs` |
| `RollingSync` | ticks of the rolling scheduler and the jobs they queue | `RollingSyncProofs` |
| `Notifications` | publisher, queue, worker, inbox and subscriptions | `NotificationsProofs` |
| `AccountRevocation` | the removal of an account by repeated requests | `AccountRevocationProofs` |
| `LocalCollector` | browser session, collection run, the API that imports it | `LocalCollectorProofs` |
| `DouyinSessions` | session file, managers, browsers, runs, the API | `DouyinSessionsProofs` |

Every module `M` that is checked has `MCM` with the small instances. A step is
what happens between two awaits: one database transaction or statement, one
queue command, one connector, browser or HTTP call together with what is done
with its answer; everything else may happen in between. That is how the code
yields, and processes share nothing else. A crash forgets what a process held in
memory and keeps rows, files and queue entries; a fault is a call that fails. The
names are the code's. Operators that come under a comment *Mutant* are plausible
mistakes in the operator after them; no action uses them, they serve to show
that the properties notice.

**SyncJobs.** `status`, `stage`, `verification`, `reason`, `ended` are the columns
of `SyncJob`; `ckpt` is the checkpoint of each (job, stage, entity): `Absent`,
a cursor, or `Done`; `queue` is what BullMQ holds under the job's id; `scan` is
the list the dispatcher read before it adds; `run` is the handler of each slot
with the variables it keeps across awaits (`todo` is the list read when a stage
is entered, `seen` the cursors of the page loop, `fresh` the comments whose events
are still to be published). `Create`/`Cancel` are `JobsService`;
`ReadPending`/`AddToQueue` the dispatcher; `StartJob`, `Authorize`, `Enter`,
`AskSynced`, `AskCapability`, `Open`, `Save...Page`, `SaveMetrics`, `Announce`, `Advance`, `Complete` the run in
`sync.service.ts`; `CallFails`, `MarkIncomplete`, `RecordFailure` its error path;
`Return`, `Throw`, `Stalled`, `Crash` the end of an attempt. The stage metrics is
one call and one transaction for each note and is the only stage without pages.
`owed` and `found` are history, never read by an action.

**BackfillOutbox, Outbox.** One note of one account; a snapshot is a value per
business date. `Save` commits an observation and its event, whose id is the pair
(date, observation) because the code's id is a digest of them. `event` is the
outbox row, `hand` what each running `dispatchPending` holds (its token is its own
name), `jobs` and `work` the report queue and its slots, `lock` the advisory lock
of a scope, `versions` the stored reports. A report's content is the dates it
waits for or the snapshots it was computed from, so two reports differ exactly
when they are computed from different evidence. `missed` and `overlapped` are history:
the scopes whose last change no rebuild will bring, and those two slots carried at
once when they were last loaded. In `Outbox` events are absent,
committed or dispatched, an event owes the scopes that had a report it affects
when it was committed, a rebuild is sent at most once, and an event is dispatched
only when nothing owed is unsent; the refinement maps `phase` to the row's status
and `sent` to the ids the report queue has ever held.

**MetricEvidence.** `defs` and `rows` are the committed `MetricDefinition` and
`MetricSnapshot` rows (the revisions of an identity in order, the last one
active); `tx` is each writer's transaction with its uncommitted rows: `puts` the
revisions by identity (`Written` are the identities it wrote), `add` and `cut` the
definitions it inserted and those it changed. A sync job
(`saveMetrics`) takes its advisory locks in the order of the code and sees what is
committed; an import reads, then writes, without them. Unique indexes make a
writer wait for an uncommitted row and then fail (`conflict`), the interval
constraint of migration 0013 fails as in PostgreSQL (`definition`), a cycle of
waits ends one transaction (`deadlock`). The import command is a loop of such
transactions, one per line, between two audit entries; the id of a line's event
is made of the revisions the line wrote, as in the code. `events`/`built` reduce
the outbox to its promise: an event is pending until a rebuild has read the evidence
of its date.

**MetricSeries.** No process: the state is the set of active snapshots of one
series, which corrections, backfills and imports change in any order, and `opens`,
`cut`, `published` and `imported`, chosen at the start; an import stores a zero as
`zero`, which reports do not read, `saveMetrics` as `available`, which they do
(`Reportable`). `Card` and, for the month to date, `DailyCard`, `Daily` and `Trend` are
`dashboard.service.ts`; `SegmentMetric`, `MissingDays` and `Report`, a metric for each
definition, are `report.service.ts`; both call `Aggregate`, the `cumulative_delta` of
`metric-aggregation.ts`.

**RollingSync.** `tick` is the running `enqueueRollingSyncTick`: `ReadPage` reads
one keyset page and validates it, `Add` queues one job (ignored while its id is
known), `NextPage` goes on. `steady` collects the accounts eligible during the
whole tick. The sync worker is reduced to what a rolling job may do: `Take`,
`Store`, finish, fail, be retried, be cleaned up.

**Notifications.** `queue` is the BullMQ job of each event, `run` the handler in
each slot; a slot that lost its lock goes on without it, beside the next handler
of the same job. `inbox` is the row `createOnce` inserts, `pushed` counts
deliveries.

**AccountRevocation.** `row` holds the revocation columns, `req` the requests, which
die at any step, `prepared`/`completed` the audit log. `grant` is what the platform
thinks of each credential, and `calls` the revocation calls under way, which may
arrive after their request was answered with a timeout.

**LocalCollector.** `session` are the fields of `LocalXhsSessionManager`, `calls`
its requests in progress; browsers are numbered, so that an adapter of a closed
one is told from that of the next. `run` is `CollectionRun`, which reads the lists and
then visits the notes: `visit` is the note whose scope nameless comments get, `open`
the page that answers (0 for the lists, which are open from the start until the first
navigation commits), `filed` what was filed under which note. `clicks`, `api`, `importers` and `db` are
`LocalCollectorService`: the two calls of a click (bind, then start), its two
maps, the `importRun` loops and the rows they write.

**DouyinSessions.** `file` is `sessions.json`; every request that changes it reads
it, awaits and writes its copy back (`push`, `bind`, `drop`). Managers carry a
number, because a request keeps the manager it found although `close` has
removed it. Writing the file, entering the manager and showing the account are steps
of their own, as are the end of `managers` and of the entry in `close`. A reply with
an authenticated session waits in the API (`reply`), where it is bound and survives a
restart of the collector; the listing of the sessions makes such replies too. What a
request does with a manager that another has *replaced* in the registry is left out,
but for the file it writes. `overlap` records that two updates of the file overlapped,
`ever` which accounts it has named.

### External behaviour assumed

BullMQ: `add` is ignored while a job of the same id is held, failed ones included;
`removeOnComplete: true` frees the id (sync jobs), an age of eight or 35 days does not
within the horizon of the models (report and rolling jobs); an attempt that throws
is retried up to the limit unless the error is unrecoverable; a job whose process
died, or whose lock lapsed, is found stalled and run again up to
`maxStalledCount`. PostgreSQL: transactions are atomic and read committed rows,
`pg_advisory_xact_lock` is released with its transaction, a unique index blocks on
an uncommitted row. Push services: an endpoint is gone for good or not. The
browser: the user, the pages and the closing of windows are arbitrary. The
connector: any capability answer, any page of items, any next cursor, any failure.
`worker.module.ts` wires the mock connector at this commit; the code around it is
written for every connector, and so are the models. In `BackfillOutbox`,
`OnlyAwaiting = TRUE` is the rule for mock accounts; `FALSE` is the one for
official accounts, which only `saveMetrics` serves, and for self-scraped accounts,
whose imports use the same outbox.

## 3. Runs

| Run | Instance | Question |
|---|---|---|
| `one` | 1 job, 2 slots, 2 notes, 1 comment, 2 cursors, 2 attempts, 1 stall, 2 crashes, 1 fault; fair | does one job survive everything that can happen to it, resume where it stopped, agree with its queue entry and end? |
| `two` | 2 jobs, 2 slots, 1 note, 1 comment, 1 cursor | do two jobs of one account, a cancelled job and a late dispatcher keep out of each other's way? |
| `outbox` | 2 dispatchers, 2 report slots, 1 scope, 1 crash, 2 faults | does the outbox keep its promise with overlapping dispatchers, and are versions in order? |
| `live` | 1 dispatcher, 2 report slots, 1 scope, 2 values, 3 observations, 2 attempts, no stall, 1 crash, 1 fault; fair | does every observation reach the report, unless it is known to be missed? |
| `evidence` | 2 sync jobs, 1 import, the import command, 2 keys, 2 capture times, 2 values, 3 transactions, 1 fault | do interleaved writers keep revisions and definitions consistent, and are imports reported? |
| `series` | 2 days of 3 instants, 1 instant before, counts 0 to 2, saved or imported | do card, daily rows and report agree with each other and with the counter? |
| `collector` | 2 accounts, 2 notes, 2 browsers, 3 requests, 2 runs, 2 polls, 1 fault; fair import | is what is stored a whole run of the right account, and does every import end? |
| `sessions` | 2 sessions, 2 accounts, 3 requests (2 at once), 1 run, 1 fault | do the session file, the profiles and the bound accounts agree? |
| `removal` | 3 requests, 2 operations, 2 credentials | do overlapping, dying and late removals delete what they should and nothing else? |
| `inbox` | 1 event, 2 endpoints, 2 slots, 3 attempts, 1 stall, 1 loss, 2 faults, 2 publications; fair | is an event pushed once at most, and does it get into the inbox? |
| `rolling` | 2 accounts, pages of 1, days 0 to 2 with firsts 0 and 2, 2 ticks, 1 change, 1 fault | does a tick cover its window while accounts come and go? |
| `rebind` | 1 session, 1 account, 2 requests | violated: a session cannot be bound again after its first import |

Why the bounds are enough: two of a kind are where interleavings begin, and the
code never compares more than two. Three requests or transactions let a third
meet what the first two left. Two cursors make a repeated cursor different
from the one a run was resumed from; two attempts make a first, a resumed and a
last one (the limits of the code are the constant `MaxAttempts`). Two polls stand
for the 240 of `importRun`: one that goes on and the last. A fault strikes at every
point. Two days with three instants have a first, an inner and a last
instant, which is where the segments, the daily rows and the report draw their
lines. `CHECK_DEADLOCK FALSE` is in every cfg that needs it, because a system in
which all is done, or all bounded counters are used up, has nothing to do. The
proofs have no such bounds.

Symmetry is used in safety runs only (`two`, `outbox`, `evidence`, `sessions`,
`removal`), over sets whose members the module treats alike.

Four state constraints cut parts apart. `OneGroup` (`evidence`): the
rows, locks, intervals and events of sync jobs and of imports have different
sources, so behaviours are explored one group at a time. `OneSignsIn`
(`sessions`): two sessions meet in the session file only, so one of them opens a
browser and collects. `TwoAtOnce` (`sessions`): two of the three requests are in
progress at once. `NoOverlap` (`sessions`): after two overlapping updates nothing is promised of
the file; the first state after an overlap is still checked, and the proofs
include all that follow.

What the less obvious properties say:

- `ExclusiveRun`, `ResumePoint`, `StageForward`, `DoneStaysDone`: attempts of one
  job never overlap, continue where the durable state says, and never undo.
- `SucceededIsComplete`, `HonestCompleteness`: what the rows say of a whole
  collection is true although several runs, jobs and crashes wrote it.
- `RowAgreesWithQueue`, `JobsSettle`: no job is running for nobody, and each one
  ends, however often the process dies within BullMQ's stall limit. Both hold until
  a call of the worker's own fails: `startJob` is outside
  the try block and a failing `fail()` is not repeated, so after a fault a row
  may stay running (or pending, to be added again and ignored) for ever. The
  conclusion of each is guarded by `faults = 0`. Beyond the stall limit (run `one`
  gets there with its second crash) BullMQ ends the job, its `failed` handler only
  logs, and the row stays running: `StallsSettle` is what would have to hold.
- `CaughtUp`: when the outbox, the queue and the worker are quiet, the latest report of
  every scope is what the snapshots now say, and `ReportsCatchUp` says that it comes
  to that. The code has ways to fall behind, and the two properties say that there are
  no others. `missed` is a scope that changed, since it was last loaded, without a new
  event for a report it has (its baseline, a returned observation, a first report in the
  making, a complete report of a mock account), or whose job ran out of attempts or
  stalls. `overlapped` is a scope two slots had loaded at once: one of its versions then
  says what the snapshots say, but perhaps not the latest (of a mock account's
  overlapped scope nothing is said). Run `live` reaches a returned observation, the wrong
  order and the stall limit; the other cases are covered by the theorem only.
- `SaversNeverCollide`, `NoIdleRevision`, `DefinitionsTile`, `ImportsCaughtUp`: the
  locks of `saveMetrics` do their work, revisions are changes whoever writes,
  intervals leave no gap, and an import's evidence is in the reports once its
  events are handled.
- `FiledNearby`: the scope of nameless comments is set before the page of a note is
  opened, so what still arrives from the lists or from the note before is filed under
  the note to come (`FiledAtHome` fails). It goes no further than that, and never
  back. This rests on an assumption: a page answers no more once the navigation away
  from it has committed.
- `DeletesItsOwn`: an action property, because it compares the credential at
  completion with the one at preparation.
- `FileMatchesDisk` is guarded by `~overlap`, `RightAccount` by `straight` (no
  restart of the collector between the two calls of one click): beyond the
  guards the code promises nothing, and fails. A manager made for a session about to be
  removed shows in neither the file nor the profiles, so `FileMatchesDisk` does not see
  it. `SessionHonest` leaves out the window closed by its user, and `ImportsSettle`
  takes an import a restart has forgotten for settled.

### What does not hold

Every disagreement between the code and one of its documents is a finding in
`PROJECT.json` with the quotation. One has a run (`rebind`). For the others the
claim is kept as a definition in its module, checked by no run; these constants
or changes of a cfg show its violation. (`StallsSettle` is claimed by no document.)

| Claim | Module | Shown by |
|---|---|---|
| `CancelIsFinal` | `SyncJobs` | run `one` |
| `NewCommentsAnnounced` | `SyncJobs` | run `two` with one crash |
| `StallsSettle` | `SyncJobs` | run `one` |
| `CaughtUp` without `overlapped`: older rebuild stored last | `BackfillOutbox` | run `live` |
| `CaughtUp` without `missed`: first report under way | `BackfillOutbox` | run `live` with `Reported = {}` |
| `CaughtUp` without `missed`: observation A, B, A | `BackfillOutbox` | run `live` |
| `CaughtUp` without `missed`: late baseline | `BackfillOutbox` | run `live` with `Open = {0, 1}` |
| `EvidenceInsideInterval` | `MetricEvidence` | run `evidence` |
| `PlatformsApart` | `MetricEvidence` | two `Collectors`, `PlatformOf <- TwoPlatforms` |
| `FreshAdapter`, `CompletedIsStored`, `FiledAtHome` | `LocalCollector` | run `collector` |
| `EntryKeepsAccount` | `DouyinSessions` | run `sessions` |
| `StaysDisabled`, `OldFailureIgnored` | `AccountRevocation` | run `removal` |
| `ZeroIsData`, `TrendEndsAtCard`, `DaysAlwaysAddUp` | `MetricSeries` | run `series` |
| `DailyRefetch` | `RollingSync` | run `rolling` with `Firsts = {0}`, a month of three days |
| `FailedIsRetried` | `RollingSync` | run `rolling` |

In the rows of `CaughtUp` the exception named is taken out of the definition (`Told(s)`
replaced by `Fresh(s)`, or the scopes the row speaks of left out of `Unannounced`); in
the other instances of `live` the property holds as it is.
`TrendEndsAtCard` does hold as long as no definition ends in the
period (theorem `TrendEndsAtTheCard`), and what `DaysAlwaysAddUp` gets wrong is exactly
the growth to the counts captured at midnight (theorem `DaysMissOnlyMidnights`).

### Fairness

Weak fairness only, and only where a clock or an event loop guarantees progress.
`SyncJobs`, `BackfillOutbox`: `ReadPending`, `AddToQueue`, `Schedule`, `Claim` are
timers of one second and one minute that start again after every crash; a slot's
`Progress` or `Generate`, a dispatcher's `Dispatch`: Node runs a handler on once its
await has returned, and each await returns or throws; `Pick`, `Start`, `Stalled`:
BullMQ hands waiting jobs to free slots and scans for stalled ones;
`LeaseExpires`: time passes. `LocalCollector`: `importRun` polls on a timer and every
HTTP call of it has a timeout; the collector itself is under no fairness, so
`ImportsSettle` covers a collection that never ends. `Notifications`: every slot
handles what it has or takes what waits. Failures, crashes, connector answers,
creation, cancellation, users and observations have no fairness; `JobsSettle`
therefore also covers a connector that answers in the worst possible way for
ever, and ends because a repeated cursor ends a run and attempts are limited.

## 4. Proofs

All theorems hold for every value of the constants that satisfies the named
assumptions of their module (names that differ, bounds that are natural numbers,
accounts that are finitely many numbers in `RollingSync`, nonempty saves of
observations and the same distinct keys for every writer in `MetricEvidence`, a period of at least one day of at
least one instant in `MetricSeries`):
any number of jobs, slots, requests, sessions, accounts, notes, dates, attempts,
crashes and faults.
They have the same shape for every component but `MetricSeries`: an inductive
invariant `IInv`, lemma `Initially`, one lemma for each action or group of actions,
theorem `Invariance`, and the properties as consequences. `SyncJobsProofs` then does it twice more,
with `CInv` and `AInv` on top of its `IInv`, `BackfillOutboxProofs`
once, with `DInv` and `AInv`.

| Module | Properties proved | What the invariant adds to them |
|---|---|---|
| `SyncJobsProofs` | `TypeOK`, `ExclusiveRun`, `ResumePoint`, `DoneStaysDone`, `StageForward` | `Holding`: a handler at work holds the active queue entry of its job, alone; `Budget`: attempts and stalls are below their limits while the entry can be run; `Paging`: a handler in a page loop has the durable cursor in hand and its unit is not done; `Staged`: its stage is the one the row reached |
| `SyncJobsProofs`, second part | `SucceededIsComplete`, `HonestCompleteness`, `RowAgreesWithQueue` | on top of that `IInv`: `CInv`, the loop of a stage misses nothing the job has found (`LoopOf`), what lies behind a stage is finished (`Followed`), and later stages find in the tables all that pages delivered (`Kept`); `AInv`, a handler about to leave the queue has written the row (`EndOf`) |
| `MetricProofs`, of `MetricEvidence` | `TypeOK`, `SaversNeverCollide`, `NoIdleRevision`, `DefinitionsTile`, `ImportsCaughtUp`, `FileIsWhole` | `Local`, of each transaction: where it stands in its two loops, and that a sync job has locked the keys it has come to and no others (`Holding`), that what it wrote is its own and locked (`Putting`, `Editing`), that what it has read is still so or the head has moved on (`Reading`, `Transition`), and that the intervals it sees leave no gap; `Apart`: no two transactions share a lock, an identity or a metric; `Command`: the lines before the one at hand are stored; `EventsSound`: an event names a run that began or revisions that exist; `Owed`: a date whose report is out of date has an event pending |
| `MetricProofs`, of `MetricSeries` | `CardIsGrowth`, `DaysAddUp`, `ReportAgrees`, and `DaysMissMidnights`, `TrendEndsWhole` | the type invariant `MSTypeOK` is enough: no capture lies before the definition or the publication. The rest is about sums, see below |
| `BackfillOutboxProofs` | `TypeOK`, `VersionsInOrder`, `DispatchedIsFinal`, `ImplementsOutbox`, `CaughtUp` | `Locked`: a slot about to insert owns the scope's lock and has the number after the last version; `Outstanding`: every rebuild owed by the event in hand is on the list or in the queue; `Batched`, `Paid`, `OwedReported`; on top of it `DInv`: a scope not missed has a rebuild owed or still to load (`Pending`), or what its slots carry and its reports store is safe (`Safe`: only its content, or of an overlapped scope its content among others), and an earlier load is under way beside another only where `overlapped` says so (`OneCarrier`); and `AInv`, for mock accounts |
| `RollingSyncProofs` | `TickCovers`, `NeverRejected`, `MonthRechecked` | `Paging`: what was seen lies behind the cursor and the page in hand ahead of it; `Coverage`: the jobs of every steady account the tick has reached are queued, refused or in the batch; `Recheck`: only the first of the next month queues the second job of a date, which asks on that day or later |
| `NotificationsProofs` | `PushOnce` | `Locked`: a lock is on an active job and held by one slot; `Tries`; `Admitted`: one slot at most is past the insert of an event, and has not sent what it still has to send |
| `AccountRevocationProofs` | `NothingKeptIsDeleted`, `DeletesItsOwn` | `Logged`: every operation id in use was prepared, and a complete one is not running; `OneRetention`: all preparations of one operation asked for what the row records; `SameSecret`, `Issued`, `Answered`: the credential does not change under a running operation, and a call answered as revoked has reached the platform |
| `LocalCollectorProofs` | `SessionHonest`, `WholeRunStored`, `RightAccount`, `FiledNearby` | `RunTyped`: the account of a run is the one its session is bound to; `ClicksKnow`, `ImportersKnow`: as long as a run can be fetched, its session is bound to the account of the click that found it, and one loop imports it; the page that answers is the one in scope or the one before it. `Attended`, on top: while nothing failed, the browser of a session that shows an account is open |
| `DouyinSessionsProofs` | `TypeOK`, `FileMatchesDisk`, `OwnerWasBound`, `RestoredKeepsAccount` | `ManagersSound`, `RunsSound`, `FilesSound`: managers, runs, the file and all copies of it name accounts the file has named; `Fresh`: a session not yet created has one request, its creation; `Binding`: an identity about to be bound fits the manager it was read for as long as that is there; `Disk`: without an overlap one request at most holds a copy, and it is what the file says |

Three arguments are worth knowing. That sync jobs never deadlock among themselves
is no induction over cycles: a sync job waits for another only before the key it
comes to next, so the one it waits for has come further along the order (lemma
`SaverWaits`), and no cycle closes because all of them take the keys, which are
distinct, in one order. That its statements never fail needs `Apart` and lemma
`CommitOfOther`: what another sync job commits lies under locks this one does not
hold, so it leaves the identities and metrics this one works on as they were.
`OutboxImplemented` and `PromiseKept` (initial states map to initial states, every
step to a step or a stutter of `Outbox`) assume `~OnlyAwaiting`: a mock account's
complete report is no longer affected by an event committed when it was waiting, so
what was owed at commit may rightly never be sent. And `RightAccounts` does not follow the account through the import:
it follows the *binding* of the session, which is never changed while a run can
be fetched (lemma `FollowsOn`), so the account noted by the click and the owner the
run verified are the same thing looked at twice.

`CaughtUp` is a theorem without hypotheses: any number of slots, dispatchers, scopes,
dates, values, observations, crashes and faults, open baselines, values that return,
scopes without a first report, jobs that give up. What the code does not deliver is in
the statement (`missed`, `overlapped`) and not in an assumption. The two kinds of
account have an argument each. For an official or self-scrape account a debt is paid as
it was noted (`Delivery`). For a mock account a rebuild may rightly be skipped, and what
is kept instead is about each date the latest report waits for although it is there
(`Behind`): its event is on the way, or a job of the scope will load the evidence again,
or the slot already has (`Answered`, `SentLoads`); a dispatcher with nothing left on its
list knows the latter (`HandKnows`), and no slot carries a date to wait for that the
latest report did not wait for (`Carried`).

The numbers of `MetricSeries` are sums of gains over finite sets of instants or
definitions, for a period of any number of days, days of any length and counts of any
size. The library's facts about folds take operators, which the provers cannot
instantiate, so the proofs have their own, for functions: two iterations of a sum
agree (`SumsAgree`), there is one (`SumsExist`), any summand can be taken out
(`SumWithout`), equal summands give equal sums (`SumSame`). Induction over a finite
set is done with a smallest set of counterexamples (`Smallest`). A series can then be
split at one of its counts (`GainsSplit`), and a counter that never fell telescopes
(`GainsTelescope`).
`ReportAgrees` computes no sum: a definition for which the report has a number shows
the same series of snapshots on the card (`MetricIsDelta`), and the sums over the
definitions follow. A capture that only one of the two counts, not provided or the zero
of an import, is excluded. `CardIsGrowth` is the telescope over the baseline and what
follows it. `DaysMissMidnights` adds one day at a time (`NextDay`): the series shown
up to a day is split at the baseline of that day, which is the last count shown
before, or, where one was captured at the very start of the day, that one, and
then the growth up to it (`Midnight`) is in neither day. Only the first day can be
without a baseline, because a day without a capture shows nothing. `DaysAddUp` is
the case of no capture at a later midnight. `DaysMissMidnights` and
`TrendEndsWhole` say how far `DaysAlwaysAddUp` and `TrendEndsAtCard`, which fail,
are off; they belong to no run and are stated next to their proofs.

Only model-checked is what is temporal beyond `[][A]_v`: `JobsSettle`,
`ReportsCatchUp`, `NotificationAppears`, `ImportsSettle`. Liveness under fairness and
ENABLED are out of the prover's reach.

## 5. Not modelled

- Two live handlers of one BullMQ job in `SyncJobs` (a lock that is not renewed in
  time; `Notifications` has it), `SyncStep`, sync notifications other than
  `new_comment`, and the deletion of accounts while a job runs.
- The 100-row limits of `findPending` and of a claim with `SKIP LOCKED`. Leases
  may lapse at any moment, so the time a batch takes is covered.
- In `BackfillOutbox` the two reads of `loadCumulativeMetrics` are one step; several
  notes, several dates in one event and several accounts in one scheduled job
  would interleave as the scopes do. The numbers are in `MetricSeries`;
  authoritative-period aggregations, `previousReportId` and provenance rows are
  nowhere.
- In `AccountRevocation` the rows a removal cascades to beyond notes and reports;
  in `DouyinSessions` the QR image, which changes nothing else, and a manager that
  was replaced in the registry while requests hold it; in both collectors selectors and parsing; in the imports comments and the validation
  of records, in the import command the parsing of its file.
- Administrator sessions and the login throttle: every attempt is one transaction
  under an advisory lock of its address and account. Rankings, exports and lists
  read only. The web application keeps no durable state.

## 6. Plan

Done: the modules of section 2 in the order sync jobs, outbox and reports,
evidence, collectors, sessions, revocation, notifications, series, rolling
scheduler, with the proofs of section 4.

Left, in order of value: weekly and monthly period aggregations in `MetricSeries`;
a lost lock of a live handler in `SyncJobs`. Hazards that no property covers say in
`PROJECT.json` why.
