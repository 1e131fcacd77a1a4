# QuotaHub: specifications, model checks and proofs

QuotaHub collects usage quotas of OpenCode, Ollama and CPA (CLI proxy) accounts and shows
them. This directory specifies the parts of it that are hard to test: what happens when
several worker processes, an administrator and slow upstream services meet in one SQLite
file. Paths below are relative to `src/backend/app/`.

## 1. Inventory

| Component | Files | State | Operations |
|---|---|---|---|
| Scheduler lease | `scheduler.py`, `db.py` (`*_scheduler_lease`, `_validate_collection_guard`) | table `scheduler_leases` (owner, expiry), `SchedulerLease._lost`, heartbeat task | acquire, heartbeat/renew, is_valid, guarded write, release |
| OpenCode and Ollama quota | `quota_sync.py`, `main.py`, `db.py` | account rows (credential, enabled, `collection_revision`), snapshot rows, a cycle's job list | cycle, one collection, manual refresh, create, update, mark due, delete |
| CPA channels and native queue | `cpa_queue.py`, `quota_sync.py`, `main.py`, `db.py` | `cpa_channels` (endpoints, source, revisions, exclusive confirmation, queue status), `cpa_accounts`, `cpa_quota_snapshots`, `_account_cache` | discovery, pop and persist, source switch, update, refresh, delete |
| CPAMP snapshots | `quota_sync.py`, `cpamp_quota.py`, `db.py` | `cpa_accounts`, snapshots of source `cpamp_snapshot` by endpoint revision, freshness of the channel | discovery, signals, query in batches, header snapshots, guarded writes, attempt |
| Observation ordering | `db.py` (`_compare_observations`, `record_*`) | `observed_at`, `accept_observed_after` of a snapshot | newest observation wins, barrier of a replaced account |
| OpenCode usage | `usage_sync.py`, `opencode_usage.py`, `main.py`, `db.py` | usage rows, per-account state (totals, page watermark), resolved workspace, one lock per process | incremental pages, backfill, manual sync, workspace test |
| Usage task and settings | `main.py`, `config.py`, `scheduler.py` | `_sync_task` of each process, section `usage_sync` of `service_settings` | start, stop, `PUT /api/config`, restart of the task |
| Administrator authentication | `auth.py`, `main.py`, `db.py` | `admin_sessions`, `admin_login_attempts`, token fingerprint | login, throttle, logout, rotation, CSRF |
| Bootstrap, secrets | `bootstrap.py`, `secrets.py`, `config.py`, `db.py` | encrypted columns, `security_state`, `service_settings`, the file `.imported` | migration and rewrite, rotation, import of `config.json`, migration of settings |
| Parsers | `quota.py`, `ollama_quota.py`, `cpa_quota.py`, `cpamp_quota.py` | none | text and JSON extraction |
| HTTP, analytics, logging | `main.py`, `schemas.py`, `analytics.py`, `logging_config.py` | none | routing, read-only aggregates, redaction |
| Web frontend | `frontend/src` | quota cache, in-flight requests | rendering |

How they interact. Everything that lasts is in SQLite; the processes share nothing else.
Every worker process runs three loops (quota cycle, usage queue, usage synchronization).
A loop takes its lease, lists what is due, and for each job reads the source, awaits an
upstream request, looks at the lease and at the source again, and writes in a
`BEGIN IMMEDIATE` transaction that checks both once more (the *guard*). A manual refresh is
one such job under a lease session of its own. The administrator's handlers write without
any lease: they raise the source's `collection_revision`, by which late answers are
recognised, and mark the source due in a second transaction. The usage queue is different:
a pop removes events upstream, so the consumer writes what it has popped without a guard,
under the endpoint revision it popped with. `ensure_bootstrapped` runs at the start of
every process and again at every login and look at the settings, as a row of separate
transactions.

What is hard: leases that expire under a live but slow process; answers that come after the
source changed, or after a newer answer; processes that die between two transactions;
pops that cannot be repeated; the check after an answer and the guarded write being two
transactions. What makes each component correct:

- *lease*: writes are fenced, one session at a time while heartbeats are in time, a lease
  left behind is always granted again;
- *quota collection*: no answer is recorded for a source that changed, no older answer
  replaces a newer one, no change is forgotten, no failure loses the last windows;
- *CPA*: windows stay with the endpoint they were read from, popped events are stored, only
  the selected source is shown, the queue's status tells whether it is consumed;
- *CPAMP*, *ordering*: the newest observation wins, nothing from before an account was
  replaced is shown as its own, what claims to be fresh is, only accounts found are shown;
- *usage*: what the incremental synchronization leaves out, the backfill can fetch; totals are those of what is stored;
  nothing is stored for a workspace the account has left;
- *usage task*: one loop per process, and one at all while the settings want it;
- *authentication*: no session outlives a rotation, and no other end of a session comes
  from a start-up; the throttle counts every failure;
- *bootstrap*: nothing is served before credentials are encrypted and old pages rewritten,
  an account is imported once, an import is of the whole list.

## 2. Modules

| Module | What it is |
|---|---|
| `Lease` | abstract lease: who may write now; grant, commit, lapse, leave |
| `SchedulerLease` | the row, its expiry, heartbeats and sessions; implements `Lease` |
| `QuotaCollection` | OpenCode/Ollama rows, snapshots, cycles, refreshes, administrator; extends `Lease` |
| `CpaChannel` | one CPA channel: row, source, discovery, usage-queue consumer |
| `UsageSync` | usage records of OpenCode accounts: upstream list, paging, backfill, totals, loop and requests; extends `Lease` |
| `CpampSync` | one auth file of a CPAMP channel: discovery, readings, accounts and snapshot rows; implements `SnapshotStore` |
| `SnapshotStore` | abstract store of readings: each key moves forward in time, only the present generation is written |
| `UsageTask` | the usage task of each process, and the requests that change its settings |
| `Bootstrap` | `ensure_bootstrapped` in several processes, sessions, login throttle |
| `MC...` | instances of the above for TLC (sets of model values, symmetry) |
| `SchedulerLeaseProofs`; `QuotaCollectionProofs`; `CpaChannelProofs`; `UsageSyncProofs`, `UsageGapProofs`; `CpampSyncProofs`; `UsageTaskProofs`; `BootstrapProofs` | theorems and their proofs |

`SchedulerLease` shows that rows, timers and heartbeats implement `Lease`;
`QuotaCollection` and `UsageSync` are built on `Lease` itself, so their state has no clock, and are
proved to keep to it (`KeepsTheLease`).

**Lease / SchedulerLease.** `row` is the table row; `expires_at` is kept as the time `left`
until it, `Tick` lets one unit pass for the row and for every heartbeat. `beat` is the time
until a heartbeat is due; it may run up to `MaxDelay` units late. `phase` is the collector
between `acquire()` and `release()`: `working` (between requests), `requesting`,
`answered`, `checked` (the check after the answer is done, the guarded write is not),
`stopping`. `Renew` is a heartbeat that finds its row, `HeartbeatStops` one that fails, is
cancelled or finds it taken. `Crash` leaves the row behind; a restarted process has
another owner id. `overtaken` is history.

**QuotaCollection.** `acct` and `snap` are the account and snapshot rows, `admin` an update
request between its two transactions, `pc`, `jobs`, `job`, `answer`, `lost`, `paced` a
collector's session. One action per handler or per stretch between two awaits; the
check after the answer (`Recheck`) and the guarded write (`Accept`, `Reject`) are two
actions because they are two transactions. Stored windows are represented by the
credential they were read with. `snap.rev`, `earlier`, `outdated` and `unmarked` are
history. The order of jobs in a cycle is left open.

**CpaChannel.** `chan` is the row of `cpa_channels`; `queue` is `queue_status` with the six
values a poll may leave called `polled`; `attempt` is `last_attempt_at`, as the revision it
was made for. `shown` stands for the visible rows of `cpa_accounts` and `snaps[r]` for
the native windows stored for endpoint revision `r`, both by the endpoint they were read
from; rows that a discovery makes in `cpa_quota_snapshots` have no windows and count in
`shown` only. `cache` is `_account_cache` of each process, `known` the mapping a consumer
uses, `batch` what it has popped and not stored. An update by a handler is `Read`, then
`Update` (the transaction and the comparison that follows it), then `Mark`. `Map` is the
consumer's discovery, which has no guard; `Discover` and `Attempt` are those of the cycle
and the refresh, which have. `Refresh` and `Open` read the channel twice, as the handler does.

**UsageSync.** `made` is upstream: the records of each workspace, newest first, `PageSize` to a
page, so that `Arrive` moves all others down (`Page`, `Depth`). `acct` is the account row,
with its credential named by the workspace it leads to and `resolved` for
`resolved_workspace_id`; `stored` is `usage_records`, `sync` is `usage_sync_state`. `run` is a
session's call: the row it was given, the page it is at, the pages its loop has left, the
records it holds, the watermark it has read. A pass is `Start`/`ListDue`/`Pick` (the loop) or `Ask` (a request),
`Resolve`, `RecordWorkspace`, then `Answer` and `InsertNewest` (or `InsertEarlier` and
`MarkPage`) per page, then `CountFirst`, `ReadState`, `WriteOk`, `CountAgain`, each write under the guard of the
revision and the lease. `Reject`, `Interrupt`, `Fail` and `NoteFailure` are the
`except` branches. `Test` is `test_opencode_account`, which records a workspace
without lock or lease. `walk` is history: `paging` while an incremental walk is under way or was left off, `torn`
when one ended before it reached older records.

**CpampSync.** Upstream, `past[t]` is who sat behind the auth file at moment `t`; a reading is
known by the moment it was observed. `chan`, `accts` and `rows` are `cpa_channels`,
`cpa_accounts` and `cpa_quota_snapshots` (by endpoint revision and key), `job` a session: the
revisions it started with, the account it works for, a reading. `Start` is the lease and the
list of channels; `Discovered` and `DiscoveryFails` are `discover_cpamp_accounts`, `Queried` and
`Headers` the snapshot query and the header snapshots, `Recheck` is what follows every
answer, `Prepare` is `prepare_cpa_channel_discovery` with its renames, replacements, legacy
rows and barriers, `Screen` and `Store` are `record_cpamp_quota_snapshot` (two transactions),
`Attempt` and `FailAttempt` are `record_cpamp_channel_attempt`. `since`, `found` and a row's
`from` are history. `SnapshotStore` sees `observed_at` and the barrier of every row.

**UsageTask.** `loops` are the tasks of a process and `handle` is `_sync_task`; a request is
`Put`, `Load`, `Save`, `Compare`, `Create`, which follow one another in one process without an
await (`Free`), while other processes write in between; it waits for the old loop between
`Compare` and `Create`. A loop that is cancelled inside `release()` takes the cancellation for
that of its heartbeat and goes on (`Cancelled`). `crossed` and `doubled` are history.

**Bootstrap.** One action per transaction of `ensure_bootstrapped`: `Migrate`, `Rewrite`, `Compare`
and `Revoke` (the fingerprint), `Purge`, `MigrateSettings`, `CheckImport`, `ImportNext`,
`ImportDone`. `rows` says how each account's credential is kept, `residue` that old pages of the
file still hold plain text, `flag` is `.imported`. `fails` is the table `admin_login_attempts`, each row by its
rowid and its `failed_at` (two failures of one moment are two rows), and `Attempt` is
`apply_admin_login_attempt`, whose INSERT takes any rowid that is free.
`Redeploy` changes the token or the mount of `config.json` while all processes are down.
`adopted`, `halted`, `imported`, `torn` and `tried` are history.

## 3. What the runs check

| Run | Instance | Shows |
|---|---|---|
| `lease` | 3 owners, Ttl 3, Heartbeat 1; one may oversleep its whole lease (`MaxDelay` 3) and die, the others 1 | a session that beats in time keeps its row (`HeartbeatKeepsLease`), of two open sessions one knows that it is lost (`SingleFlight`), no write after a takeover (`NoCommitAfterTakeover`), refinement of `Lease` (`ImplementsLease`), the lease is always granted again (`LeaseRecovers`) |
| `quota_race` | 1 account, 2 credentials, worker + refresh + administrator, revisions to 1, lapses, failures, crashes | `ChangeIsQueued`, `FreshMatchesCredential`, `JobsMatchRevision`, `NoStaleOverwrite` |
| `quota_live` | 1 worker, 2 accounts, revisions to 2 (disabled and enabled again) | every created, changed or re-enabled account is collected (`EveryChangeCollected`) |
| `cpa_race` | worker + consumer + administrator in one process that may die, collection revisions to 1, failures | changes stay queued (`ChangeIsQueued`), popped events are stored (`PoppedIsKept`) |
| `cpa_refresh` | consumer + refresh + administrator, 2 endpoints, one revision of each kind | windows stay with their endpoint (`GenerationIsPure`), status of the queue (`QueueStatusConsistent`), only the selected source becomes visible (`ShowsOnlyCurrent`) |
| `usage_race` | loop and request in two processes, one of which may die, administrator, 2 workspaces of which one has 2 records, one update, lapses, failures | a resolved workspace is always that of the present credential (`ResolvedIsCurrent`), records go only to an enabled account, from the workspace it is set to (`RecordsOfConfiguration`), the watermark never goes back (`WatermarkNeverFalls`) |
| `usage_pages` | the same sessions without administrator's updates, 4 records in pages of 2, cap of 2 pages, lapses, failures | no gap opens between synchronization and backfill unless a walk ended early (`NoGap`); totals are those of the stored records from the count to the "ok" (`TotalsCount`) |
| `cpamp` | one collector, session after session, also when the lease lapses under it, until it dies for good; 2 identities, 2 moments, one change of endpoint, one of the collection | readings only move forward (`Forwards`), stay with their endpoint (`GenerationIsPure`), are fresh only after the last discovery (`FreshSinceDiscovery`), only the account found is shown (`ShownWereFound`), a fresh channel has a fresh reading (`FreshChannelHasFreshRow`) |
| `usage_task` | 2 processes that start, stop and die, 2 requests, 3 settings | one loop at least while the settings want one (`SyncRunsWhenOn`), one at most per process (`OneUsageLoop`) |
| `bootstrap` | 2 processes, 2 accounts in `config.json`, 2 tokens, 1 session, 3 moments, window 2, 2 failures | `ServesRewritten`, `ServesAfterRotation`, `SessionsLast`, `ImportedOnce`, `ImportedWhole`, `WindowCounted` |

Two runs end in a violation, by defects of the code:

- `usage_page_cap`: a synchronization that leaves its loop at the page cap has `page` one past the
  last page it fetched and stores it as the watermark (`usage_sync.py:181`); the backfill starts behind
  it, and the page between is fetched by nothing any more. With the default cap of 10 pages of 50, an
  account with more than 500 records loses its eleventh page.
- `usage_restart`: `SchedulerLease.release()` awaits its cancelled heartbeat and swallows
  `CancelledError` (`scheduler.py:113`), also when it is the usage loop that is cancelled in that await.
  The loop then goes on, and `restart_usage_sync_task` (`main.py:80`), which awaits it, never returns:
  the request has no answer, and the stop of a process waits in the same way. The window is the
  moment in which a cycle's `release()` waits for its heartbeat.

Seen while modelling and not run.

*Usage.* A record that arrives between two page requests moves the last record of one page to
the next; the loop takes it for an old one (`usage_sync.py:165`) and ends, and the records
between it and the really old ones are above the watermark and below what later
synchronizations walk over. A pass that failed half-way does the same. `NoGap` shows that
besides a change of workspace, or two accounts of one workspace, such an early end is the only cause.

*Usage settings.* Two restarts of one process both wait for the same loop and each then start
one, of which one has no handle any more (`doubled`). Two processes that save settings at once
decide about their own loops from what they saw, which may leave the synchronization on without
a loop (`crossed`); sections are read, changed and written without a transaction, so that one
of two concurrent updates may be lost.

*CPA channels.* The consumer's discovery has no guard (`cpa_queue.py:441`), also when it follows an
awaited request after a pop, so it can show the accounts of a source that was just deselected;
README.md:132 says that only the current source is shown. `ShowsOnlyCurrent` shows that this one
write is the only way it happens. Refreshing a native-queue channel takes the queue lease, its
background discovery the quota lease (`main.py:1228`), so both may run at once; README.md:201 says that
the same lease keeps them single-flight. `_current_queue_channel` does not compare the collection
revision, so a consumer goes on popping after a source was switched away and back and
confirmed again (harmless, since only the status write compares it, and rejects);
`docs/plans/cpa-admin-quota.md:296` says popped batches are discarded when the channel was
disabled or revised, while the code, as README.md:203 says, stores them; `update_cpa_channel`
validates the endpoint of the selected source against the row its handler read, so that
two handlers in two processes can leave a source without its endpoint.

*CPAMP.* When discovery fails and the file has no row of the present generation, a header snapshot that
names an account is discovered as the account known by that name, while its reading is stored under a
key made from the file, so one account is shown twice (`quota_sync.py:928`, `db.py:2057`;
docs/plans/cpa-admin-quota.md:1305 says that it maps back to the known identity). The barrier of a replaced account is set only if
the account it replaces is shown at that moment (`db.py:2286`); line 1303 of the same document
promises it for every replacement. Both behaviours are in the model; `Forwards` says that a barrier,
once set, holds.

*Quota.* A manual refresh sends its request for a disabled account (`main.py:731`), although
README.md:207 says that collection stops; its answer is rejected by the guard. A crash between
the update of an account and its mark leaves the change unqueued until its interval has passed,
although README.md:201 says it is queued; `unmarked` is that exception in `ChangeIsQueued` and
`FreshMatchesCredential`. The source is not looked at again after the pacing sleep
(`quota_sync.py:1156`).

*Bootstrap.* A process that dies, or whose rewrite fails, between the migration of credentials and
the rewrite of the file leaves plain text in old pages, and the next start finds nothing to
migrate and never rewrites (`db.py:3518`; README.md:212); `halted` is that exception in
`ServesRewritten`. A process that dies while it imports `config.json` leaves some accounts, which
then stop the import for good (`bootstrap.py:41`; README.md:237); `torn` is that exception in
`ImportedWhole`. Of two processes that start after a rotation, the later may revoke a session that
the earlier has just opened (`db.py:3525`); it is the exception in `SessionsLast`.

**Bounds.** `MaxRev` bounds an account's revisions: 2 allow a credential to be replaced and put
back, which is what a comparison of credentials would miss; `quota_race` has one, as its
properties are proved for every bound. `MaxEp` and `MaxCol` bound a
channel's: one endpoint change distinguishes generations, one collection revision makes a
session late (two, which switch a source away and back, are covered by the theorems). One account is enough for the races, since sessions meet per
account; accounts meet in a cycle's job list, for which `quota_live` has two. Two owners
contend for a lease; a third can take over while two are unaware, hence three in `lease`.
Ttl 3 with Heartbeat 1 leaves room for a heartbeat in time, one late, and one too late (the code has
120 s and 30 s). Channels meet only in the order of jobs, so one is modelled.
The usage runs have two processes with a session each, because sessions of one process exclude each
other by the lock. In `usage_pages`, four records in pages of two are the least in which a walk spans
two pages, is broken off between them with a page left below, and meets its own records when another
arrives. A walk that the cap ends with something still below needs a fifth record, or smaller pages as in
`usage_page_cap`; theorem `NothingSkipped` has lists, pages and caps of any size.
One backfill page per request is enough, as requests repeat. `usage_race` needs few records (2, in one page of
one of its two workspaces), since its properties do not depend on where pages end.
The CPA runs have one process, whose account cache the sessions share; the theorems have any number.
In `cpamp` two identities replace each other, two moments make one reading older than another, and
`MaxAge` 0 makes the older one stale. It has one collector, whose sessions follow one another and which
does not come back once it has died: that two collectors of one channel are told apart by the lease, and
what another collector finds after a death, is what the theorems on `CpampSync` add.
`usage_task` has two requests because restarts overlap in pairs, and two loops per process for the same
reason. `bootstrap` has one process more than the one that works, a list of two accounts (one imported,
one to come), three moments around a window and a life of two.

**Fairness.** Only weak fairness, of `Tick`, of the heartbeat, of a session's own steps (requests have
timeouts and a cycle has finitely many jobs), of a loop's next attempt to acquire, of the
second transaction of an update, and of expiry. Nothing is assumed of crashes, failures, the administrator,
or of who wins a race. `quota_live` sets `Faults = FALSE`, so that a lease lapses only when
its session is over: theorem `LeaseKept` says that timely heartbeats give this, and without
it a lease could lapse at every request. It has no refreshes and no crash between the two
transactions of an update. `usage_restart` assumes weak fairness of every loop's steps and of every
request's steps, whose awaits all end: under it a cancelled loop would end, and the counterexample is a
loop that was not cancelled.

## 4. What is proved

For every value of the constants that satisfies the named assumptions
(`OwnerAssumption`, `TimingAssumption`, `NoOwnerAssumption`, `CollectorAssumption`,
`ChannelAssumption`, `SyncAssumption`, `CpampAssumption`, `TaskAssumption`, `BootstrapAssumption`).

They say of which kind each constant is, that the kinds of sessions have no owner in common, and
that the values that stand for none are no values. Beyond that, `TimingAssumption` has the heartbeat
shorter than the TTL (30 s and 120 s in the code), bounds such as `PageSize` and `MaxFailures` are positive,
`TaskAssumption` has at least one process, since without any `SyncRunsWhenOn` would ask for a loop that
nobody could run, and `BootstrapAssumption` has a list in `config.json` that is not empty and names no
account twice (entries are accounts, and an empty list imports nothing).

| Theorem | Statement | Argument |
|---|---|---|
| `SchedulerLeaseProofs!TypeCorrect` | `[]TypeOK` | by itself inductive |
| `LeaseKept` | `[]HeartbeatKeepsLease` | `BeatBehindRow`: the row has at least as much time left as its heartbeat has until it is due, plus Ttl - Heartbeat. A heartbeat at most MaxDelay late then finds time left, so nobody else could be granted the row |
| `SingleFlightHolds` | `[]SingleFlight` | from `LeaseKept` and `UnlostBeats`: an open session that is not lost has its heartbeat |
| `Fenced` | `NoCommitAfterTakeover` | `RowNotOvertaken`: the row never names an open session that was overtaken, and a write needs the row |
| `Refinement` | `ImplementsLease` | step by step, with `CommittedOpen`; both `Tick` at expiry and a late heartbeat are a lapse or a stutter |
| `QuotaCollectionProofs!TypeCorrect` | `[]TypeOK` | by itself inductive, with one lemma per part of the state |
| `JobsMatch` | `[]JobsMatchRevision` | jobs are copied from rows, and a row's credential changes only with its revision |
| `ChangesQueued` | `[]ChangeIsQueued` | an accepted attempt has the row's revision; an update leaves a pending mark |
| `FreshIsCurrent` | `[]FreshMatchesCredential` | needs `JobsMatch` (the accepted credential is the row's) and `SnapshotsConsistent` (a marked row with windows is stale) |
| `WindowsKept` | `LastSuccessKept` | from `SnapshotsConsistent` |
| `NeverStaleOverwrite` | `NoStaleOverwrite` | `OutdatedIsFenced`: a session that was overtaken for an account does not hold the lease until it has ended, and a write needs the lease |
| `QuotaCollectionProofs!KeepsTheLease` | `LeaseSpec` | step by step: every step is a grant, a commit, a leave or a lapse of `Lease`, or leaves it alone; a death is a leave that gives nothing back. With `Refinement`, what the collectors assume of the lease is what the table gives them |
| `CpaChannelProofs!TypeCorrect` | `[](TypeOK /\ Endpointed)` | `Endpointed`: a request that was answered had an endpoint to go to; without it "no endpoint" could be stored as a source |
| `QueueStatusCorrect` | `[]QueueStatusConsistent` | by itself inductive over `TypeOK`: a late state is written only under the same collection revision, and only if the queue is confirmed now |
| `CpaChannelProofs!ChangesQueued` | `[]ChangeIsQueued` | with `NoAttemptYet`: an update that revises the channel finds its own change when it compares, and an attempt counts for the revision it was guarded with |
| `PoppedKept` | `PoppedIsKept` | step by step from the types: only `Persist`, `Deleted`, `ConsumeFails` and the end of a process empty a batch |
| `GenerationsPure` | `[]GenerationIsPure` | `Fits`: the row a session works for, the cached mapping, what a consumer asked, knows and has popped, and the stored windows all go back to the endpoint `epAt` has for their revision; revisions to come have no windows |
| `OnlyCurrentShown` | `ShowsOnlyCurrent` | `Fits` again: with the channel's collection revision a discovery has its source and endpoint, with its endpoint revision a batch has its endpoint |
| `UsageSyncProofs!TypeCorrect` | `[]TypeOK` | with `Sound`: a busy session has a row, pages left in its loop, and finite records of its row's workspace; `Forward`: a row's revision is never used for two workspaces |
| `ResolvedCurrent` | `[]ResolvedIsCurrent` | `Sound`: a row that the guard accepts by its revision has the account's workspace |
| `RecordsConfigured` | `RecordsOfConfiguration` | `Sound` again, for the records of a page |
| `WatermarkKept` | `WatermarkNeverFalls` | `HolderKnows`: what the holder of the lease has read is still so, because nobody else's write is accepted (`OthersWait`), a refused row is never accepted again (`NeverReopened`), and a deletion sets the watermark back to the beginning |
| `TotalsCounted` | `[]TotalsCount` | `HolderKnows` |
| `OneAtATime` | `[]OneSessionPerProcess` | with `InsideEngaged` (whoever is between `acquire` and `release` is at work) inductive: a session enters only when the lock of its process is free |
| `UsageSyncProofs!KeepsTheLease` | `LeaseSpec` | as above; a process that dies takes all of its sessions with it at once, which is one leave or none by `OneAtATime` |
| `UsageGapProofs!NothingSkipped` | `[]NoGap` | see below |
| `CpampSyncProofs!TypeCorrect` | `[]TypeOK` | with `Keyed`: a session that asks for an account or writes one has its key |
| `CpampSyncProofs!GenerationsPure` | `[]GenerationIsPure` | `Sourced`: once rechecked, a session whose collection revision is unchanged has the channel's endpoint revision. An endpoint may move without a change of the collection only while CPAMP is not selected, and then no such session is left |
| `FreshAfterDiscovery` | `[]FreshSinceDiscovery` | by itself inductive: what a discovery keeps or moves to another key is made stale |
| `OnlyFoundShown` | `[]ShownWereFound` | `FoundBy`: while lease and collection are its own, what a session prepared is the last discovery; `Named` and `AcctSound`: a key that is an identity has that subject, so that `_upsert_cpa_account` takes no other account for it |
| `FreshHasFreshRow` | `FreshChannelHasFreshRow` | `FreshBy`: what was screened is not refused later, since only a session with the lease writes, and a row it made fresh remains until its attempt |
| `CpampSyncProofs!Refinement` | `Forwards` | step by step: `Prepare` is `Rearrange`, a stored reading `Observe` or a stutter, a new endpoint `MoveOn`, a deletion `Clear`, all others stutter; `RowSound`: a row that is not there has neither moment nor barrier |
| `UsageTaskProofs!TypeCorrect` | `[]TypeOK` | with `Placed`: a request is in a process that runs exactly while it is under way, and a process that is down has no handle |
| `WaitersAwaitATask` | `[]AwaitsATask` | from `Single`, below: a request waits only for a task that is there |
| `LoopAlone` | `[]OneUsageLoop` | `Single`: one request of a process at most is between two of its awaits; in a process where no two restarts waited for one loop every task is the handle's, and that one has ended when the next is created |
| `SyncWhenOn` | `[]SyncRunsWhenOn` | `ReadLast`: unless requests crossed, nobody saved between what a request read and what it saves; `Wanted`: when the settings want usage, some process has a loop that was not cancelled, or a request that has yet to create one, or has yet to start |
| `BootstrapProofs!TypeCorrect` | `[]TypeOK` | with `Counted` and the invariants below |
| `Throttle` | `[]WindowCounted` | `Counted`: the table and the history of what was let in agree on the window, and the table has at most `MaxFailures` rows. `SomeUnused`: among one more rowids than there are rows one is free, so that a failure let in can always be written |
| `Rewritten` | `[]ServesRewritten` | `Solo`: until a process has served there is only one, so that nobody serves between its migration and its rewrite; `Encrypted`: old pages remain only while some process is about to rewrite them, or one died then |
| `AfterRotation` | `[]ServesAfterRotation` | `Rotated`: sessions are those of the stored fingerprint's token, and whoever has compared fingerprints found the present one |
| `Lasting` | `SessionsLast` | `Rotated`: a valid session of the present token means that its fingerprint is stored, so that only a comparison made before can revoke it |
| `Whole`, `EachOnce` | `[]ImportedWhole`, `ImportedOnce` | `Imports`: what is imported is a beginning of the list, a process that imports found nothing imported, and is alone (`Solo`) |

`NothingSkipped` rests on what is known while a walk is `whole`. A record is on the list before it is
stored (`Existing`). `WholeCovered`: between the stored records and the page the watermark names
nothing is missing, for every account whose walk is whole; a record that arrives only moves the stored ones
down, away from the pages above. `HolderWalks` says what the session that holds the lease, and
whose row the guard accepts, has reached at each of its labels: that an incremental pass has stored
everything above the page it is at, or has come down to what was stored when it began; that a backfill's
page follows what is covered; that a watermark it has read is still the one it will write from. Nobody
else's write can disturb it (`OthersWait`), and a session that lost the lease is claimed nothing of.
The invariant is needed because `NoGap` alone does not say how far the session under way has come.

Every invariant that a run checks is proved. Only model-checked is liveness, out of the prover's reach:
`LeaseRecovers` and `EveryChangeCollected`; the two violations are TLC's counterexamples. Only proved:
`LastSuccessKept` (theorem `WindowsKept`), `AwaitsATask` (`WaitersAwaitATask`), `OneSessionPerProcess` and
the users' side of the lease (`KeepsTheLease`), which hold in every run's instance without a run of
their own.

## 5. Abstractions

- Code between two awaits of one process is one step, except that a check and the
  transaction after it are two, because another process may write in between.
- `opencode` and `ollama` accounts run the same code over the same columns and are one kind.
- Credentials, endpoints and accounts are model values; texts, times, display columns and
  log lines are left out. "Due" is: never attempted, or attempted and the interval over,
  which may be at any time.
- Account creation and updates of OpenCode/Ollama read and write in one step: the handler's
  read matters only for its comparison, which `Update` makes against the row it changes. The
  CPA handler reads in a step of its own, as its validation uses what it read.
- Quota collection's automatic synchronization is assumed on; a usage loop whose `auto_sync` is off lists nothing.
- `UsageSync` takes a check that writes nothing together with the read it follows, and the loss
  of a lease that only a heartbeat has noticed is a check that fails (with `Faults`). A credential is named by its workspace: an update with a new
  cookie for the same workspace is told apart from none only by forgetting the resolved one. Upstream's list grows
  at its head and loses nothing. Status texts are not told apart (`synced` is whether `last_sync_at` is set).
- What a response contains is a nondeterministic answer: accounts or none, events or none,
  success or failure.
- In `CpaChannel` a CPAMP source is a configuration; what is collected from it is `CpampSync`.
- `CpaChannel` does not tell identity migration and the replacement of an account behind an index
  (`prepare_cpa_channel_discovery`) from other discoveries; `CpampSync` does.
- `CpampSync` has one auth file, hence one locator, of one channel, and its accounts keep their names.
  What the native queue discovers while CPAMP is not selected is not in it. `Mark` may come at any time.
  A reading is its moment; percentages, pending refreshes and batch sizes are left out.
- `UsageTask` has no work in a cycle; that an update wakes the quota loop is not modelled either, since
  `EveryChangeCollected` lets a cycle start at any time.
- `Bootstrap`: as README.md:230 asks, the first start after an upgrade or a mount is of one process. All
  processes of a deployment have the same token; logins come from one source; the clock is read in the
  transaction that uses it. A rewrite is one step (`VACUUM` and the checkpoint of the log). Schema
  migrations, cookies, CSRF and `last_used_at` are left out.
- `configure_cpa_usage_queue` is used by tests only.

## 6. Plan

1. *Done*: leases, quota collection, CPA channel, CPAMP synchronization and the order of observations, usage
   synchronization and its task, bootstrap and sessions; proofs of every invariant and action property
   that a run checks, of both refinements, and that the users of the lease keep to it.
2. That the guard of `CpaChannel` and `CpampSync` is a use of `Lease` as well.
3. The frontend's quota cache (late answers of a view that was left), once a run can be spared for it.

Not planned: the parsers (a parser's result is a nondeterministic answer to the modules), routing and
serialization, analytics (read-only SQL), logging, rendering.
