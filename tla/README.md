# CLIProxy-Portal: specifications and proofs

CLIProxy-Portal hands out API keys for a CPA gateway, meters and throttles the
requests made with them, shows what the CPAMP manager knows, and backs the whole
deployment up. This directory holds TLA+ models of the parts of that program
whose behaviour is hard to test, TLC configurations that check them on small
instances, and TLAPS proofs of the properties that matter most. Paths below are
those of the repository; every definition of a model is listed with the lines it
stands for in `PROJECT.json` ("map").

## 1. The system

| Component | State | Operations | What makes it hard | Module |
|---|---|---|---|---|
| API key lifecycle (`service/keys.go`, `cpamp/client.go`, `handlers_user.go`, `handlers_admin.go`) | `users.status`, `api_keys`, `sync_jobs` in SQLite; the key list of CPA; the alias table of CPAMP | claim, revoke, test, suspend, delete, unsuspend, `Reconcile`, `ProcessJobs` | three stores without a common lock, a key list that is only replaced whole, calls that fail half-way, handlers cut off by the client | `KeyLifecycle`, `KeyLedger` |
| Accounts and sessions (`service/accounts.go`, `server.go`, `store/store.go`) | users, sessions, reset codes | register, decide, login, password, reset, role, suspend, delete | check-then-act on the number of administrators, sessions that outlive a change, single use of codes | `Accounts` |
| Resource control (`resourcecontrol`, `gateway/resource_control.go`, `httpserver/resource_controls.go`) | counters of active requests, pause flags, event channel, the policy row and its copy | acquire, model done, finish, metrics, policy, flush, audit | unlock in the middle of a decision, bounded channel, hysteresis, exactly-once release, overlapping saves | `ResourceControl`, `PolicyForms`, `ResourcePause`, `ResourceWebsocket` |
| Restore (`backup/portal_restore.go`, `restore_*.go`) | the transaction record, staged and rollback directories, the containers, the plan of the host tasks | stage, stop, snapshot, switch, start, commit, roll back, recover, install | all or nothing over a crash at every step | `PortalRestore`, `AtomicRestore` |
| Backup runner and requests (`backup/runner.go`, `state.go`, `configure.go`, `restore_queue.go`, `manager_snapshot.go`, `httpserver/backups.go`) | settings, token, request, status and marker files, two locks | form, request, tick, pause of CPAMP, its recovery | several processes, one directory, deaths between renames | `BackupQueue` |
| Archives and releases (`backup/archive.go`, `stream.go`, `crypto.go`, `github.go`) | files that keep changing, sealed frames, GitHub releases | snapshot, seal, extract, upload, verify, publish, retain | a file copied while it is written, damage in transit, lost answers, clocks set back | `BackupArchive`, `BackupReleases` |
| Upstream read cache, analytics cache (`cpamp/upstream_cache.go`, `service/analytics_cache.go`) | entries, flights, generations | read, write, invalidate, refresh, leave | an answer older than the write before it, a refresh answered by an older load | `UpstreamReads`, `AnalyticsLoads`, `CachedReads` |
| Quota refresh (`cpamp/quota_refresh.go`, `service/antigravity_quota.go`) | quota rows, the cached pool, cooldowns in CPA | refresh, page refresh, disable | a clock read before a lock, a row that says more than the gateway does | `QuotaRefresh` |
| OAuth aliases, presets, efforts (`service/oauth_*.go`, `cpamp`) | channel settings in CPA | enable, disable, alias, effort, apply preset | a saga over channels whose undo may fail too | `OAuthRouting` |
| Actual model and timing statistics (`service/actual_model_*.go`, `service/usage_timings.go`, `store/gateway_timings.go`) | kept rows, totals, samples | incremental read, full read, retention | the incremental result must be the full one | `ModelStatistics`, `TimingStatistics`, `UsageStatistics` |
| Capture vault (`gateway/capture.go`, `store/gateway.go`) | raw files, markers, shared messages, index rows | save, retain, cleanup | file first or row first, shared files removed under a concurrent save | `CaptureVault` |
| Gateway proxy, identity rewriting, request limiter, web UI, health pages, metrics | - | - | see section 6 | - |

Interaction: HTTP handlers (a goroutine each) and the loop of `cmd/portal/main.go`
(`background`, one goroutine for all tickers) call `service`, which calls `store`
(SQLite, one connection: a statement is atomic, a handler is not) and `cpamp`
(remote HTTP calls). The gateway consults `store` for the user of a key, takes a
lease from `resourcecontrol` and writes captures. The backup runner is a second
process; it shares only files with the portal.

`PROJECT.json` lists every component with its status and, under "hazards", what in
this code a test would hardly reach, at its line, with the properties for it, or a
note why no property covers it.

## 2. How the models are cut

A step is one access to shared state: one critical section, one statement or
transaction of SQLite, one request to a remote service, one rename or sync of a
file. Whatever runs between two of them is local. Remote calls may fail before or
after they took effect; a handler may be cut off; a process may die between any two
steps where something of it survives.

Modules whose components share state are composed: a claim, a revocation, a
reconciliation and the job ticker are operations of one `KeyLifecycle`; the runner,
the forms and the pause of CPAMP are one `BackupQueue`. Where one component is only
an outcome for another, the other names the outcomes: a restore is a job of
`BackupQueue` that ends, fails or leaves its transaction, and the module
`PortalRestore` for itself; the revocation during a suspension succeeds or is queued
in `Accounts`, where its job is one of the `queue`, and is the subject of `KeyLifecycle`. `CachedReads` joins the two
caches of the pages.

`PortalServices` composes the thirteen components that share no state with each other:
in `PortalSpec` a step is a step of one of them and leaves the others alone, which is
how one process runs them. TLC explores `ServicesSpec` instead: a behaviour picks one
component (`part`) and only that one moves, so one run explores the state graph of each
and nothing of their product. That the product shows nothing more is not taken for
granted: it is proved (section 5.8) that their types and promises all hold at once in
`PortalSpec`; no component reads the state of another there.

## 3. What is modelled

### 3.1 API keys: `KeyLifecycle`, `KeyLedger`

Promise: every approved user has at most one valid key; a key the portal calls
revoked does not work; suspending or deleting an account retires its key, at once
or through a queue; keys the portal does not know are left alone.

The state is that of the stores: `status` (users), `row` (api_keys), `owner` (the
user a secret was minted for), `jobs` (sync_jobs), `cpa` (the key list of CPA,
which also holds those of `Manual`, the keys the operator may put in by hand) and
`alias` (the rows of CPAMP; an alias is the user's name, so a row stands for its
owner). `kept` is a history: the operator's keys that no rewrite may lose, because no
rewrite was between its read and its put when they were added. `pages` are
admin pages that are still open: the buttons they offer were chosen by a status
read long ago. `th` is what each goroutine is doing: its operation, its next
access to a store (`pc`), and its locals (the user, the key, the list it read).

`IssueActive`, `AddList`, `AddPut`, `AddConfirm`, `AliasList`, `AliasKeys`,
`AliasPut`, `Swap` are `Keys.Issue`; `RemoveList`, `RemovePut`, `RemoveConfirm` are
`cpamp.RemoveAPIKey`, called by `Revoke` and by the rollback of `Issue`;
`RevokeActive` to `RevokeStatus` are `Keys.Revoke` and the two tests;
`QueueActive`, `QueueStatus`, `QueueJob`, `Settle` are `suspendOrDelete` and
`keyRevoke`; `JobsNext`, `JobsDelete` are `ProcessJobs`; `ReconcileList`,
`ReconcileRows`, `ReconcileNext` are `Reconcile`. `RevokeReturns` and
`RemoveReturns` say where each caller goes on. `CutOff` ends an operation anywhere:
the client disconnected, which cancels the context of all later calls, or the
process went down. `ExternalDelete` (a portal key deleted by hand) and `OperatorEdits`
(a key of his own added or deleted at any moment) are the operator in CPA.

`KeyLedger` says the same promise without goroutines, calls and queues: whom a key was
shown to (`holder`), whether it is active or retired (`state`), what CPA accepts
(`accepted`), which accounts are gone (`closed`). A key is granted to an open account
without another one, retired only when CPA refuses it, and never accepted again; an
account is closed only when it has no active key. `KeyLifecycle` maps its stores to the
ledger (`Holder`, `KeyState`, `cpa`, `Closed`), and `KeepsTheLedger` says that it
implements it: every step of a goroutine is one entry of the ledger or none.

Left out: approval and rejection (module `Accounts`; an account that was never
approved has no key), the audit log, the last-seen times that `Reconcile` also
copies, failing SQLite statements, `attempts` and `next_at_ms` of a job (a job is
due at any tick).

### 3.2 Admission, its audit, its policy: `ResourceControl`, `PolicyForms`, `ResourcePause`, `ResourceWebsocket`

Promise: the counters the limits are compared with are the leases that are out;
enforced limits are not exceeded; a lease is given back once, whichever of the
handler and the saving of its capture ends first; every refusal, and every request
that would have been refused, is written to the audit log once and says what
became of the request; a clean shutdown writes what is left.

`policy`, `paused`, `active`, `processing`, `users`, `rejected`, `observed` are
fields of `resourcecontrol.Controller`; `queue` is its channel of events and `wake`
the token of `auditWake`; `flusher` and `flush` say who holds `flushMu` and where
in `FlushEvents`; `pending` is `pendingEvents`, `log` the rows of `audit_logs`,
`audit` the goroutine of `runAudit`, `main` the function `serve`. `req` is what the
handler of each request is doing: the policy it read under the mutex, the event it
is sending and where it goes on afterwards, the lease, and the capture that took
the lease over. `AcquireRequest` is the first section of that function; recording an
event counts it and ends the section (`Record`), because `eventWithStatus` unlocks
to send. `Send` blocks on the full channel, `Wake` leaves the token, and the
handler goes on with the policy it read before (`Recheck`, `AdmitObserved`).
`Return`, `Release`, `Finish`, `LastModelDone` are the calls of the handler and
those it deferred; `SavedRelease`, `SavedFinish` the same `Finish` in the goroutine
of `saveCaptureInBackground`. `FlushHead` to `WriteFails` are `FlushEvents`;
`AuditWake` to `AuditStops` are `runAudit`; `Stop` and `FinalFlush` the end of
`serve`. What makes the monitor refuse is one bit here that changes at any time.

That bit is `ResourcePause`: `UpdateMetrics` with late, missing and regular samples,
each "stale", "memory", "high", "low" or "middle". `log` is the set of the last
samples with their ages, as far back as the properties look. `PauseIsEarned` compares
every step with it: a pause for CPU after `HighFor` without a gap, an end after
`RecoverFor`, and both then do happen. It states what the code does with memory
samples: they return before `highSince` is reset, so that they count as high.

`PolicyForms` is the saving of a policy: the form carries the revision of the copy
in force, the row takes it only with its own revision (`SavePolicy`), and the handler
reads the row back (`ReadBack`) and installs what it read (`Install`), under no lock.
Two administrators, failing reads and cut-offs show that the revision alone keeps
them in order. `ResourceWebsocket` is the writer that counts the payload of a
message: headers that arrive in pieces, fragments, control frames in between. Its
`receiver` is what an upstream that obeys RFC 6455 makes of the bytes it got: whether
it is within a message, how long that is, what it still expects of a frame. The
connection may last for ever; `Limit` is the only bound.

### 3.3 Accounts: `Accounts`

`status`, `role`, `session`, `code` are columns and tables of SQLite, `queue` the
removals in `sync_jobs`, `ticker` the job `ProcessJobs` has carried out and not yet
deleted. `epoch` counts the changes of a user's password and role, so that a session
stored `since` an earlier one is older than the credentials. `request` is what each
handler is doing, with what it read when it arrived. A behaviour takes the kinds of
steps of one set of `Focuses`.

A removal is under way from the count of the administrators in `OpenRemoval` until its
statement (`Settle`, `RemoveAccount`) or, if the revocation failed (`Enqueue`), until its
job is deleted (`SettleJob`, `DropJob`). As in the code, only `MayRemove` is asked before
it, the job sets the status whatever it has become, `Resume` approves any account again
and leaves its job in the queue, and the pending status may fail to be set although the
job is queued. So a removal or a leftover job may take the last administrator while the
removal of another is under way; `raced` remembers that, and `AdminRemains` says that
nothing else does: not a sequence of requests and jobs, and no number of demotions.

A resubmitted account (`Resubmit`) gets a new password and keeps its sessions and codes; a
login that was verified before a change and stored after it (`Authenticate`,
`CreateSession`) keeps its session. These two are the sessions that outlive a password, so
both count from the credentials of the moment; `SessionsEndWithChange` says that there is
no third, and that the next change ends those too.

### 3.4 Restore: `PortalRestore`, `AtomicRestore`

`AtomicRestore` is what a restore promises: the portal is down, or serves the old
data, or the new ones, never a mixture; once it is decided, what was decided.
`PortalRestore` is every call of `restoreTick`, `replacePortalDatabase`, its
rollback, `recoverDatabaseTransaction` and `resumeHostRestoreWith`, in both modes
(the database alone; the rebuild, with directories, CPAMP's database and images).
`live`, `wal`, `stage`, `copies`, `record`, `plan` are what is on the disk: only they
survive `Crash`. `run` is the runner with its locals. A backup may carry a `defect`
for each of the checks; a host may lack the containers or the template. The
refinement maps `Serves` (data and images of one side) and `Decided` (the commit
record; once it is gone, the data) and TLC checks `AllOrNothing`, the abstract
specification, as a property. `RecordFaults` names the phases whose record may fail
to be written: with "switching" among them the promise is broken
(`restore_lost_switch`), and with "committed" it would be (a record that failed but
is durable after all, and a crash during the rollback that follows).

### 3.5 Runner and requests: `BackupQueue`

The files in the state directory are the variables: `config`, `token`, `pending`,
`uploaded` (restore-pending), `transaction`, `hostPlan`, `busy` and `restoring` (what
the two status files say), the lock (`runnerLock`), the marker of a pause with its
record (`marker`), the lease.
`job` is what each runner is doing; `web` the form that is open (`backupMu` lets one
run at a time). `Decide` is a tick that looks, `LockBackup` and `ReadAgain` the lock
and the second look, `RecordPause` to `Unmark` the pause of CPAMP,
`RestoreBegins`, `RestoreEnds`, `RestoreRecovers`, `ResumeHost` the restore as a job.
`RunnerDies` leaves everything as it is on the disk; `OperatorRemovesLock` is what
`ops/backup/README.md` asks of the operator. `StartBackup` takes the rename of the request and the status written
after it (`runner.go:121`, `runner.go:135`) for one step; no property looks between them.

### 3.6 Archives and releases: `BackupArchive`, `BackupReleases`

The content of a file is the number of the write that made it; a copy is the pair of
the numbers its two halves were read from (`CopyHalf`, `CopyRest`), so that a file
written while it is copied shows. AES-GCM is modelled by what it promises. A fetched
archive may have frames changed, moved, repeated or cut off (`AlterArchive`);
`ReadManifest` to `PromoteOutput` are `Restore`. `BackupReleases` is `upload` and
`Retain`: every request to GitHub may take effect although its answer is lost, the
runner dies between any two, the clock is set back, the repository is made public
in between.

### 3.7 Caches: `UpstreamReads`, `AnalyticsLoads`, `CachedReads`

In `UpstreamReads` the answer to a path is the number of the last change it shows;
`flights` are the requests that are out, with the generation they left under;
`BeginWrite`, `Apply`, `EndWrite` are a mutation with the invalidation on both sides.
`Deliver` stores an answer only under its own generation. In `AnalyticsLoads` a
`caller` is an automatic load or a manual refresh; `Join`, `WaitForOther` and
`StartQuery` are the three ways `loadAnalytics` takes, `LandQuery` the end of a query
with what it wakes. Both modules state what the reader may expect (`floor`).

### 3.8 Quota and routing: `QuotaRefresh`, `OAuthRouting`

`QuotaRefresh` has the manual refresh, pages that refresh what has expired and the
administrator who disables an account, serialised by `quotaFetchMu`, against a
provider that changes its mind (`ProviderTurns`) and CPA with its cooldowns. An answer is
what a decision is taken on: whether something is left in every window it names, however
many, and whether the provider allows the account outright; a failed one has none. The
time of an Antigravity reset is kept, because it ends the freshness of a row (`Fresh`). A
page sums up the rows (`SumUp`), drops those that are not fresh, and stores the pool in a
second step (`StorePool`). The page of the accounts takes the same way without a pool. A
behaviour disables or enables one account. `hasty` remembers that a page asked an
Antigravity account within `Minute` of the last query, by the clocks the two readers had:
in wall time less may lie between them, when the accounts before it were slow to answer.
`OAuthRouting` is the saga of `ApplyOAuthPreset`: `ClearAliases`, `TurnOff`, `TurnOn`,
`GiveAliases`, `GiveCaps`, `RegisterModels`, each of which is carried out, refused, or
carried out with its answer lost, then the same in reverse. The other actions are the
single changes of administrators. A deletion of an alias whose answer is lost is
reported as failed although it happened (`doubtful`): what the next change then
finds is not what the portal believes, and no property speaks of it.

### 3.9 Statistics and captures: `ModelStatistics`, `TimingStatistics`, `UsageStatistics`, `CaptureVault`

`ModelStatistics` compares the rows kept by incremental reads with a full count,
while CPAMP imports, corrects and deletes events, the clock goes back, and a read
fails between two pages (a page is the newest `PageSize` of the rows that are asked
for: those with fewer than that many before them); `TimingStatistics` the totals by
minute with those of all saved requests, late ones included. `UsageStatistics` joins
the two. `CaptureVault` is `finishCapture` file by file,
the retention and the hourly cleanup, with restarts in between: `CapturesKept` says
that a row always has its files, shared messages included, and what is removed is
known to no row.

## 4. Runs

| Run | Instance | Shows |
|---|---|---|
| `key_sequential` | 1 user, 3 keys, one handler and the job ticker, 2 faults | without concurrent handlers the promises hold over failures, cut-offs, retries and deletions by hand: `RevokedKeyIsDead`, `AtMostOneUsableKey`, `SuspendedHasNoActiveKey`, and the refinement `KeepsTheLedger` |
| `key_claims` | 1 user, 3 keys, two handlers, 1 fault | racing claims and revocations, and the operator who adds and deletes a key of his own at any moment: `ManualKeysKept`, and the inductive invariant `IInv` with `OneActiveRow` |
| `key_queue` | 2 users, 2 keys, 1 handler, open pages, `Reconcile`, the ticker, 1 fault, fair | `QueuedRevocationHappens` |
| `rc_leases` | 3 requests of 2 users, enforced limits (2, 1 a user), pressure that comes and goes, channel of 1, one failed transaction, fair | `LeasesLastAsLongAsWork`, `WithinLimits`, the inductive invariant `IInv`, `EventWritten`, `LeasesEnd` |
| `rc_audit` | 2 requests, channel of 1, batches of 2, modes that change once, one failed transaction, a stop at any moment | `NoEventLost`, `LogTellsOutcome`, `NoLostWakeup`, `NothingLostAtExit` |
| `restore_all` | both modes, 2 and 4 paths, every defect, 2 faults, 2 crashes, fair | the refinement `AllOrNothing`, `NothingBeforeCommit`, `NoForeignSidecar`, `ReportTruthful`, `StuckIsConsistent`, `TransactionEnds` |
| `queue_all` | 2 runners, 2 repositories, one failure, one death, one save, fair | `JobUsesCurrentSettings`, `ManagerComesBack`, `SnapshotUndisturbed`, `RequestTaken` |
| `services` | the suite of section 2 | `AdminRemains`, `CredentialsEnd`, `BackupsKept`, `RestoredIsWhole`, `CachedReadsHold`, `StatisticsAreRight`, `QuotaHonest`, `RoutingSettled`, `CapturesKept`, `PolicyFollowsRow`, `MessagesWithinLimit`, `PauseIsEarned` |
| `key_lost_update`, `key_revived`, `restore_lost_switch`, `queue_slow_recovery` | the smallest instance | the findings below |

### Bounds

Every bound is a CONSTANT that a guard names. Keys: three keys let a user hold one,
lose it and race two claims; two handlers let every pair of operations interleave,
and the background goroutine is a third; two faults are a call and its retry, or a
call and its rollback. `key_queue` also passes with two faults (1.6 million states,
too many for a routine run). Admission: two requests of one user and one of another
reach both limits. In `rc_audit` each request records up to two events, so two of them
fill the channel of one, block a sender and need more than one batch; a second failure
is the first one again, since a failed batch is kept. `rc_leases` also passes with limits
that change from 2 to 1 or back, and `rc_audit` with `IInv` added, each in about twice
the time. Restore: two crashes interrupt a job
and the recovery of it; the paths of the rebuild include one of every kind and two
that did not exist. It also passes with three faults and three crashes. Queue: a
timer and an operator are the two runners there are. Accounts: two administrators
and one user, two requests at a time, the kinds of steps of one set of `AdminWork` in a
behaviour ("pending" lets the revocation of a removal fail, "resume" lets its account be
approved again with the job in the queue), one job in the queue at a time (`MaxJobs`), one
request or tick cut off (`MaxCuts`), two changes of a password or role (`MaxEpoch`).
Statistics: two events over four minutes with an overlap of one reach the edge
of the range, of the overlap and of the hour. Releases: three jobs, two lost answers.
Quota: one account of each kind, one of them enabled at a time (`MaxEnabled`), one page
load beside the refresh, one change of the provider's answer, and two ticks of the clock:
at the second the rows, the pool, the minute and the pause of the button are over, also
for those who read their clock at the first. `QuotaRefresh` alone also passes with three
ticks and rows that stay fresh for one, so that a window's reset is what ends them.
Captures: an old one and two new ones that share a message, one mishap.

`WithinLimits` speaks of instances where every policy enforces: an observing policy
admits everybody, and a lowered limit does not end the leases it finds.
`EventWritten` and `LeasesEnd` say that again and again the log has every event that was
counted, and every request that arrived has given back what it took: the requests of an
instance are finitely many.
`NothingLostAtExit` speaks of a shutdown that waited for all its requests: the 15
seconds of `serve`, a listener that fails and a hijacked websocket cut requests off
(`incomplete`).

### Fairness

Keys: a goroutine that runs goes on (`WF` of `Continue`), because every call has a
timeout and SQLite has one connection with a busy timeout; the job ticker fires
again and again, and the `select` of `background` draws among the tickers that are
ready, so that `Reconcile` does not starve it (`SF` of `StartJobs`). Admission:
handlers, savers, the flusher and `runAudit` are goroutines that run (`WF`); that a
served request ends is fair because the client or CPA closes the connection in the
end; nothing is assumed about the arrival of requests, settings or the stop. Restore
and queue: the timer of the host starts a tick every minute (`WF` of `Ticks`, of the
runner's steps), and the operator removes a stale lock. Faults are finitely many
everywhere, which is the assumption that what failed works again in the end.

### Findings

Each is a run whose one property states what a document or a comment of the
repository says, violated by what the code does.

- `key_lost_update` (`cpamp/client.go:1037`): `RemoveAPIKey` reads the list, removes
  one key and puts the whole list back. Two revocations that overlap end with one
  key back in CPA after its row was set to revoked; `webui/templates/key.html:16`
  says that a revoked key stops working at once.
- `key_revived` (`service/keys.go:2051`): neither `suspendOrDelete` nor `ProcessJobs`
  looks at the status it replaces, and the deletion leaves the queue alone. A page that
  was opened before the deletion, or the job of a suspension that had failed, turns the
  deleted account into a suspended one, which may be restored and given a phone number
  and a password; `webui/templates/admin-user.html:24` says that a deletion cannot be
  undone.
- `restore_lost_switch` (`backup/portal_restore.go:348`): the phase becomes
  "switching" in memory before it is written. When the write fails, the rollback
  moves the databases aside while the record on the disk still says "stopping"; a
  crash between its two renames leaves the portal without its database, and the
  recovery, which reads "stopping", skips the data and starts the services.
  `ops/backup/README.md:217` promises that a failed rollback keeps its record.
- `queue_slow_recovery` (`backup/manager_snapshot.go:254`): a tick that found the
  marker of a job which had just released its lease starts CPAMP much later, in the
  middle of the snapshot of the next job, and removes the new marker; the comment at
  line 217 says that a live writer is never resumed while a snapshot holds the lease.

### What the models show beside the runs

Met while modelling, and kept out of the properties by a stated condition or by the
bounds of a run. None of it contradicts a document as plainly as the findings do.

*Keys.* `Reconcile` reads the list of CPA before the active rows, so that a claim
completed in between is taken for a deletion by hand. A key the operator adds between the
read and the put of a rewrite is lost (`client.go:1010-1020`, `client.go:1041-1057`);
`README.md:159` of the repository advises against several writers. A suspension repeated while its
job is completing loses its entry in the queue. A claim admitted before a suspension
inserts its key after it. A crash between the status "revocation pending" and the job leaves the
status without a job; `PendingAccountsAreQueued` proves that there is no third way to
lose one. A job retires whatever key the user has when it runs, not the
one it was queued for (`keys.go:2037`).

*Accounts.* A login verified before a change of password or role and stored after it
leaves a session. The resubmission of a rejected account sets a new password and leaves
its sessions and reset codes (`store.go:472`); a change of the password leaves the codes.
Two removals that overlap can take the last administrator, and so can a job left over from
before its account was approved again, while another removal is under way
(`keys.go:2045`): `Unsuspend` asks for no status and leaves the queue alone. Whether the
pending status could be set is not looked at (`handlers_admin.go:547`). The role
form acts on a status read when the request arrived (`handlers_admin.go:492`).

*Restore.* A write of "committed" that reports failure but is durable, and a crash in
the rollback that follows, end with the old data and the report "complete". A crash
while stages are cleaned up, or before "preparing" is written, leaves what every later
recovery refuses, as `ops/backup/README.md:221` says. Two administrators may both pass
the check that no restore waits (`restore_queue.go:67`), and a request moved to its
temporary directory is lost by a crash there (line 147).

*Runner.* The "running" flags of a runner that died stay set, so that the host is not
idle until an operator intervenes. A manual run on the scheduled day, before the hour,
stands for the run of the week. A runner that dies between making a marker and writing
its record leaves an empty marker, which fails every tick.

*Quota and routing.* A page whose clock was read before it waited for `quotaFetchMu`
fetches again, or removes newer rows and reports that nothing could be fetched. A pool
stored after an account was disabled is stale until its TTL. The reset of a cooldown that
was listed lifts whatever cooldown CPA has by then, a newer one too. A lost answer to the
deletion of an alias is reported as a failure (`keys.go:1545`); aliases on disabled
models are not restored by a rollback; a refresh of the registrations may enable an
account that was disabled in CPAMP after the list was read.

*Resource control.* A save cut off after its commit keeps later saves out until a
restart. A sample under memory pressure keeps `highSince`.

*Backups.* `copyRegular` notices a file that changes while it is copied, not one that
was half written before.

## 5. What is proved

The proofs hold for any number of users, keys, requests, runners, paths, failures and
crashes: the bounds of the runs are parameters there. Each starts from the assumption
named in the module that declares the constants, which TLC evaluates in the runs.

### 5.1 `KeyLifecycleProofs`

`AtMostOneActiveRow`, `ManualKeysSurvive`, `RowsNeverReactivated`, `TypeCorrect` and
`Inductive`. None of them is inductive alone. `OneActiveRow` needs to know that the key
a claim is about to insert belongs to the claiming user and has no row yet
(`PrivateClaims`), which needs that nobody else works on a key without a row
(`KnownRows`: revokers take their keys from rows). `ManualKeysKept` needs that a list
about to be put back has every key of `kept` (`SnapshotsKeepManual`): the operator enters
a key there only when no list is on its way back. All of them need to know
which operation may stand at which access (`ControlOK`). `IInv` is their conjunction;
`key_claims` checks it with TLC. The proof has three layers: the lemmas `...Typing` say
when a goroutine's new record is legal; the lemmas `...Sound`, that no step takes up a
key without a row or puts back a list without the keys of `kept`; `ContinueRows`,
`ContinueOneActive`, `ContinuePrivate`, `ContinueManual` treat the few actions that
write a store (`ContinueFrame` says which).

What depends on CPA's answers does not hold for every interleaving: `key_lost_update`
is a counterexample. The theorems say which overlaps are to blame, by proving the
properties under the absence of just those:

- `RetiredKeysStayDead` (`RevokedKeyIsDead`) and `OneUsableKey` (`AtMostOneUsableKey`)
  under `NoLostUpdate`: whenever a list that was read earlier is used (`AddPut`,
  `RemovePut`, the comparison in `Reconcile`), it agrees with CPA about the keys that
  were handed out. A version check by CPA would enforce it; CPA offers none. Everything
  else may overlap, fail and be cut off. The invariant `DeadInv` adds to `IInv` that no
  goroutine takes a key for removed that CPA still lists (`Truthful`).
- `SettledAccountsHoldNoKey` (`SuspendedHasNoActiveKey`) under `RemovalsApart`: no claim
  of a user runs while that user is being suspended or deleted. A lock on the account
  would enforce it. Lost updates do no harm here, because the property is about the rows.
- `OneAtATimeIsSafe`: all three, where one goroutine works at a time and the operator
  deletes no portal key by hand; his own keys he may add and delete. It derives the two hypotheses above (`ListsCurrent`: a list
  that is about to be used is CPA's), so that they ask for no more than an absence of
  overlaps. It says of every number of users, keys and failures what `key_sequential`
  shows for one user, where the ticker and deletions by hand do overlap.

`PortalKeepsTheLedger` is the refinement: under `NoLostUpdate` and `RemovalsApart`
together, `KeyLifecycle` implements `KeyLedger`. The steps are taken one action at a
time: what it grants, retires or closes finds what the ledger asks of it by the
invariants above (a row is retired only with a key that CPA lists no longer, an account
is closed only without an active row), the lists that are put back change nothing for
keys that were shown to somebody except the one being removed, and everything else is a
stutter. `LedgerKeepsPromises` is what follows from the ledger's entries alone.

`PendingAccountsAreQueued`: an account whose removal is pending has the job of its kind
in the queue, or a handler is about to put it there, if no handler is cut off between
its two statements (`NotCutOffHalfway`) and no request repeats a removal whose job is at
work (`RemovalsSerial`). Both gaps are real in the code and listed as hazards without a
property (`handlers_admin.go:547`, `keys.go:2049`); the theorem says that there are no
others, whatever else overlaps, fails and is cut off. Its invariant adds `AllOrderly`: a
ticker that is about to delete a job has settled the status the job was for.

### 5.2 `ResourceControlProofs`

`LeasesAreCounted`, `LeasesLast`, `LimitsHold` (the counters, the leases, the limits),
`EventsAreCounted`, `AuditorIsWoken`, `ExitLosesNothing` (the events) and `Inductive`.
`LeasesCounted` is inductive only with `LeaseControl`, which says for each step of a
handler whether it has a lease and which of its two ends have run; this is what makes
"once" true without looking at the order of the deferred calls. `WithinLimits` follows,
because a lease is only given in the section that compared the counters, and only an
observing request is admitted later. `NoLostWakeup` needs `EventIsSeen`: an event in
the channel has a token, a sender that is about to leave one, or an auditor that will
look again before it waits; and `FlushControl`, who holds the flush. `NothingLostAtExit`
needs `ExitControl`. `IInv` is the conjunction; `rc_leases` checks it with TLC.

`EventsAreKept` and `LogIsTrue` (`NoEventLost`, `LogTellsOutcome`) compare the contents
of the events, not their number. `EventInv` adds what an event says of its request
(`FitsEvent`): the request of a rejection is on its way out and has no lease, that of an
observed one has a lease or is about to be admitted, a message that was too long is noted
once and under the policy of its lease. With that, each step that counts an event puts
it in the one place where it was not, and the log never has to be corrected by what the
request does next.

### 5.3 `PortalRestoreProofs`

`RestoreIsAtomic`: `PortalRestore` implements `AtomicRestore` under its refinement
mapping. With it `CommitsFirst`, `LogsBelong`, `StuckServesOneSide`, `ReportsTheTruth`
and `RestoreTypes`. All of them hold under `DurableRecords`: the writes of "switching"
and of "committed" do not fail. Without the first the run `restore_lost_switch` refutes
the refinement; without the second the report can be wrong, as section 4 says. Every
other write, call and rename may fail, and a crash may come between any two.

The invariant `RestoreInv` has three layers over the types. `Placed` says which record
may be on the disk at which step of the runner (`Recorded`), and for each path where
its original, its copy and its stage are (`Position`): everything before the loop's
index has been moved, nothing after it. `Serving` relates this to the services: what
the portal answers from (`Answers`), that no log stands beside a foreign database
(`Logs`), which images and directories belong to which phase. `Verdict` relates the
status file and the local result to the outcome. The lemmas follow the runner through
staging, switch, rollback, recovery and the end. For the refinement, `Decides` and
`Answering` say what a concrete step may do to the decision and to what the portal
answers; the theorem then finds the abstract step, or the stutter.

### 5.4 `BackupQueueProofs`

`SettingsAreCurrent`: a job works with the settings and the token on the disk. It rests
on the lock (`LockHeld`: whoever works under it has made it) and on what has been read
under it (`SettingsRead`). `ManagerIsBroughtBack` and `SnapshotIsUndisturbed` hold when
no recovery is as slow as the one of `queue_slow_recovery` (`~SlowRecovery`), by
`PauseControl`: from the marker to the end of the pause the lease is the job's, and
nobody is about to start CPAMP.

### 5.5 `ServicesProofs`

Each theorem is the property of one component of the suite, with its types beside it.

- `PolicyFollows`: open forms carry the revision of the copy, which is behind the row
  while a save is under way, so that no second save begins (`PolicyInv`).
- `VaultKeepsCaptures` (`CapturesKept`): `VaultInv` says for each step of a save which
  files exist already and which row speaks of them (`SaveIsSafe`), that one goroutine at
  most holds `sharedMu` (`OneHolder`), and what the cleanup has looked at and not yet
  removed (`CleanupIsSafe`). The newest of each class stay because what goes has enough
  newer ones in its class (`History`).
- `QuotasAreHonest` (`QuotaHonest`): cooldowns are numbered, so that a row is honest if
  the one that was listed for it is no longer there (`Lifted`); a cooldown that was lifted
  never comes back under its number. A query that is not noted yet belongs to the worker
  that holds `quotaFetchMu` (`AttemptsNoted`), so that whoever holds it next sees every
  query that went before, and no page asks too soon.
- `RoutingSettles` (`RoutingSettled`): `RoutingInv` follows the saga channel by channel.
  On the way out, what was tried is as the preset says and what was not reached is as
  before; on the way back, what is done is as before, unless a step failed (`OnTheWayOut`,
  `OnTheWayBack`); the channel in hand is as far as its steps have come (`HereAsFar`).
  `Alike` compares what users see: aliases and efforts of disabled models do not count.
- `PausesAreEarned` (`PauseIsEarned`): `PauseInv` says in both directions that the two
  times of the controller are those of runs of samples in the log.
- `LongMessagesStop` (`MessagesWithinLimit`): the writer counts what the receiver counts,
  and believes a message to be over only with the last byte of its final frame
  (`WebsocketInv`).
- `AnAdminRemains` (`AdminRemains`): an administrator remains unless one went while the
  removal of another was under way. `AdminsLeft` adds what is needed for it: as long as
  this did not happen, every account under removal, in a handler or in the queue, leaves an
  administrator besides it.
- `CredentialsAreClosed` (`CredentialsEnd`): `StaleEnds` says that for each session older
  than the credentials there is a request that is still going to delete it, unless a
  request was cut off in between. A login that is stored and a resubmission make their
  sessions current, which is how the two exceptions enter the property. `CodesHeld` says
  that between the mark and the password one request holds the code.

### 5.6 `BackupsProofs`

- `ReleasesKeepBackups` (`BackupsKept`): whatever `Retain` has decided to delete leaves
  `retain` verified backups, the newest among them, and no release of anybody else
  (`DeletionIsSafe`), although the clock may have been set back and a runner may have died
  with a release half made; what is published was verified (`JobIsHonest`).
- `RestoresAreWhole` (`RestoredIsWhole`): `StageInv` says that what is staged of a file was
  one version of it, and of CPAMP's pair the version that stands still; `MadeInv`, that an
  archive has its own number in every frame and its manifest last but one; `ReadInv`,
  that the frames that were opened are those of one archive, in order. Nobody else can
  seal a frame (`OfMade`), which is what the encryption is assumed to promise. So the
  frame marked as the last is at the end of the archive it belongs to (`OpenedIsMade`).

### 5.7 `CachedReadsProofs`

`ReadsAreFenced` and `RefreshesAreFull`, and `CachesHold` for both caches together:
whatever carries the present generation was read after the last write had ended
(`Fenced`); a query only replaces the result of an older one, and a refresh waits for
nothing but a refresh (`NewestWins`).

`StatisticsHonest` (`StatisticsAreRight`), with `StatisticsTypes`. For the calls by
model, `StatisticsInv` says that the rows that are kept agree with the events below the
overlap, unless an event was changed there (`hidden`), and that a read has, or will have
with the pages that are left, everything below the limit. Pages end: the rows that are
left have a smallest. For the times by minute, rows that have not been rewritten are
counted in minutes that are kept or read again whole; the details that are kept are the
newest of their class, because the newest one missing has enough before it
(`NewestOfEnough`).

Some of these arguments need an induction, for which the provers have no rule with an
operator in it. They use the smallest number of a set instead (`SmallestNumber`,
`SmallestNat`, from the library's `NatLessThanWellFounded`): what fails somewhere fails
first somewhere.

### 5.8 `PortalServicesProofs`

`PortalTypes` and `PortalKeepsPromises` are the types and the promises of all thirteen
components together, for `PortalSpec`, where their steps interleave. They rest on the
theorems of each component and on the lemma `PortalRunsComponents`, which only unfolds the
composition: a step of another component is a stutter. `ServicesTypes` is `ServicesTypeOK`, the type
invariant of the run `services`: its behaviours are behaviours of the composition
(`OnePartMoves`), so that the theorem follows from `PortalTypes`. The type theorem of
each component stands beside its promise (`AccountsTypes`, `ReleasesTypes`,
`ArchiveTypes`, `ReadsTypes`, `LoadsTypes`, `StatisticsTypes`, `QuotaTypesHold`,
`RoutingTypes`, `VaultTypes`, `PolicyTypes`, `PauseTypes`, `WebsocketTypes`). In those of
`UpstreamReads`, `AnalyticsLoads` and `BackupArchive` the numbers are bounded by the
constants, which the guards that name the bounds keep.

### 5.9 Only model-checked

- Liveness, which is out of the prover's reach: `QueuedRevocationHappens`, `EventWritten`,
  `LeasesEnd`, `TransactionEnds`, `RequestTaken`.
- The four violations, which a proof could only restate.

Every other safety invariant and action property of a passing run is a theorem.

## 6. Not modelled

- The history ring of `resourcecontrol` and its flush: samples for a chart.
- The download of the recovery key, the calendar of the backup schedule, and the
  content of settings, except for the repository and the token.
- The rows and forms of stored presets: `UpdateOAuthPreset` is one statement with a
  revision, and reads the row again after it. The editing of the YAML tree.
- The request limiter: one critical section over a count and two times.
- The gateway proxy, the identity rewriting and the measurement of streams: what they
  decide is about the bytes of a stream, which TLC does not enumerate. Their leases and
  captures are in `ResourceControl` and `CaptureVault`.
- The encoding of tar, JSON and YAML, the content of compose and unit files, and the
  first installation on an empty host.
- The accounts that a refresh of the registrations disables and enables one by one, and
  the recovery of the model catalog.
- Web pages, health probes, metrics, policy, audit log and support pages: reading and
  rendering, without state of their own.
- Configuration, cryptographic primitives, the process entry point (its background loop
  is in `KeyLifecycle`), and the scripts of `ops/`, whose timer and manual steps are
  actions of the environment in `BackupQueue` and `PortalRestore`.
