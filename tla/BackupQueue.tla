----------------------------- MODULE BackupQueue -----------------------------
(***************************************************************************)
(* The files the portal and the host runner share: settings, credentials,  *)
(* requests, status, the lock; what a tick of the runner does about them;  *)
(* the pause of CPAMP during a snapshot.                                   *)
(*                                                                         *)
(* The portal serves one backup form at a time (backupMu).  Runners are    *)
(* processes: the timer starts one, an operator may start another.  What a *)
(* restore does to the data is the module PortalRestore; here it is a job  *)
(* that ends, fails, or leaves its transaction behind.                     *)
(***************************************************************************)
EXTENDS Naturals, FiniteSets

CONSTANTS
    Runners,       \* processes of the runner
    Repositories,  \* a repository, and the token that belongs to it
    SlowRecovery,  \* a recovery may last into the snapshot of a later job
    MaxSaves,      \* bound: saved settings
    MaxFailures,   \* bound: calls that fail
    MaxDeaths      \* bound: processes that die

ASSUME QueueAssumption ==
    /\ SlowRecovery \in BOOLEAN
    /\ Runners \cap {"free", "stale", "web", "none"} = {} /\ "none" \notin Repositories
    /\ MaxSaves \in Nat /\ MaxFailures \in Nat /\ MaxDeaths \in Nat

VARIABLES
    config,     \* config.json: the repository
    token,      \* github.token: the repository it is for
    due,        \* the schedule asks for a backup
    pending,    \* a manual request
    uploaded,   \* restore-pending
    transaction,\* .database-restore-transaction
    hostPlan,   \* .host-restore-pending
    busy,       \* status.json says running
    restoring,  \* restore-status.json says running
    runnerLock, \* runner.lock: "free", "stale", or who made it
    marker,     \* .manager-backup-paused: "none", "empty", "recorded"
    lease,      \* who holds the lease inside it, or "none"
    manager,    \* CPAMP, "up" or "down"
    web,        \* the form the portal serves
    job,        \* what each runner does
    saves, failures, deaths

files == <<config, token, due, pending, uploaded, transaction, hostPlan, busy, restoring>>
pause == <<marker, lease, manager>>
bounds == <<saves, failures, deaths>>
queueVars == <<files, runnerLock, pause, web, job, bounds>>

Free == [step |-> "idle", repo |-> "none", token |-> "none", manual |-> FALSE, taken |-> FALSE]
WebFree == [step |-> "idle", form |-> "none", repo |-> "none", old |-> "none"]

QueueInit ==
    /\ token \in Repositories /\ config = token
    /\ due \in BOOLEAN /\ pending = FALSE /\ uploaded = FALSE
    /\ transaction = FALSE /\ hostPlan = FALSE /\ busy = FALSE /\ restoring = FALSE
    /\ runnerLock = "free" /\ marker = "none" /\ lease = "none" /\ manager = "up"
    /\ web = WebFree /\ job = [r \in Runners |-> Free]
    /\ saves = 0 /\ failures = 0 /\ deaths = 0

-----------------------------------------------------------------------------
(* The forms of the portal.                                                *)

\* backupIdle, and the same check once more inside WithIdleState.
Waiting == busy \/ restoring \/ pending \/ uploaded \/ transaction \/ marker # "none" \/ hostPlan
BackupIdle == ~Waiting /\ runnerLock = "free"

WebAt(step) == web.step = step
WebGoto(step) == web' = [web EXCEPT !.step = step]
WebDone == web' = WebFree

Fails == failures < MaxFailures /\ failures' = failures + 1
Succeeds == UNCHANGED failures

\* adminBackupRun.
RequestBackup ==
    /\ WebAt("idle") /\ BackupIdle
    /\ web' = [web EXCEPT !.step = "publish", !.form = "run"]
    /\ UNCHANGED <<files, runnerLock, pause, job, bounds>>

\* adminBackupRestore: the check comes before the upload, which takes long.
UploadRestore ==
    /\ WebAt("idle") /\ BackupIdle
    /\ web' = [web EXCEPT !.step = "publish", !.form = "restore"]
    /\ UNCHANGED <<files, runnerLock, pause, job, bounds>>

\* Request, and the rename at the end of RequestRestore: both are exclusive.
PublishRun == web.form = "run" /\ pending' = TRUE /\ UNCHANGED uploaded
PublishRestore == web.form = "restore" /\ uploaded' = TRUE /\ UNCHANGED pending
Publish ==
    /\ WebAt("publish") /\ WebDone
    /\ \/ Succeeds /\ (PublishRun \/ PublishRestore)
       \/ Fails /\ UNCHANGED <<pending, uploaded>>
    /\ UNCHANGED <<config, token, due, transaction, hostPlan, busy, restoring, runnerLock, pause,
                    job, saves, deaths>>

\* adminBackupSettings.
OpenSettings ==
    /\ WebAt("idle") /\ BackupIdle /\ saves < MaxSaves /\ saves' = saves + 1
    /\ \E repo \in Repositories \ {config} :
          web' = [web EXCEPT !.step = "lock", !.form = "settings", !.repo = repo]
    /\ UNCHANGED <<files, runnerLock, pause, job, failures, deaths>>

TakeIdleLock ==
    /\ WebAt("lock")
    /\ IF runnerLock = "free" THEN runnerLock' = "web" /\ WebGoto("check")
                              ELSE UNCHANGED runnerLock /\ WebDone
    /\ UNCHANGED <<files, pause, job, bounds>>

\* The state once more, then the repository must be private.
CheckIdle ==
    /\ WebAt("check")
    /\ \/ Succeeds /\ ~Waiting /\ WebGoto("token") /\ UNCHANGED runnerLock
       \/ Succeeds /\ Waiting /\ runnerLock' = "free" /\ WebDone
       \/ Fails /\ runnerLock' = "free" /\ WebDone
    /\ UNCHANGED <<files, pause, job, saves, deaths>>

\* configureToken: first the token, then the settings; if those cannot be
\* written the token is put back, or that fails too.
SaveToken ==
    /\ WebAt("token")
    /\ \/ /\ Succeeds
          /\ token' = web.repo /\ web' = [web EXCEPT !.step = "config", !.old = token]
          /\ UNCHANGED runnerLock
       \/ Fails /\ runnerLock' = "free" /\ WebDone /\ UNCHANGED token
    /\ UNCHANGED <<config, due, pending, uploaded, transaction, hostPlan, busy, restoring, pause,
                    job, saves, deaths>>

SaveConfig ==
    /\ WebAt("config")
    /\ \/ Succeeds /\ config' = web.repo /\ due' \in BOOLEAN /\ runnerLock' = "free" /\ WebDone
       \/ Fails /\ UNCHANGED <<config, due, runnerLock>> /\ WebGoto("undo")
    /\ UNCHANGED <<token, pending, uploaded, transaction, hostPlan, busy, restoring, pause,
                    job, saves, deaths>>

UndoToken ==
    /\ WebAt("undo")
    /\ \/ Succeeds /\ token' = web.old
       \/ Fails /\ UNCHANGED token
    /\ runnerLock' = "free" /\ WebDone
    /\ UNCHANGED <<config, due, pending, uploaded, transaction, hostPlan, busy, restoring, pause,
                    job, saves, deaths>>

-----------------------------------------------------------------------------
(* A tick: what it decides to do, before it has the lock.                  *)

At(r, step) == job[r].step = step
Go(r, step) == job' = [job EXCEPT ![r].step = step]
Leave(r) == job' = [job EXCEPT ![r] = Free]

Decide(r) ==
    /\ At(r, "idle")
    /\ \/ marker # "none" /\ Go(r, "recover")
       \/ marker = "none" /\ (uploaded \/ transaction) /\ Go(r, "restore lock")
       \/ marker = "none" /\ ~uploaded /\ ~transaction /\ hostPlan /\ Go(r, "host lock")
       \/ /\ marker = "none" /\ ~uploaded /\ ~transaction /\ ~hostPlan
          /\ pending \/ due
          /\ job' = [job EXCEPT ![r].step = "backup lock", ![r].repo = config, ![r].manual = pending]
    /\ UNCHANGED <<files, runnerLock, pause, web, bounds>>

\* Mutant: the file is not created exclusively.
TakeLockAnyway(r, step, next) ==
    /\ At(r, step)
    /\ runnerLock' = r /\ Go(r, next)
    /\ UNCHANGED <<files, pause, web, bounds>>

TakeRunnerLock(r, step, next) ==
    /\ At(r, step)
    /\ IF runnerLock = "free" THEN runnerLock' = r /\ Go(r, next)
                              ELSE UNCHANGED runnerLock /\ Leave(r)
    /\ UNCHANGED <<files, pause, web, bounds>>

-----------------------------------------------------------------------------
(* The backup job.                                                         *)

BackupSteps == {"read again", "start", "credentials", "mark", "record", "stop", "collect", "resume",
                "unmark", "upload", "finish"}
RestoreSteps == {"restore read", "restore run", "restore end", "restore recover", "host"}

LockBackup(r) == TakeRunnerLock(r, "backup lock", "read again")

\* Mutant: the settings and the request read before the lock are used.
ReadOnce(r) ==
    /\ At(r, "read again")
    /\ Go(r, "start") /\ UNCHANGED runnerLock
    /\ UNCHANGED <<files, pause, web, bounds>>

\* Mutant: a tick that finds nothing to do any more leaves the lock.
ReadAgainKeepsLock(r) ==
    /\ At(r, "read again")
    /\ IF pending \/ due
       THEN job' = [job EXCEPT ![r].step = "start", ![r].repo = config, ![r].manual = pending]
       ELSE Leave(r)
    /\ UNCHANGED <<files, runnerLock, pause, web, bounds>>

\* Settings, status and request are read again under the lock.
ReadAgain(r) ==
    /\ At(r, "read again")
    /\ IF pending \/ due
       THEN /\ job' = [job EXCEPT ![r].step = "start", ![r].repo = config, ![r].manual = pending]
            /\ UNCHANGED runnerLock
       ELSE runnerLock' = "free" /\ Leave(r)
    /\ UNCHANGED <<files, pause, web, bounds>>

\* The request is moved into the work directory, the status says running, and
\* the day counts as attempted.
StartBackup(r) ==
    /\ At(r, "start")
    /\ \/ /\ Succeeds
          /\ pending' = (pending /\ ~job[r].manual)
          /\ busy' = TRUE /\ due' = FALSE
          /\ Go(r, "credentials") /\ UNCHANGED runnerLock
       \/ /\ Fails
          /\ UNCHANGED <<pending, busy, due>>
          /\ runnerLock' = "free" /\ Leave(r)
    /\ UNCHANGED <<config, token, uploaded, transaction, hostPlan, restoring, pause,  web, saves, deaths>>

EndBackup(r) == Go(r, "finish")

\* The preflight: credentials, sources, the private repository, space.
Preflight(r) ==
    /\ At(r, "credentials")
    /\ \/ Succeeds /\ job' = [job EXCEPT ![r].step = "mark", ![r].token = token]
       \/ Fails /\ EndBackup(r)
    /\ UNCHANGED <<files, runnerLock, pause, web, saves, deaths>>

-----------------------------------------------------------------------------
(* withManagerSnapshot: CPAMP is stopped while its database is copied, and *)
(* a marker on the disk tells a later tick to start it again.              *)

\* verifyManagerStorage; that the container and its volume are the approved ones
\* is taken for granted.
ManagerRuns == manager = "up"

MakeMarker(r) ==
    /\ At(r, "mark")
    /\ SlowRecovery \/ \A other \in Runners : job[other].step \notin {"restart", "recovered"}
    /\ IF marker = "none" /\ ManagerRuns
       THEN /\ Succeeds
            /\ marker' = "empty" /\ lease' = r /\ Go(r, "record")
       ELSE /\ Succeeds /\ UNCHANGED <<marker, lease>> /\ EndBackup(r)
    /\ UNCHANGED <<files, runnerLock, manager,  web, saves, deaths>>

\* Mutant: CPAMP is stopped before the marker is on the disk.
RecordPauseLate(r) ==
    /\ At(r, "record") /\ Succeeds
    /\ manager' = "down" /\ Go(r, "stop") /\ UNCHANGED <<marker, lease>>
    /\ UNCHANGED <<files, runnerLock, web, saves, deaths>>

RecordPause(r) ==
    /\ At(r, "record")
    /\ \/ Succeeds /\ marker' = "recorded" /\ UNCHANGED lease /\ Go(r, "stop")
       \/ Fails /\ marker' = "none" /\ lease' = "none" /\ EndBackup(r)
    /\ UNCHANGED <<files, runnerLock, manager,  web, saves, deaths>>

StopManager(r) ==
    /\ At(r, "stop")
    /\ \/ Succeeds /\ manager' = "down" /\ Go(r, "collect")
       \/ /\ Fails
          /\ manager' \in {manager, "down"}
          /\ job' = [job EXCEPT ![r].step = "resume", ![r].taken = FALSE]
    /\ UNCHANGED <<files, runnerLock, marker, lease,  web, saves, deaths>>

\* createArchive copies the databases and the files; only this needs the pause.
Collect(r) ==
    /\ At(r, "collect")
    /\ \/ Succeeds /\ job' = [job EXCEPT ![r].step = "resume", ![r].taken = TRUE]
       \/ Fails /\ Go(r, "resume")
    /\ UNCHANGED <<files, runnerLock, pause, web, saves, deaths>>

\* resumeManager; when it fails the marker stays for a later tick.
Resume(r) ==
    /\ At(r, "resume")
    /\ \/ Succeeds /\ manager' = "up" /\ lease' = "none" /\ Go(r, "unmark")
       \/ Fails /\ manager' \in {manager, "up"} /\ lease' = "none" /\ EndBackup(r)
    /\ UNCHANGED <<files, runnerLock, marker,  web, saves, deaths>>

\* os.RemoveAll: the record goes before the directory.
Unmark(r) ==
    /\ At(r, "unmark")
    /\ IF marker = "recorded"
       THEN marker' = "empty" /\ UNCHANGED <<job, lease>>
       ELSE /\ marker' = "none" /\ lease' = "none"
            /\ Go(r, IF job[r].taken THEN "upload" ELSE "finish")
    /\ UNCHANGED <<files, runnerLock, manager,  web, bounds>>

\* Mutant: a snapshot that is being taken is not left alone.
TakeLeaseAnyway(r) ==
    /\ At(r, "recover") /\ marker = "recorded"
    /\ lease' = r /\ Go(r, "restart")
    /\ UNCHANGED <<files, runnerLock, marker, manager,  web, bounds>>

\* recoverManagerSnapshot: only when nobody holds the lease, and only with the
\* record of what was stopped.  It does not take the lock of the runner.
TakeLease(r) ==
    /\ At(r, "recover")
    /\ IF lease = "none" /\ marker = "recorded" THEN lease' = r /\ Go(r, "restart")
                                                ELSE UNCHANGED lease /\ Leave(r)
    /\ UNCHANGED <<files, runnerLock, marker, manager,  web, bounds>>

\* The lease goes with the marker: one of a marker that another runner has
\* removed keeps nobody away from a new marker.
DropLease(r) == lease' = IF lease = r THEN "none" ELSE lease

RestartManager(r) ==
    /\ At(r, "restart") /\ DropLease(r)
    /\ \/ Succeeds /\ manager' = "up" /\ Go(r, "recovered")
       \/ Fails /\ manager' \in {manager, "up"} /\ Leave(r)
    /\ UNCHANGED <<files, runnerLock, marker,  web, saves, deaths>>

Recovered(r) ==
    /\ At(r, "recovered")
    /\ IF marker = "recorded"
       THEN marker' = "empty" /\ UNCHANGED <<busy, job, lease>>
       ELSE marker' = "none" /\ lease' = "none" /\ busy' = FALSE /\ Leave(r)
    /\ UNCHANGED <<config, token, due, pending, uploaded, transaction, hostPlan, restoring,
                   runnerLock, manager,  web, bounds>>

\* Compression, local verification, and the upload (module BackupReleases).
Upload(r) ==
    /\ At(r, "upload")
    /\ Succeeds \/ Fails
    /\ EndBackup(r)
    /\ UNCHANGED <<files, runnerLock, pause, web, saves, deaths>>

FinishBackup(r) ==
    /\ At(r, "finish")
    /\ busy' = FALSE /\ runnerLock' = "free" /\ Leave(r)
    /\ UNCHANGED <<config, token, due, pending, uploaded, transaction, hostPlan, restoring, pause,
                    web, bounds>>

-----------------------------------------------------------------------------
(* restoreTick and resumeHostTick.                                         *)

LockRestore(r) == TakeRunnerLock(r, "restore lock", "restore read")

\* Under the lock a transaction goes before a request; the request is moved
\* away, or the tick fails when another one has taken it.
ReadRestore(r) ==
    /\ At(r, "restore read")
    /\ \/ transaction /\ Go(r, "restore recover") /\ UNCHANGED <<uploaded, restoring, runnerLock>>
       \/ /\ ~transaction /\ uploaded
          /\ uploaded' = FALSE /\ restoring' = TRUE /\ Go(r, "restore run") /\ UNCHANGED runnerLock
       \/ /\ ~transaction /\ ~uploaded
          /\ runnerLock' = "free" /\ Leave(r) /\ UNCHANGED <<uploaded, restoring>>
    /\ UNCHANGED <<config, token, due, pending, transaction, hostPlan, busy, pause,  web, bounds>>

\* A restore begins its transaction, or fails before that.
RestoreBegins(r) ==
    /\ At(r, "restore run")
    /\ \/ /\ Succeeds
          /\ transaction' = TRUE /\ Go(r, "restore end")
          /\ UNCHANGED <<restoring, runnerLock>>
       \/ /\ Fails
          /\ restoring' = FALSE /\ runnerLock' = "free" /\ Leave(r) /\ UNCHANGED transaction
    /\ UNCHANGED <<config, token, due, pending, uploaded, hostPlan, busy, pause, 
                   web, saves, deaths>>

\* It is committed or rolled back, or neither; it may leave the host tasks to do.
RestoreEnds(r) ==
    /\ At(r, "restore end")
    /\ \/ Succeeds /\ transaction' = FALSE /\ hostPlan' \in BOOLEAN
       \/ Fails /\ UNCHANGED <<transaction, hostPlan>>
    /\ restoring' = FALSE /\ runnerLock' = "free" /\ Leave(r)
    /\ UNCHANGED <<config, token, due, pending, uploaded, busy, pause, web,
                   saves, deaths>>

\* recoverDatabaseTransaction writes a new status when it is done.
RestoreRecovers(r) ==
    /\ At(r, "restore recover")
    /\ \/ Succeeds /\ transaction' = FALSE /\ restoring' = FALSE
       \/ Fails /\ UNCHANGED <<transaction, restoring>>
    /\ runnerLock' = "free" /\ Leave(r)
    /\ UNCHANGED <<config, token, due, pending, uploaded, hostPlan, busy, pause, 
                   web, saves, deaths>>

LockHost(r) == TakeRunnerLock(r, "host lock", "host")

ResumeHost(r) ==
    /\ At(r, "host")
    /\ \/ Succeeds /\ hostPlan' = FALSE /\ restoring' = FALSE
       \/ Fails /\ UNCHANGED hostPlan /\ restoring' = FALSE
    /\ runnerLock' = "free" /\ Leave(r)
    /\ UNCHANGED <<config, token, due, pending, uploaded, transaction, busy, pause,  web, saves, deaths>>

-----------------------------------------------------------------------------
(* The environment.                                                        *)

ScheduleComes ==
    /\ ~due /\ due' = TRUE
    /\ UNCHANGED <<config, token, pending, uploaded, transaction, hostPlan, busy, restoring,
                   runnerLock, pause, web, job, bounds>>

\* The kernel drops the lease of a process that dies; its lock file stays.
RunnerDies(r) ==
    /\ ~At(r, "idle") /\ deaths < MaxDeaths /\ deaths' = deaths + 1
    /\ runnerLock' = IF runnerLock = r THEN "stale" ELSE runnerLock
    /\ lease' = IF lease = r THEN "none" ELSE lease
    /\ Leave(r)
    /\ UNCHANGED <<files, marker, manager,  web, saves, failures>>

PortalDies ==
    /\ ~WebAt("idle") /\ deaths < MaxDeaths /\ deaths' = deaths + 1
    /\ runnerLock' = IF runnerLock = "web" THEN "stale" ELSE runnerLock
    /\ WebDone
    /\ UNCHANGED <<files, pause, job, saves, failures>>

\* The operator, once no job is running.
OperatorRemovesLock ==
    /\ runnerLock = "stale" /\ \A r \in Runners : job[r].step \notin BackupSteps \cup RestoreSteps
    /\ runnerLock' = "free"
    /\ UNCHANGED <<files, pause, web, job, bounds>>

Forms == RequestBackup \/ UploadRestore \/ OpenSettings
WebStep == Publish \/ TakeIdleLock \/ CheckIdle \/ SaveToken \/ SaveConfig \/ UndoToken

JobStep(r) ==
    \/ LockBackup(r) \/ ReadAgain(r) \/ StartBackup(r) \/ Preflight(r)
    \/ MakeMarker(r) \/ RecordPause(r) \/ StopManager(r) \/ Collect(r) \/ Resume(r) \/ Unmark(r)
    \/ TakeLease(r) \/ RestartManager(r) \/ Recovered(r)
    \/ Upload(r) \/ FinishBackup(r)
    \/ LockRestore(r) \/ ReadRestore(r) \/ RestoreBegins(r) \/ RestoreEnds(r) \/ RestoreRecovers(r)
    \/ LockHost(r) \/ ResumeHost(r)

QueueNext ==
    \/ Forms \/ WebStep \/ ScheduleComes \/ PortalDies \/ OperatorRemovesLock
    \/ \E r \in Runners : Decide(r) \/ JobStep(r) \/ RunnerDies(r)

QueueSpec == QueueInit /\ [][QueueNext]_queueVars
QueueFair ==
    /\ WF_queueVars(WebStep) /\ WF_queueVars(OperatorRemovesLock)
    /\ \A r \in Runners : WF_queueVars(JobStep(r)) /\ WF_queueVars(Decide(r))
QueueFairSpec == QueueSpec /\ QueueFair

-----------------------------------------------------------------------------
(* Properties.                                                             *)

\* A job uses the settings and the token that are on the disk while it runs:
\* never a repository read before a save with the token of that save (tick).
JobUsesCurrentSettings ==
    \A r \in Runners : job[r].token # "none" => job[r].repo = config /\ job[r].token = token

\* CPAMP is down only while its snapshot is taken, or while the marker and its
\* record tell the next tick to start it again.
ManagerComesBack == manager = "down" => marker = "recorded"

\* Nobody starts CPAMP, nor restores data, while its database is copied.
SnapshotUndisturbed == \A r \in Runners : At(r, "collect") => manager = "down" /\ lease = r

\* A request is taken up, whatever dies and fails, as soon as ticks get as far as
\* requests: a snapshot that died before its record was written stops them all.
RequestTaken == pending ~> ~pending \/ marker = "empty"
=============================================================================
