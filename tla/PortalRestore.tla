---------------------------- MODULE PortalRestore ----------------------------
(***************************************************************************)
(* The transaction that replaces the data of the portal (and, in the       *)
(* rebuild mode, of CPA and CPAMP) by those of a backup: restoreTick,      *)
(* replacePortalDatabase, its rollback, the recovery of an interrupted     *)
(* transaction by a later tick, and the installation of the host tasks.    *)
(*                                                                         *)
(* The runner is one process, started every minute; a lock file keeps two  *)
(* of them apart.  A crash loses `run` and nothing else: the rest is files *)
(* and containers.  Every call may fail; a crash may come between any two. *)
(***************************************************************************)
EXTENDS Naturals, Sequences

CONSTANTS
    Targets,       \* mode -> sequence of what is replaced, [kind, exists]
    AutoHost,      \* the default host layout: host tasks are installed too
    RecordFaults,  \* phases whose recording may fail, with or without effect
    MaxFaults,     \* bound: calls that fail
    MaxCrashes     \* bound: crashes of the runner

Modes == {"database", "rebuild"}
Kinds == {"database", "directory", "file"}
Defects(m) == {"none", "request", "archive", "settings", "credentials", "admin"}
              \cup (IF m = "rebuild" THEN {"deployment", "content", "manager"} ELSE {})
Phases == {"preparing", "stopping", "switching", "starting", "committed", "rolled-back"}

ASSUME RestoreAssumption ==
    /\ \A m \in Modes : /\ Targets[m] \in Seq([kind : Kinds, exists : BOOLEAN])
                         /\ Len(Targets[m]) > 0
    /\ \A i \in 1..Len(Targets["database"]) : Targets["database"][i].kind = "database" => i = 1
    /\ AutoHost \in BOOLEAN /\ RecordFaults \subseteq Phases
    /\ MaxFaults \in Nat /\ MaxCrashes \in Nat

VARIABLES
    mode,      \* the mode the administrator chose
    defect,    \* what is wrong with the backup, or "none"
    template,  \* the deployment template is on the host
    missing,   \* rebuild: no upstream container existed before
    request,   \* restore-pending waits for the runner
    live,      \* what is at the path of each target
    wal,       \* whose sidecar (-wal, -shm) lies beside a database
    stage,     \* targets whose stage directory exists
    copies,    \* restore-rollback-*: copy of each target, or none of it
    record,    \* transaction.json: "none", "unreadable" or its phase
    plan,      \* the pending installation of the host tasks
    installed, \* host tasks of the backup are installed
    portal,    \* the portal container, "up" or "down"
    upstream,  \* the images CPA and CPAMP run on, "down" if none runs
    report,    \* restore-status.json
    lock,      \* runner.lock
    run,       \* the runner: its next call and its locals
    faults, crashes

disk == <<stage, copies, record, live, wal>>
services == <<portal, upstream>>
host == <<plan, installed>>
restoreVars == <<mode, defect, missing, request, template, disk, host, services, report, lock, run,
                 faults, crashes>>

Index == 1..Len(Targets[mode])
Target(i) == Targets[mode][i]
Original(i) == IF Target(i).exists THEN "old" ELSE "none"
Databases == {i \in Index : Target(i).kind = "database"}
Rebuild == mode = "rebuild"

Steps ==
    {"idle", "request", "policy", "decrypt", "bootstrap", "deployment", "content", "pull", "volume",
     "plan", "verify", "manager", "settings", "credentials", "space", "original", "mkdir",
     "stage", "candidate", "preparing", "stopping", "stop", "snapshot",
     "switching", "aside", "in", "starting", "upstream", "portal", "healthy", "committed",
     "ready", "install", "tasks", "back", "back.stop", "back.aside", "back.in", "rolled-back",
     "recover", "report", "clean", "drop", "end"}

Idle == [step |-> "idle", at |-> 1, phase |-> "none", images |-> "new", remove |-> FALSE,
         back |-> FALSE, recovers |-> FALSE, failed |-> FALSE]

Copies == [Index -> {"old", "new", "none"}]
Runs == [step : Steps, at : Index, phase : Phases \cup {"none"}, images : {"old", "new"},
         remove : BOOLEAN, back : BOOLEAN, recovers : BOOLEAN, failed : BOOLEAN]

RestoreTypeOK ==
    /\ mode \in Modes /\ missing \in BOOLEAN /\ request \in BOOLEAN
    /\ defect \in Defects("rebuild") /\ template \in BOOLEAN
    /\ live \in [Index -> {"old", "new", "none"}]
    /\ wal \in [Index -> {"old", "new", "none"}]
    /\ stage \subseteq Index
    /\ copies \in Copies \cup {<< >>}
    /\ record \in {"none", "unreadable"} \cup Phases
    /\ plan \in {"none", "waiting", "ready"} /\ installed \in BOOLEAN
    /\ portal \in {"up", "down"} /\ upstream \in {"old", "new", "down"}
    /\ report \in {"none", "running", "failed", "complete", "host_pending"}
    /\ lock \in {"free", "held", "stale"}
    /\ run \in Runs
    /\ faults \in 0..MaxFaults /\ crashes \in 0..MaxCrashes

RestoreInit ==
    /\ mode \in Modes
    /\ defect \in Defects(mode)
    /\ missing \in {FALSE, Rebuild}
    /\ template \in {TRUE, ~missing}
    /\ request = TRUE
    /\ live = [i \in Index |-> Original(i)]
    /\ wal = [i \in Index |-> "none"]
    /\ stage = {} /\ copies = << >> /\ record = "none"
    /\ plan = "none" /\ installed = FALSE
    /\ portal = "up" /\ upstream = (IF missing THEN "down" ELSE "old")
    /\ report = "none" /\ lock = "free" /\ run = Idle
    /\ faults = 0 /\ crashes = 0

-----------------------------------------------------------------------------
(* Helpers.                                                                *)

Fault == faults < MaxFaults /\ faults' = faults + 1
NoFault == UNCHANGED faults
Does(step) == run.step = step
Goto(step) == run' = [run EXCEPT !.step = step, !.at = 1]

\* Mutant: one target too many.
LoopOffByOne(again, next) ==
    run' = IF run.at <= Len(Targets[mode]) THEN [run EXCEPT !.step = again, !.at = run.at + 1]
                                           ELSE [run EXCEPT !.step = next, !.at = 1]

\* A loop over the targets: `again` for each of them, then `next`.
Loop(again, next) ==
    run' = IF run.at < Len(Targets[mode]) THEN [run EXCEPT !.step = again, !.at = run.at + 1]
                                          ELSE [run EXCEPT !.step = next, !.at = 1]

\* Before any service is stopped a failure only undoes the preparations.
Abandon == run' = [run EXCEPT !.step = "clean", !.failed = TRUE]

\* Mutant: a rollback that failed is cleaned up like one that succeeded.
FailDropsTransaction ==
    run' = [run EXCEPT !.step = IF run.back \/ run.recovers THEN "clean" ELSE "back",
                       !.failed = TRUE, !.at = 1]

\* Afterwards it rolls back; a rollback or a recovery that fails keeps the
\* transaction for a later tick.
Fail == run' = IF run.back \/ run.recovers
               THEN [run EXCEPT !.step = "end", !.failed = TRUE]
               ELSE [run EXCEPT !.step = "back", !.failed = TRUE, !.at = 1]

unmoved == <<mode, defect, missing, request, crashes>>

-----------------------------------------------------------------------------
(* The tick: restoreTick, and resumeHostTick when only a plan is left.     *)

TakeLock == lock = "free" /\ Does("idle") /\ lock' = "held"

StartRestore ==
    /\ request /\ record = "none"
    /\ TakeLock
    /\ request' = FALSE
    /\ report' = "running"
    /\ Goto("request")
    /\ UNCHANGED <<mode, defect, missing, crashes, template, disk, host, services, faults>>

StartRecovery ==
    /\ record # "none"
    /\ TakeLock
    /\ run' = [Idle EXCEPT !.step = "recover", !.recovers = TRUE]
    /\ UNCHANGED <<unmoved, template, disk, host, services, report, faults>>

StartHost ==
    /\ ~request /\ record = "none" /\ plan # "none"
    /\ TakeLock
    /\ Goto("install")
    /\ UNCHANGED <<unmoved, template, disk, host, services, report, faults>>

-----------------------------------------------------------------------------
(* What is checked before anything is touched.  A check finds the defect   *)
(* of the backup it is for; any of them may fail for a reason of its own.  *)

Rejected == run' = [run EXCEPT !.step = "end", !.failed = TRUE]

Check(step, found, next) ==
    /\ Does(step)
    /\ \/ defect # found /\ NoFault /\ Goto(next)
       \/ defect = found /\ NoFault /\ Rejected
       \/ Fault /\ Rejected
    /\ UNCHANGED <<unmoved, template, disk, host, services, report, lock>>

CheckRequest == Check("request", "request", "policy")

\* The policy of the host: complete for the mode, and its paths do not overlap.
CheckPolicy == Check("policy", "none such", "decrypt")

\* Restore: authenticated frames, manifest, digests, SQLite, into a new directory.
Decrypt == Check("decrypt", "archive", IF Rebuild THEN "bootstrap" ELSE "verify")

\* Only a host without the template gets the one built into the program, and
\* not beside containers nobody knows the template of.
Bootstrap ==
    /\ Does("bootstrap")
    /\ \/ template /\ NoFault /\ UNCHANGED template /\ Goto("deployment")
       \/ /\ ~template /\ missing /\ defect # "deployment" /\ NoFault
          /\ template' = TRUE /\ Goto("deployment")
       \/ /\ ~template /\ (~missing \/ defect = "deployment") /\ NoFault
          /\ UNCHANGED template /\ Rejected
       \/ ~template /\ Fault /\ template' \in {FALSE, missing} /\ Rejected
    /\ UNCHANGED <<unmoved, disk, host, services, report, lock>>

\* Prepare: the template, the images, the keys and the parameters of the backup
\* are those the operator approved.
ApproveDeployment == template /\ Check("deployment", "deployment", "content")
ApproveContent == Check("content", "content", "pull")

PullImages == Check("pull", "none such", "volume")
EnsureVolume == Check("volume", "none such", IF AutoHost THEN "plan" ELSE "verify")

\* prepareHostRestore: what will be installed, should the data be committed.
PrepareHost ==
    /\ Does("plan")
    /\ \/ NoFault /\ plan = "none" /\ plan' = "waiting" /\ Goto("verify")
       \/ plan # "none" /\ NoFault /\ UNCHANGED plan /\ Rejected
       \/ Fault /\ UNCHANGED plan /\ Rejected
    /\ UNCHANGED <<unmoved, template, disk, installed, services, report, lock>>

VerifyServices == Check("verify", "none such", IF Rebuild THEN "manager" ELSE "settings")
VerifyManager == Check("manager", "manager", "settings")
VerifySettings == Check("settings", "settings", "credentials")
PrepareCredentials == Check("credentials", "credentials", "space")
CheckSpace == Check("space", "none such", "original")
OriginalDeployment == Check("original", "none such", "mkdir")

-----------------------------------------------------------------------------
(* replacePortalDatabase, up to the moment the services stop.              *)

MakeTransaction ==
    /\ Does("mkdir")
    /\ \/ /\ NoFault
          /\ record' = "unreadable" /\ copies' = [i \in Index |-> "none"]
          /\ run' = [run EXCEPT !.step = "stage", !.phase = "preparing", !.at = 1]
       \/ /\ Fault
          /\ UNCHANGED <<record, copies>>
          /\ run' = [run EXCEPT !.step = "end", !.failed = TRUE]
    /\ UNCHANGED <<unmoved, template, stage, live, wal, host, services, report, lock>>

\* The candidate of a target is copied beside it.
StageTarget ==
    /\ Does("stage")
    /\ \/ /\ NoFault
          /\ stage' = stage \cup {run.at} /\ run' = [run EXCEPT !.step = "candidate"]
       \/ Fault /\ stage' \in {stage, stage \cup {run.at}} /\ Abandon
    /\ UNCHANGED <<unmoved, template, copies, record, live, wal, host, services, report, lock>>

\* Mutant: the administrators of the backup are not looked for.
CandidateUnchecked ==
    /\ Does("candidate") /\ NoFault /\ Loop("stage", "preparing")
    /\ UNCHANGED <<unmoved, template, disk, host, services, report, lock>>

\* It is checked and gets its owner and mode; the database of the portal must
\* have an administrator, and loses its sessions, reset codes and jobs.
CheckCandidate ==
    /\ Does("candidate")
    /\ LET bad == defect = "admin" /\ run.at = 1 IN
       \/ ~bad /\ NoFault /\ Loop("stage", "preparing")
       \/ bad /\ NoFault /\ Abandon
       \/ Fault /\ Abandon
    /\ UNCHANGED <<unmoved, template, disk, host, services, report, lock>>

\* Mutant: the transaction is not recorded before the data are replaced.
PersistPhaseLate(phase) ==
    /\ NoFault
    /\ record' = IF phase = "switching" THEN record ELSE phase

\* persistDatabaseTransaction: an atomic rename, then a sync of the directory.
PersistPhase(phase) == NoFault /\ record' = phase
PersistFails(phase) ==
    /\ phase \in RecordFaults /\ Fault
    /\ record' \in {record, phase}

Record(phase, next) ==
    /\ Does(phase)
    /\ \/ /\ PersistPhase(phase)
          /\ run' = [run EXCEPT !.step = next, !.phase = phase, !.at = 1]
       \/ /\ PersistFails(phase)
          /\ \/ phase = "preparing" /\ Abandon
             \/ /\ phase = "stopping"
                /\ run' = [run EXCEPT !.step = "clean", !.failed = TRUE, !.phase = phase]
             \/ /\ phase \in {"switching", "starting"}
                /\ run' = [run EXCEPT !.step = "back", !.failed = TRUE, !.phase = phase]
             \/ phase \in {"committed", "rolled-back"} /\ Fail
    /\ UNCHANGED <<unmoved, template, stage, copies, live, wal, host, services, report, lock>>

RecordPreparing == Record("preparing", "stopping")
RecordStopping == Record("stopping", "stop")
RecordSwitching == Record("switching", "aside")
RecordStarting == Record("starting", "upstream")
RecordCommitted == Record("committed", "ready")
RecordRolledBack == Record("rolled-back", "upstream")

-----------------------------------------------------------------------------
(* The switch, while the services are down.                                *)

\* dockerPortal.Stop, one container after the other; SQLite may leave its
\* sidecar or fold it into the database.
StopServices(next) ==
    /\ \/ /\ NoFault
          /\ portal' = "down" /\ upstream' = (IF Rebuild THEN "down" ELSE upstream)
          /\ Goto(next)
       \/ /\ Fault
          /\ portal' \in {portal, "down"}
          /\ upstream' \in {upstream} \cup (IF Rebuild /\ portal' = "down" THEN {"down"} ELSE {})
          /\ Fail
    /\ wal' \in {wal, [i \in Index |-> "none"]}
    /\ UNCHANGED <<unmoved, template, stage, copies, record, live, host, report, lock>>

Stop == Does("stop") /\ StopServices("snapshot")

\* Mutant: only the database is copied.
SnapshotDatabasesOnly ==
    /\ Does("snapshot")
    /\ NoFault
    /\ copies' = [copies EXCEPT ![run.at] = IF run.at \in Databases THEN live[run.at] ELSE @]
    /\ Loop("snapshot", "switching")
    /\ UNCHANGED <<unmoved, template, stage, record, live, wal, host, services, report, lock>>

\* What is at a path: a directory as a whole, a database with the log beside it
\* folded in (VACUUM INTO), nothing where nothing was.
CopyOf(i) == live[i]

\* The copies to roll back from.
Snapshot ==
    /\ Does("snapshot")
    /\ \/ NoFault /\ copies' = [copies EXCEPT ![run.at] = CopyOf(run.at)] /\ Loop("snapshot", "switching")
       \/ Fault /\ UNCHANGED copies /\ Fail
    /\ UNCHANGED <<unmoved, template, stage, record, live, wal, host, services, report, lock>>

\* Mutant: the sidecar of the old database stays where it is.
MoveAsideKeepsSidecar ==
    /\ Does("aside")
    /\ NoFault
    /\ live' = [live EXCEPT ![run.at] =
                   IF Target(run.at).kind = "directory" THEN "none" ELSE @]
    /\ run' = [run EXCEPT !.step = "in"]
    /\ UNCHANGED <<unmoved, template, stage, copies, record, wal, host, services, report, lock>>

\* The log of the database that was there must not be replayed into another one.
MoveSidecars(i) == wal' = [wal EXCEPT ![i] = "none"]

\* The sidecars, and the first rename of a directory.
MoveAside ==
    /\ Does("aside")
    /\ \/ /\ NoFault
          /\ MoveSidecars(run.at)
          /\ live' = [live EXCEPT ![run.at] =
                         IF Target(run.at).kind = "directory" THEN "none" ELSE @]
          /\ run' = [run EXCEPT !.step = "in"]
       \/ Fault /\ UNCHANGED <<wal, live>> /\ Fail
    /\ UNCHANGED <<unmoved, template, stage, copies, record, host, services, report, lock>>

MoveIn ==
    /\ Does("in")
    /\ \/ /\ NoFault
          /\ live' = [live EXCEPT ![run.at] = "new"]
          /\ Loop("aside", "starting")
       \/ Fault /\ live' \in {live, [live EXCEPT ![run.at] = "new"]} /\ Fail
    /\ UNCHANGED <<unmoved, template, stage, copies, record, wal, host, services, report, lock>>

-----------------------------------------------------------------------------
(* dockerPortal.Start and Healthy, in all three places that call them.     *)

StartUpstream ==
    /\ Does("upstream")
    /\ LET outcome == IF run.remove THEN "down" ELSE IF Rebuild THEN run.images ELSE upstream IN
       \/ NoFault /\ upstream' = outcome /\ Goto("portal")
       \/ Fault /\ upstream' \in {upstream, outcome} /\ Fail
    /\ UNCHANGED <<unmoved, template, disk, host, portal, report, lock>>

StartPortal ==
    /\ Does("portal")
    /\ \/ NoFault /\ portal' = "up" /\ Goto("healthy")
       \/ Fault /\ portal' \in {portal, "up"} /\ Fail
    /\ UNCHANGED <<unmoved, template, disk, host, upstream, report, lock>>

\* After the data were put back, the job cleans up; after a recovery it
\* reports first.
Healthy ==
    /\ Does("healthy")
    /\ \/ NoFault /\ Goto(IF run.recovers THEN "report"
                          ELSE IF run.back THEN "clean" ELSE "committed")
       \/ Fault /\ Fail
    /\ UNCHANGED <<unmoved, template, disk, host, services, report, lock>>

\* markHostRestoreReady: from now on the host tasks may be installed.
MarkReady ==
    /\ Does("ready")
    /\ \/ /\ NoFault
          /\ plan' = IF plan = "waiting" THEN "ready" ELSE plan
          /\ Goto(IF run.recovers THEN "upstream" ELSE "clean")
       \/ /\ Fault
          /\ UNCHANGED plan
          /\ run' = [run EXCEPT !.step = "end", !.failed = TRUE]
    /\ UNCHANGED <<unmoved, template, disk, installed, services, report, lock>>

-----------------------------------------------------------------------------
(* rollbackDatabaseTransaction.                                            *)

\* The images Start will run, and whether it removes what was not there before.
RestoreDeployment(side) == [run EXCEPT !.images = side, !.at = 1,
                                       !.remove = side = "old" /\ Rebuild /\ missing]

\* The services only have to be stopped again when data may have been replaced.
RollBack ==
    /\ Does("back")
    /\ \/ /\ copies # << >>
          /\ run' = [RestoreDeployment("old") EXCEPT
                                !.back = TRUE,
                                !.step = IF run.phase \in {"switching", "starting"}
                                         THEN "back.stop" ELSE "upstream"]
       \/ copies = << >> /\ run' = [run EXCEPT !.step = "end", !.failed = TRUE]
    /\ UNCHANGED <<unmoved, template, disk, host, services, report, lock, faults>>

StopAgain == Does("back.stop") /\ StopServices("back.aside")

\* A copy of the copy is made ready, the sidecar and what is at the path go.
MoveAsideAgain ==
    /\ Does("back.aside")
    /\ \/ /\ NoFault /\ run.at \in stage
          /\ MoveSidecars(run.at)
          /\ live' = [live EXCEPT ![run.at] = "none"]
          /\ run' = [run EXCEPT !.step = "back.in"]
       \/ /\ Fault
          /\ UNCHANGED live
          /\ wal' \in {wal, [wal EXCEPT ![run.at] = "none"]}
          /\ Fail
       \/ run.at \notin stage /\ NoFault /\ UNCHANGED <<wal, live>> /\ Fail
    /\ UNCHANGED <<unmoved, template, stage, copies, record, host, services, report, lock>>

\* Mutant: the copy of what was displaced is taken for the original.
MoveBackKeepsRest ==
    /\ Does("back.in")
    /\ NoFault
    /\ live' = [live EXCEPT ![run.at] = copies[run.at]]
    /\ Goto("rolled-back")
    /\ UNCHANGED <<unmoved, template, stage, copies, record, wal, host, services, report, lock>>

MoveBack ==
    /\ Does("back.in")
    /\ \/ /\ NoFault
          /\ live' = [live EXCEPT ![run.at] = copies[run.at]]
          /\ Loop("back.aside", "rolled-back")
       \/ Fault /\ live' \in {live, [live EXCEPT ![run.at] = copies[run.at]]} /\ Fail
    /\ UNCHANGED <<unmoved, template, stage, copies, record, wal, host, services, report, lock>>

-----------------------------------------------------------------------------
(* recoverDatabaseTransaction.                                             *)

\* A record that cannot be read, or whose directories are gone, is refused.
Recoverable == record \in Phases /\ copies # << >> /\ stage = Index

\* Mutant: a rollback that was recorded as done is refused.
RecoverRefusesRolledBack ==
    /\ Does("recover")
    /\ \/ /\ NoFault /\ Recoverable /\ record # "rolled-back"
          /\ run' = [RestoreDeployment("new") EXCEPT
                                !.phase = record,
                                !.step = IF record = "committed" THEN "ready" ELSE "back"]
       \/ (Fault \/ ((~Recoverable \/ record = "rolled-back") /\ NoFault)) /\ Fail
    /\ UNCHANGED <<unmoved, template, disk, host, services, report, lock>>

Recover ==
    /\ Does("recover")
    /\ \/ /\ NoFault /\ Recoverable
          /\ run' = [RestoreDeployment("new") EXCEPT
                                !.phase = record,
                                !.step = IF record = "committed" THEN "ready" ELSE "back"]
       \/ (Fault \/ (~Recoverable /\ NoFault)) /\ Fail
    /\ UNCHANGED <<unmoved, template, disk, host, services, report, lock>>

\* Mutant: a recovery always reports that the restore is complete.
RecoverReportsSuccess ==
    /\ Does("report")
    /\ NoFault /\ report' = "complete" /\ Goto("clean")
    /\ UNCHANGED <<unmoved, template, disk, host, services, lock>>

RecoverReport ==
    /\ Does("report")
    /\ \/ NoFault /\ report' = (IF record = "committed" THEN "complete" ELSE "failed") /\ Goto("clean")
       \/ Fault /\ UNCHANGED report /\ Fail
    /\ UNCHANGED <<unmoved, template, disk, host, services, lock>>

-----------------------------------------------------------------------------
(* The end of a job.                                                       *)

\* The deferred clean-up: copies of a transaction that never began, the stage
\* directories, and at last the transaction, file by file.
CleanStages ==
    /\ Does("clean")
    /\ copies' = IF run.phase = "preparing" THEN << >> ELSE copies
    /\ stage' = {}
    /\ Goto("drop")
    /\ UNCHANGED <<unmoved, template, record, live, wal, host, services, report, lock, faults>>

DropTransaction ==
    /\ Does("drop")
    /\ IF record = "unreadable" THEN record' = "none" /\ Goto("end")
                                ELSE record' = "unreadable" /\ UNCHANGED run
    /\ UNCHANGED <<unmoved, template, stage, copies, live, wal, host, services, report, lock, faults>>

\* The job is over: a success goes on with the host tasks, a failure drops their
\* plan unless a transaction is left that may still commit.
EndJob ==
    /\ Does("end")
    /\ IF ~run.failed /\ ~run.recovers /\ Rebuild /\ AutoHost
       THEN Goto("install") /\ UNCHANGED <<plan, report, lock>>
       ELSE /\ plan' = IF ~run.recovers /\ record = "none" THEN "none" ELSE plan
            /\ report' = IF run.recovers THEN report ELSE IF run.failed THEN "failed" ELSE "complete"
            /\ lock' = "free" /\ run' = Idle
    /\ UNCHANGED <<unmoved, template, disk, installed, services, faults>>

\* Mutant: the plan is carried out whether or not the data were committed.
InstallHostAnyway ==
    /\ Does("install")
    /\ NoFault
    /\ installed' = TRUE /\ plan' = "none" /\ report' = "complete"
    /\ lock' = "free" /\ run' = Idle
    /\ UNCHANGED <<unmoved, template, disk, services>>

\* resumeHostRestoreWith: only what was marked ready is installed.
InstallHost ==
    /\ Does("install")
    /\ \/ /\ plan # "ready"
          /\ plan' = "none" /\ report' = "failed"
          /\ lock' = "free" /\ run' = Idle
       \/ plan = "ready" /\ report' = "running" /\ Goto("tasks") /\ UNCHANGED <<plan, lock>>
    /\ UNCHANGED <<unmoved, template, disk, installed, services, faults>>

\* installTasks, one unit after the other; what fails is tried again by a tick.
InstallTasks ==
    /\ Does("tasks")
    /\ \/ NoFault /\ installed' = TRUE /\ plan' = "none" /\ report' = "complete"
       \/ /\ Fault
          /\ installed' \in {installed, TRUE} /\ report' = "host_pending" /\ UNCHANGED plan
    /\ lock' = "free" /\ run' = Idle
    /\ UNCHANGED <<unmoved, template, disk, services>>

-----------------------------------------------------------------------------
(* The environment.                                                        *)

\* The first target is the database of the portal, another is that of CPAMP.
Open(i) == IF i = 1 THEN portal = "up" ELSE upstream # "down"

\* A service that is up writes to its database.
ServiceWrites ==
    /\ \E i \in Databases :
          /\ Open(i) /\ live[i] # "none" /\ wal[i] = "none"
          /\ wal' = [wal EXCEPT ![i] = live[i]]
    /\ UNCHANGED <<unmoved, template, stage, copies, record, live, host, services, report, lock, run, faults>>

Crash ==
    /\ crashes < MaxCrashes /\ crashes' = crashes + 1
    /\ ~Does("idle")
    /\ run' = Idle /\ lock' = "stale"
    /\ UNCHANGED <<mode, defect, missing, request, template, disk, host, services, report, faults>>

\* The operator has made sure that no runner is left (ops/backup/README.md).
RemoveStaleLock ==
    /\ lock = "stale" /\ lock' = "free"
    /\ UNCHANGED <<unmoved, template, disk, host, services, report, run, faults>>

RunnerStep ==
    \/ CheckRequest \/ CheckPolicy \/ Decrypt \/ Bootstrap \/ ApproveDeployment \/ ApproveContent
    \/ PullImages \/ EnsureVolume
    \/ PrepareHost \/ VerifyServices \/ VerifyManager \/ VerifySettings \/ PrepareCredentials
    \/ CheckSpace \/ OriginalDeployment \/ MakeTransaction \/ StageTarget \/ CheckCandidate
    \/ RecordPreparing \/ RecordStopping \/ RecordSwitching \/ RecordStarting
    \/ RecordCommitted \/ RecordRolledBack
    \/ Stop \/ Snapshot \/ MoveAside \/ MoveIn
    \/ StartUpstream \/ StartPortal \/ Healthy \/ MarkReady
    \/ RollBack \/ StopAgain \/ MoveAsideAgain \/ MoveBack
    \/ Recover \/ RecoverReport \/ CleanStages \/ DropTransaction \/ EndJob \/ InstallHost \/ InstallTasks

Ticks == StartRestore \/ StartRecovery \/ StartHost

RestoreNext == RunnerStep \/ Ticks \/ ServiceWrites \/ Crash \/ RemoveStaleLock

RestoreSpec == RestoreInit /\ [][RestoreNext]_restoreVars
RestoreFair == WF_restoreVars(RunnerStep) /\ WF_restoreVars(Ticks)
               /\ WF_restoreVars(RemoveStaleLock)
RestoreFairSpec == RestoreSpec /\ RestoreFair

-----------------------------------------------------------------------------
(* Properties.                                                             *)

AllOriginal == \A i \in Index : live[i] = Original(i)
AllNew == \A i \in Index : live[i] = "new"

\* What the portal serves: data and images of one and the same side.
Serves ==
    CASE portal = "down" -> "down"
      [] portal = "up" /\ AllNew /\ (Rebuild => upstream # "old") -> "new"
      [] portal = "up" /\ AllOriginal /\ (Rebuild => upstream # "new") -> "old"
      [] OTHER -> "mixed"

\* The commit record decides; once it is gone the data tell.  A job that ended
\* without it has decided for the old data.
Decided ==
    CASE record = "committed" \/ (record \in {"none", "unreadable"} /\ AllNew) -> "new"
      [] record = "none" /\ ~AllNew /\ ~request /\ run.step \in {"idle", "end", "install"} -> "old"
      [] OTHER -> "open"

\* The restore implements the all-or-nothing switch, over every failure and
\* crash: replacePortalDatabase with its rollback and its recovery.
Promise == INSTANCE AtomicRestore WITH serves <- Serves, decided <- Decided
AllOrNothing == Promise!PromiseSpec

\* No service opens a database beside the write-ahead log of another one
\* (moveDatabaseSidecars, before each replacement and each rollback).
NoForeignSidecar == \A i \in Databases : Open(i) => wal[i] \in {"none", live[i]}

\* Until the commit, the data the portal had are in place or in the rollback
\* copies, so that a crash never meets the moment where they are nowhere, and
\* the host tasks of the backup are neither released nor installed
\* (replacePortalDatabase, and plan.Ready of resumeHostRestoreWith).
NothingBeforeCommit ==
    /\ record \in {"stopping", "switching", "starting"} =>
        \A i \in Index : Target(i).exists =>
            live[i] = "old" \/ (copies # << >> /\ copies[i] = "old")
    /\ plan = "ready" \/ installed => AllNew

\* restore-status.json says what became of the data: complete is never said of
\* data that were put back or of a backup that fails a check, nor failed of data
\* that stay.
ReportTruthful ==
    /\ report \in {"complete", "host_pending"} => AllNew /\ defect = "none"
    /\ report = "failed" /\ record = "none" => AllOriginal

\* A transaction no tick can resolve any more is left only where nothing is
\* half done: the portal is up on one set of data.
StuckIsConsistent ==
    record # "none" /\ ~Recoverable /\ run.step = "idle" => Serves \in {"old", "new"}

\* Once calls stop failing, the ticks finish every transaction they can read.
TransactionEnds == <>[](record = "none" \/ ~Recoverable)
=============================================================================
