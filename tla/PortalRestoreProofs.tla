------------------------- MODULE PortalRestoreProofs -------------------------
(***************************************************************************)
(* Proofs about the transaction of a restore, for any number of replaced   *)
(* paths, faults and crashes, as long as the two records that decide, the  *)
(* one of the switch and the one of the commit, either are written or are  *)
(* not (DurableRecords; see the run restore_lost_switch for the former).   *)
(***************************************************************************)
EXTENDS PortalRestore, TLAPS

DurableRecords == RecordFaults \cap {"switching", "committed"} = {}

-----------------------------------------------------------------------------
(* The strengthening.                                                      *)

\* Nothing has been touched yet.
Early == {"request", "policy", "decrypt", "bootstrap", "deployment", "content", "pull", "volume",
          "plan", "verify", "manager", "settings", "credentials", "space", "original", "mkdir"}

\* The job itself, neither its rollback nor the recovery of an earlier one.
Job == ~run.back /\ ~run.recovers
Copied == copies \in Copies /\ \A i \in Index : copies[i] = Original(i)

\* The targets before the one at hand have been copied, replaced, put back.
Snapped == \A i \in Index : i < run.at => copies[i] = Original(i)
Replaced == \A i \in Index : i < run.at => live[i] = "new"
PutBack == \A i \in Index : i < run.at => live[i] = Original(i)

\* What the record says of the data.
Recorded ==
    /\ request => AllOriginal /\ record = "none" /\ plan = "none" /\ ~installed
    /\ record \in {"preparing", "stopping", "rolled-back"} => AllOriginal
    /\ record \in {"switching", "starting"} => Copied
    /\ record = "committed" => AllNew
    /\ record \in {"none", "unreadable"} => AllOriginal \/ AllNew
    /\ plan = "ready" \/ installed => AllNew /\ record \in {"committed", "unreadable", "none"}

\* How far the job, the rollback or the recovery has come.
Position ==
    /\ request => run.step = "idle"
    /\ run.step = "idle" => Job
    /\ run.step \in Early => Job /\ record = "none" /\ AllOriginal
    /\ run.step \in {"stage", "candidate", "preparing"} =>
          Job /\ record = "unreadable" /\ run.phase = "preparing" /\ AllOriginal
    /\ run.step = "stopping" => Job /\ record = "preparing" /\ run.phase = "preparing"
    /\ run.step \in {"stop", "snapshot", "switching"} =>
          Job /\ record = "stopping" /\ run.phase = "stopping"
    /\ run.step \in {"stage", "candidate", "preparing", "stopping", "stop", "snapshot"} =>
          copies \in Copies
    /\ run.step = "snapshot" => Snapped
    /\ run.step = "switching" => Copied
    /\ run.step \in {"aside", "in", "starting"} =>
          Job /\ record = "switching" /\ run.phase = "switching"
    /\ run.step \in {"aside", "in"} => Replaced
    /\ run.step = "starting" => AllNew
    /\ run.step \in {"upstream", "portal", "healthy", "committed"} =>
          IF run.back THEN record \in {"preparing", "stopping", "rolled-back"}
          ELSE IF run.recovers THEN record = "committed"
          ELSE record = "starting" /\ run.phase = "starting" /\ AllNew
    /\ run.step = "committed" => Job
    /\ run.step = "ready" => ~run.back /\ record = "committed"
    /\ run.step = "back" => IF run.phase \in {"switching", "starting"}
                            THEN record \in {"switching", "starting"}
                            ELSE record \in {"preparing", "stopping", "rolled-back"}
    /\ run.step \in {"back.stop", "back.aside", "back.in", "rolled-back"} =>
          run.back /\ record \in {"switching", "starting"}
    /\ run.step \in {"back.aside", "back.in"} => PutBack
    /\ run.step = "rolled-back" => AllOriginal
    /\ run.step = "recover" => run.recovers /\ ~run.back
    /\ run.step = "report" =>
          run.recovers /\ record \in {"preparing", "stopping", "rolled-back", "committed"}
    /\ run.step \in {"clean", "drop"} => record \notin {"none", "switching", "starting"}
    /\ run.step = "tasks" => plan = "ready"

\* Data and images of one side.
OneSide == \/ AllNew /\ (Rebuild => upstream # "old")
           \/ AllOriginal /\ (Rebuild => upstream # "new")

\* A database and the log beside it belong together.
Logs ==
    /\ \A i \in Databases : wal[i] \in {"none", live[i]}
    /\ run.step \in {"in", "back.in"} => wal[run.at] = "none"

\* The steps at which the portal answers, and those at which nothing runs.
Answered == Early \cup {"stage", "candidate", "preparing", "stopping", "healthy", "committed",
                        "report", "clean", "drop"}
Silent == {"snapshot", "switching", "aside", "in", "starting", "back.aside", "back.in", "rolled-back"}

Answers ==
    /\ portal = "up" => OneSide
    /\ run.step \in Answered => portal = "up"
    /\ run.step = "ready" /\ Job => portal = "up"
    /\ record # "none" /\ ~Recoverable => portal = "up"
    /\ record = "none" => portal = "up"
    /\ run.step \in Silent => portal = "down" /\ (Rebuild => upstream = "down")

\* The images that are, or were, started.
Images ==
    /\ run.images = (IF run.back THEN "old" ELSE "new")
    /\ run.remove <=> (run.back /\ Rebuild /\ missing)
    /\ run.step \in {"portal", "healthy", "committed"} /\ Rebuild =>
          IF run.back THEN upstream # "new" ELSE upstream = "new"

\* The directories a later tick needs are there until the clean-up.
Tracked == {"stopping", "stop", "snapshot", "switching", "aside", "in", "starting", "upstream",
            "portal", "healthy", "committed", "ready", "back", "back.stop", "back.aside", "back.in",
            "rolled-back", "report"}

Directories ==
    /\ run.step \in Tracked => stage = Index /\ copies # << >>
    /\ run.step = "stage" => \A i \in Index : i < run.at => i \in stage
    /\ run.step = "candidate" => \A i \in Index : i <= run.at => i \in stage
    /\ run.step = "preparing" => stage = Index

\* Which services run, and on what.
Serving == Logs /\ Answers /\ Images /\ Directories

\* The steps a job comes to before the defect d of the backup shows.
Meets(d, step) ==
    \/ d = "none"
    \/ d = "request" /\ step = "request"
    \/ d = "archive" /\ step \in {"request", "policy", "decrypt"}
    \/ d = "deployment" /\ step \in {"request", "policy", "decrypt", "bootstrap", "deployment"}
    \/ d = "content" /\ step \in {"request", "policy", "decrypt", "bootstrap", "deployment", "content"}
    \/ d = "manager" /\ step \in Early \ {"settings", "credentials", "space", "original", "mkdir"}
    \/ d = "settings" /\ step \in Early \ {"credentials", "space", "original", "mkdir"}
    \/ d = "credentials" /\ step \in Early \ {"space", "original", "mkdir"}
    \/ d = "admin" /\ step \in Early \cup {"stage", "candidate", "clean", "drop", "recover"}

\* A backup with a defect has replaced nothing.
Diagnosed ==
    /\ defect \in Defects(mode)
    /\ defect # "none" => record \in {"none", "unreadable"} /\ AllOriginal
    /\ defect \notin {"none", "admin"} => record = "none"
    /\ run.step \in {"idle", "end", "install"} \/ Meets(defect, run.step)
    /\ defect = "admin" /\ run.step \in {"stage", "candidate"} => run.at = 1

\* What has been said.
Reported ==
    /\ report \in {"complete", "host_pending"} => AllNew /\ record \in {"committed", "unreadable", "none"}
    /\ report = "failed" /\ record = "none" => AllOriginal
    /\ report = "failed" /\ run.step \in {"clean", "drop"} => AllOriginal

\* What a job knows of its own outcome.
Outcome ==
    ~run.recovers =>
       /\ run.step \notin {"idle", "install", "tasks"} => report = "running"
       /\ run.step \notin {"install", "tasks", "clean", "drop", "end", "back"} =>
             (run.failed <=> run.back)
       /\ run.step = "back" => run.failed
       /\ run.step \in {"clean", "drop"} => IF run.failed THEN AllOriginal ELSE AllNew
       /\ run.step = "end" => IF run.failed THEN record = "none" => AllOriginal
                                            ELSE record = "none" /\ AllNew

\* The plan waits from its making to the commit.
Planned == {"verify", "manager", "settings", "credentials", "space", "original", "mkdir", "stage",
            "candidate", "preparing", "stopping", "stop", "snapshot", "switching", "aside", "in",
            "starting", "upstream", "portal", "healthy", "committed", "ready"}

Planning ==
    /\ plan = "waiting" /\ record \in {"none", "unreadable"} => AllOriginal
    /\ run.step \in {"upstream", "portal", "healthy", "report", "clean", "drop"} /\ record = "committed" =>
          plan # "waiting"
    /\ Rebuild /\ AutoHost /\ ~run.recovers /\ ~run.failed =>
          /\ run.step \in Planned => plan = "waiting"
          /\ run.step \in {"clean", "drop", "end"} => plan = "ready"
    /\ run.step = "install" => record = "none" /\ (plan = "ready" \/ AllOriginal)

\* What is known of the backup, and what has been said of the outcome.
Verdict == Diagnosed /\ Reported /\ Outcome /\ Planning

\* Where the record and the run stand.
Placed == Recorded /\ Position

RestoreInv == RestoreTypeOK /\ Placed /\ Serving /\ Verdict

-----------------------------------------------------------------------------
(* The paths, the two sides, and the record of the runner.                 *)

\* The targets of a mode can be walked from the first to the last.
LEMMA Indices ==
    ASSUME mode \in Modes
    PROVE  /\ Len(Targets[mode]) \in Nat /\ 1 \in Index
           /\ \A i \in Index : i \in Nat /\ i <= Len(Targets[mode])
           /\ \A i \in Index : i < Len(Targets[mode]) => i + 1 \in Index
           /\ \A i \in Index : i = Len(Targets[mode]) \/ i < Len(Targets[mode])
<1>1. Targets[mode] \in Seq([kind : Kinds, exists : BOOLEAN]) /\ Len(Targets[mode]) > 0
  BY RestoreAssumption DEF RestoreAssumption
<1>2. Len(Targets[mode]) \in Nat
  BY <1>1
<1> QED BY <1>1, <1>2 DEF Index

\* What stands at a path before the switch is old or nothing, and not all of it new.
LEMMA Originals ==
    ASSUME mode \in Modes
    PROVE  /\ \A i \in Index : Original(i) \in {"old", "none"}
           /\ ~(AllNew /\ AllOriginal)
<1>1. \A i \in Index : Original(i) \in {"old", "none"}
  BY DEF Original
<1> QED BY <1>1, Indices DEF AllNew, AllOriginal

\* The data that are not touched stay on their side.
LEMMA SidesKept ==
    ASSUME UNCHANGED <<mode, live>>
    PROVE  /\ Index' = Index /\ (AllNew' <=> AllNew) /\ (AllOriginal' <=> AllOriginal)
           /\ \A i \in Index : Original(i)' = Original(i)
           /\ Copies' = Copies /\ Runs' = Runs
BY DEF Index, AllNew, AllOriginal, Original, Target, Copies, Runs

\* What is defined by the mode alone changes only with it.
LEMMA ModeKept ==
    ASSUME mode' = mode
    PROVE  /\ Index' = Index /\ Rebuild' = Rebuild /\ Databases' = Databases
           /\ \A i \in Index : Original(i)' = Original(i)
           /\ Copies' = Copies /\ Runs' = Runs
BY DEF Index, Rebuild, Databases, Original, Target, Copies, Runs

\* The runner goes to a step; what kind of run it is does not change.
Moved(step, at, phase, failed) ==
    /\ run' \in Runs
    /\ run'.step = step /\ run'.at = at /\ run'.phase = phase /\ run'.failed = failed
    /\ run'.images = run.images /\ run'.remove = run.remove
    /\ run'.back = run.back /\ run'.recovers = run.recovers

\* The runner goes on with another part, at its first target.
LEMMA GotoMoves ==
    ASSUME mode \in Modes, run \in Runs, NEW next \in Steps, Goto(next)
    PROVE  Moved(next, 1, run.phase, run.failed)
BY Indices DEF Goto, Moved, Runs

\* A request that is refused ends the run as failed.
LEMMA RejectedMoves ==
    ASSUME mode \in Modes, run \in Runs, Rejected
    PROVE  Moved("end", run.at, run.phase, TRUE)
BY DEF Rejected, Moved, Runs, Steps

\* A failure before anything was moved leads to the removal of the stages.
LEMMA AbandonMoves ==
    ASSUME mode \in Modes, run \in Runs, Abandon
    PROVE  Moved("clean", run.at, run.phase, TRUE)
BY DEF Abandon, Moved, Runs, Steps

\* A later failure leads to the rollback, once; a rollback or a recovery that fails ends.
LEMMA FailMoves ==
    ASSUME mode \in Modes, run \in Runs, Fail
    PROVE  IF run.back \/ run.recovers THEN Moved("end", run.at, run.phase, TRUE)
                                       ELSE Moved("back", 1, run.phase, TRUE)
BY ZenonT(60), Indices DEF Fail, Moved, Runs, Steps

\* The runner at rest is a run like any other.
LEMMA IdleTypes ==
    ASSUME mode \in Modes
    PROVE  Idle \in Runs /\ Idle.step = "idle" /\ Idle.at = 1 /\ Idle.images = "new" /\ ~Idle.remove
           /\ ~Idle.back /\ ~Idle.recovers /\ ~Idle.failed
BY Indices DEF Idle, Runs, Steps

\* The number of failures stays within its bound.
LEMMA FaultTypes ==
    ASSUME faults \in 0..MaxFaults, Fault \/ NoFault
    PROVE  faults' \in 0..MaxFaults
BY RestoreAssumption DEF RestoreAssumption, Fault, NoFault

\* Changing the step alone, with or without noting a failure.
LEMMA StepMoves ==
    ASSUME run \in Runs, NEW s \in Steps
    PROVE  /\ run' = [run EXCEPT !.step = s] => Moved(s, run.at, run.phase, run.failed)
           /\ run' = [run EXCEPT !.step = s, !.failed = TRUE] => Moved(s, run.at, run.phase, TRUE)
<1>1. ASSUME run' = [run EXCEPT !.step = s] PROVE Moved(s, run.at, run.phase, run.failed)
  BY <1>1 DEF Moved, Runs
<1>2. ASSUME run' = [run EXCEPT !.step = s, !.failed = TRUE] PROVE Moved(s, run.at, run.phase, TRUE)
  BY <1>2 DEF Moved, Runs
<1> QED BY <1>1, <1>2

\* Changing the step and the target.
LEMMA TargetMoves ==
    ASSUME run \in Runs, NEW s \in Steps, NEW i \in Index, run' = [run EXCEPT !.step = s, !.at = i]
    PROVE  Moved(s, i, run.phase, run.failed)
BY DEF Moved, Runs

\* Changing the step with the phase, from the first target on or after a failure.
LEMMA PhaseMoves ==
    ASSUME mode \in Modes, run \in Runs, NEW s \in Steps, NEW p \in Phases
    PROVE  /\ run' = [run EXCEPT !.step = s, !.phase = p, !.at = 1] => Moved(s, 1, p, run.failed)
           /\ run' = [run EXCEPT !.step = s, !.failed = TRUE, !.phase = p] => Moved(s, run.at, p, TRUE)
<1>1. ASSUME run' = [run EXCEPT !.step = s, !.phase = p, !.at = 1] PROVE Moved(s, 1, p, run.failed)
  BY <1>1, Indices DEF Moved, Runs
<1>2. ASSUME run' = [run EXCEPT !.step = s, !.failed = TRUE, !.phase = p] PROVE Moved(s, run.at, p, TRUE)
  BY <1>2 DEF Moved, Runs
<1> QED BY <1>1, <1>2

\* The images to be started are chosen, and whether the project is to be removed.
LEMMA DeploymentMoves ==
    ASSUME mode \in Modes, run \in Runs, missing \in BOOLEAN, NEW side \in {"old", "new"}
    PROVE  LET r == RestoreDeployment(side) IN
           /\ r \in Runs /\ r.at = 1 /\ r.images = side /\ r.step = run.step /\ r.phase = run.phase
           /\ r.remove = (side = "old" /\ Rebuild /\ missing)
           /\ r.back = run.back /\ r.recovers = run.recovers /\ r.failed = run.failed
<1> DEFINE remove == side = "old" /\ Rebuild /\ missing
           q == [run EXCEPT !.images = side]
           s == [q EXCEPT !.at = 1]
<1>1. remove \in BOOLEAN
  BY DEF Rebuild
<1>2. q \in Runs /\ q.images = side /\ q.step = run.step /\ q.phase = run.phase
      /\ q.back = run.back /\ q.recovers = run.recovers /\ q.failed = run.failed
  BY DEF Runs
<1>3. RestoreDeployment(side) = [s EXCEPT !.remove = remove]
  BY DEF RestoreDeployment
<1> HIDE DEF remove, q
<1>4. s \in Runs /\ s.at = 1 /\ s.images = side /\ s.step = run.step /\ s.phase = run.phase
      /\ s.back = run.back /\ s.recovers = run.recovers /\ s.failed = run.failed
  BY <1>2, Indices DEF Runs
<1> HIDE DEF s
<1>5. LET r == [s EXCEPT !.remove = remove] IN
      /\ r \in Runs /\ r.at = 1 /\ r.images = side /\ r.step = run.step /\ r.phase = run.phase
      /\ r.remove = remove
      /\ r.back = run.back /\ r.recovers = run.recovers /\ r.failed = run.failed
  BY <1>1, <1>4 DEF Runs
<1> QED BY <1>3, <1>5 DEF remove

\* A rollback stops the services again if the switch had begun, else it goes on with CPAMP.
LEMMA RollBackMoves ==
    ASSUME mode \in Modes, run \in Runs, missing \in BOOLEAN, RollBack, copies # << >>
    PROVE  /\ run' \in Runs /\ run'.at = 1 /\ run'.phase = run.phase /\ run'.failed = run.failed
           /\ run'.step = IF run.phase \in {"switching", "starting"} THEN "back.stop" ELSE "upstream"
           /\ run'.back /\ run'.recovers = run.recovers
           /\ run'.images = "old" /\ run'.remove = (Rebuild /\ missing)
<1> DEFINE r == RestoreDeployment("old")
           s == IF run.phase \in {"switching", "starting"} THEN "back.stop" ELSE "upstream"
<1>1. run' = [r EXCEPT !.back = TRUE, !.step = s]
  BY DEF RollBack
<1>2. /\ r \in Runs /\ r.at = 1 /\ r.images = "old" /\ r.phase = run.phase
      /\ r.remove = (Rebuild /\ missing) /\ r.recovers = run.recovers /\ r.failed = run.failed
  BY DeploymentMoves
<1>3. s \in Steps
  BY DEF Steps
<1> HIDE DEF r, s
<1>4. /\ run' \in Runs /\ run'.at = 1 /\ run'.phase = run.phase /\ run'.failed = run.failed
      /\ run'.step = s /\ run'.back /\ run'.recovers = run.recovers
      /\ run'.images = "old" /\ run'.remove = (Rebuild /\ missing)
  BY <1>1, <1>2, <1>3 DEF Runs
<1> QED BY <1>4 DEF s

\* A recovery that can begin goes on with what the record asks of it.
LEMMA RecoverMoves ==
    ASSUME mode \in Modes, run \in Runs, missing \in BOOLEAN, Recover
    PROVE  \/ Fail
           \/ /\ Recoverable
              /\ run' \in Runs /\ run'.at = 1 /\ run'.phase = record /\ run'.failed = run.failed
              /\ run'.step = IF record = "committed" THEN "ready" ELSE "back"
              /\ run'.back = run.back /\ run'.recovers = run.recovers
              /\ run'.images = "new" /\ ~run'.remove
<1> DEFINE r == RestoreDeployment("new")
           s == IF record = "committed" THEN "ready" ELSE "back"
<1> SUFFICES ASSUME ~Fail
             PROVE  /\ Recoverable
                    /\ run' \in Runs /\ run'.at = 1 /\ run'.phase = record /\ run'.failed = run.failed
                    /\ run'.step = s /\ run'.back = run.back /\ run'.recovers = run.recovers
                    /\ run'.images = "new" /\ ~run'.remove
  BY DEF s
<1>1. Recoverable /\ run' = [r EXCEPT !.phase = record, !.step = s]
  BY DEF Recover
<1>2. /\ r \in Runs /\ r.at = 1 /\ r.images = "new" /\ r.back = run.back
      /\ ~r.remove /\ r.recovers = run.recovers /\ r.failed = run.failed
  BY DeploymentMoves
<1>3. s \in Steps /\ record \in Phases
  BY <1>1 DEF Steps, Recoverable
<1> HIDE DEF r, s
<1> QED BY <1>1, <1>2, <1>3 DEF Runs

\* The fields of a run.
LEMMA RunFields ==
    ASSUME run \in Runs
    PROVE  /\ run.step \in Steps /\ run.at \in Index /\ run.phase \in Phases \cup {"none"}
           /\ run.images \in {"old", "new"} /\ run.remove \in BOOLEAN /\ run.back \in BOOLEAN
           /\ run.recovers \in BOOLEAN /\ run.failed \in BOOLEAN
BY DEF Runs

\* One target done: the next one, or the next part.
LEMMA LoopMoves ==
    ASSUME mode \in Modes, run \in Runs, NEW again \in Steps, NEW next \in Steps, Loop(again, next)
    PROVE  /\ run' \in Runs
           /\ run.at < Len(Targets[mode]) => Moved(again, run.at + 1, run.phase, run.failed)
           /\ ~(run.at < Len(Targets[mode])) => Moved(next, 1, run.phase, run.failed)
<1>1. 1 \in Index /\ (run.at < Len(Targets[mode]) => run.at + 1 \in Index)
  BY Indices, RunFields
<1> QED BY <1>1, TargetMoves DEF Loop, Moved

-----------------------------------------------------------------------------
(* The types.                                                              *)

FilesOK ==
    /\ live \in Copies /\ wal \in Copies
    /\ stage \subseteq Index /\ copies \in Copies \cup {<< >>}
    /\ record \in {"none", "unreadable"} \cup Phases
    /\ plan \in {"none", "waiting", "ready"} /\ installed \in BOOLEAN

\* The files have their types.
LEMMA FilesTyped ==
    ASSUME RestoreTypeOK
    PROVE  FilesOK
BY DEF RestoreTypeOK, FilesOK, Copies

\* What does not change keeps its type.
LEMMA FilesKept ==
    ASSUME RestoreTypeOK, UNCHANGED <<mode, disk, host>>
    PROVE  mode' \in Modes /\ FilesOK'
<1>1. FilesOK /\ Copies' = Copies /\ Index' = Index /\ mode' \in Modes
  BY FilesTyped, ModeKept DEF RestoreTypeOK
<1> QED BY <1>1 DEF FilesOK, disk, host

\* The types of the next state, part by part.
LEMMA Typed ==
    ASSUME FilesOK', mode' \in Modes, run' \in Runs', faults' \in 0..MaxFaults,
           missing' \in BOOLEAN, request' \in BOOLEAN, defect' \in Defects("rebuild"),
           template' \in BOOLEAN, portal' \in {"up", "down"}, upstream' \in {"old", "new", "down"},
           report' \in {"none", "running", "failed", "complete", "host_pending"},
           lock' \in {"free", "held", "stale"}, crashes' \in 0..MaxCrashes
    PROVE  RestoreTypeOK'
BY DEF FilesOK, RestoreTypeOK, Copies

\* From here on, one action at a time: it keeps the types.  First any inspection of the
\* backup and the host.
LEMMA CheckTypes ==
    ASSUME RestoreTypeOK, NEW step, NEW found, NEW next \in Steps, Check(step, found, next)
    PROVE  RestoreTypeOK'
<1>1. UNCHANGED <<mode, disk, host>>
  BY DEF Check, unmoved
<1>2. mode' \in Modes /\ FilesOK' /\ Runs' = Runs
  BY <1>1, FilesKept, ModeKept
<1>3. run' \in Runs
  BY GotoMoves, RejectedMoves DEF Check, Moved, RestoreTypeOK
<1>4. faults' \in 0..MaxFaults
  BY FaultTypes DEF Check, RestoreTypeOK
<1> QED BY <1>2, <1>3, <1>4, Typed DEF Check, RestoreTypeOK, unmoved, services

\* What is checked before the job touches anything.
Inspects ==
    \/ CheckRequest \/ CheckPolicy \/ Decrypt \/ ApproveDeployment \/ ApproveContent \/ PullImages
    \/ EnsureVolume \/ VerifyServices \/ VerifyManager \/ VerifySettings \/ PrepareCredentials
    \/ CheckSpace \/ OriginalDeployment

\* The inspections are checks of one defect each, before anything is touched.
LEMMA Inspections ==
    ASSUME Inspects
    PROVE  \E step \in Early, next \in Early : \E found : Check(step, found, next)
BY DEF Inspects, CheckRequest, CheckPolicy, Decrypt, ApproveDeployment, ApproveContent, PullImages,
       EnsureVolume, VerifyServices, VerifyManager, VerifySettings, PrepareCredentials,
       CheckSpace, OriginalDeployment, Early

LEMMA BootstrapTypes == ASSUME RestoreTypeOK, Bootstrap PROVE RestoreTypeOK'
<1>1. mode' \in Modes /\ FilesOK' /\ Runs' = Runs
  BY FilesKept, ModeKept DEF Bootstrap, unmoved, RestoreTypeOK
<1>2. run' \in Runs
  BY GotoMoves, RejectedMoves DEF Bootstrap, Steps, Moved, RestoreTypeOK
<1>3. faults' \in 0..MaxFaults /\ crashes' \in 0..MaxCrashes
  BY FaultTypes, RestoreAssumption DEF Bootstrap, unmoved, RestoreTypeOK, RestoreAssumption
<1> QED BY ZenonT(60), <1>1, <1>2, <1>3, Typed DEF Bootstrap, RestoreTypeOK, unmoved, services

LEMMA PrepareHostTypes == ASSUME RestoreTypeOK, PrepareHost PROVE RestoreTypeOK'
<1>1. mode' \in Modes /\ Runs' = Runs /\ Index' = Index /\ Copies' = Copies
  BY ModeKept DEF PrepareHost, unmoved, RestoreTypeOK
<1>2. run' \in Runs
  BY GotoMoves, RejectedMoves DEF PrepareHost, Steps, Moved, RestoreTypeOK
<1>3. faults' \in 0..MaxFaults /\ crashes' \in 0..MaxCrashes
  BY FaultTypes, RestoreAssumption DEF PrepareHost, unmoved, RestoreTypeOK, RestoreAssumption
<1>4. FilesOK'
  BY <1>1, FilesTyped, RunFields DEF PrepareHost, RestoreTypeOK, FilesOK, Copies, disk, host
<1> QED BY <1>1, <1>2, <1>3, <1>4, Typed DEF PrepareHost, RestoreTypeOK, unmoved, services

LEMMA MakeTransactionTypes == ASSUME RestoreTypeOK, MakeTransaction PROVE RestoreTypeOK'
<1>1. mode' \in Modes /\ Runs' = Runs /\ Index' = Index /\ Copies' = Copies
  BY ModeKept DEF MakeTransaction, unmoved, RestoreTypeOK
<1>2. run' \in Runs
  BY PhaseMoves, StepMoves DEF MakeTransaction, Steps, Phases, Moved, RestoreTypeOK
<1>3. faults' \in 0..MaxFaults /\ crashes' \in 0..MaxCrashes
  BY FaultTypes, RestoreAssumption DEF MakeTransaction, unmoved, RestoreTypeOK, RestoreAssumption
<1>4. FilesOK'
  BY <1>1, FilesTyped, RunFields DEF MakeTransaction, RestoreTypeOK, FilesOK, Copies, disk, host
<1> QED BY <1>1, <1>2, <1>3, <1>4, Typed DEF MakeTransaction, RestoreTypeOK, unmoved, services

LEMMA StageTargetTypes == ASSUME RestoreTypeOK, StageTarget PROVE RestoreTypeOK'
<1>1. mode' \in Modes /\ Runs' = Runs /\ Index' = Index /\ Copies' = Copies
  BY ModeKept DEF StageTarget, unmoved, RestoreTypeOK
<1>2. run' \in Runs
  BY StepMoves, AbandonMoves DEF StageTarget, Steps, Moved, RestoreTypeOK
<1>3. faults' \in 0..MaxFaults /\ crashes' \in 0..MaxCrashes
  BY FaultTypes, RestoreAssumption DEF StageTarget, unmoved, RestoreTypeOK, RestoreAssumption
<1>4. FilesOK'
  BY <1>1, FilesTyped, RunFields DEF StageTarget, RestoreTypeOK, FilesOK, Copies, disk, host
<1> QED BY <1>1, <1>2, <1>3, <1>4, Typed DEF StageTarget, RestoreTypeOK, unmoved, services

LEMMA CheckCandidateTypes == ASSUME RestoreTypeOK, CheckCandidate PROVE RestoreTypeOK'
<1>1. mode' \in Modes /\ FilesOK' /\ Runs' = Runs
  BY FilesKept, ModeKept DEF CheckCandidate, unmoved, RestoreTypeOK
<1>2. run' \in Runs
  BY LoopMoves, AbandonMoves DEF CheckCandidate, Steps, Moved, RestoreTypeOK
<1>3. faults' \in 0..MaxFaults /\ crashes' \in 0..MaxCrashes
  BY FaultTypes, RestoreAssumption DEF CheckCandidate, unmoved, RestoreTypeOK, RestoreAssumption
<1> QED BY <1>1, <1>2, <1>3, Typed DEF CheckCandidate, RestoreTypeOK, unmoved, services

LEMMA StopTypes == ASSUME RestoreTypeOK, Stop PROVE RestoreTypeOK'
<1>1. mode' \in Modes /\ Runs' = Runs /\ Index' = Index /\ Copies' = Copies
  BY ModeKept DEF Stop, StopServices, unmoved, RestoreTypeOK
<1>2. run' \in Runs
  BY GotoMoves, FailMoves DEF Stop, StopServices, Steps, Moved, RestoreTypeOK
<1>3. faults' \in 0..MaxFaults /\ crashes' \in 0..MaxCrashes
  BY FaultTypes, RestoreAssumption DEF Stop, StopServices, unmoved, RestoreTypeOK, RestoreAssumption
<1>4. FilesOK'
  BY <1>1, FilesTyped, RunFields DEF Stop, StopServices, RestoreTypeOK, FilesOK, Copies, disk, host
<1> QED BY <1>1, <1>2, <1>3, <1>4, Typed DEF Stop, StopServices, RestoreTypeOK, unmoved, services

LEMMA SnapshotTypes == ASSUME RestoreTypeOK, Snapshot PROVE RestoreTypeOK'
<1>1. mode' \in Modes /\ Runs' = Runs /\ Index' = Index /\ Copies' = Copies
  BY ModeKept DEF Snapshot, CopyOf, unmoved, RestoreTypeOK
<1>2. run' \in Runs
  BY LoopMoves, FailMoves DEF Snapshot, CopyOf, Steps, Moved, RestoreTypeOK
<1>3. faults' \in 0..MaxFaults /\ crashes' \in 0..MaxCrashes
  BY FaultTypes, RestoreAssumption DEF Snapshot, CopyOf, unmoved, RestoreTypeOK, RestoreAssumption
<1>4. FilesOK'
  BY <1>1, FilesTyped, RunFields DEF Snapshot, CopyOf, RestoreTypeOK, FilesOK, Copies, disk, host
<1> QED BY <1>1, <1>2, <1>3, <1>4, Typed DEF Snapshot, CopyOf, RestoreTypeOK, unmoved, services

LEMMA MoveAsideTypes == ASSUME RestoreTypeOK, MoveAside PROVE RestoreTypeOK'
<1>1. mode' \in Modes /\ Runs' = Runs /\ Index' = Index /\ Copies' = Copies
  BY ModeKept DEF MoveAside, MoveSidecars, unmoved, RestoreTypeOK
<1>2. run' \in Runs
  BY StepMoves, FailMoves DEF MoveAside, MoveSidecars, Steps, Moved, RestoreTypeOK
<1>3. faults' \in 0..MaxFaults /\ crashes' \in 0..MaxCrashes
  BY FaultTypes, RestoreAssumption DEF MoveAside, MoveSidecars, unmoved, RestoreTypeOK, RestoreAssumption
<1>4. FilesOK'
  BY <1>1, FilesTyped, RunFields DEF MoveAside, MoveSidecars, RestoreTypeOK, FilesOK, Copies, disk, host
<1> QED BY <1>1, <1>2, <1>3, <1>4, Typed DEF MoveAside, MoveSidecars, RestoreTypeOK, unmoved, services

LEMMA MoveInTypes == ASSUME RestoreTypeOK, MoveIn PROVE RestoreTypeOK'
<1>1. mode' \in Modes /\ Runs' = Runs /\ Index' = Index /\ Copies' = Copies
  BY ModeKept DEF MoveIn, unmoved, RestoreTypeOK
<1>2. run' \in Runs
  BY LoopMoves, FailMoves DEF MoveIn, Steps, Moved, RestoreTypeOK
<1>3. faults' \in 0..MaxFaults /\ crashes' \in 0..MaxCrashes
  BY FaultTypes, RestoreAssumption DEF MoveIn, unmoved, RestoreTypeOK, RestoreAssumption
<1>4. FilesOK'
  BY <1>1, FilesTyped, RunFields DEF MoveIn, RestoreTypeOK, FilesOK, Copies, disk, host
<1> QED BY <1>1, <1>2, <1>3, <1>4, Typed DEF MoveIn, RestoreTypeOK, unmoved, services

LEMMA StartUpstreamTypes == ASSUME RestoreTypeOK, StartUpstream PROVE RestoreTypeOK'
<1>1. mode' \in Modes /\ FilesOK' /\ Runs' = Runs
  BY FilesKept, ModeKept DEF StartUpstream, unmoved, RestoreTypeOK
<1>2. run' \in Runs
  BY GotoMoves, FailMoves DEF StartUpstream, Steps, Moved, RestoreTypeOK
<1>3. faults' \in 0..MaxFaults /\ crashes' \in 0..MaxCrashes
  BY FaultTypes, RestoreAssumption DEF StartUpstream, unmoved, RestoreTypeOK, RestoreAssumption
<1> QED BY <1>1, <1>2, <1>3, Typed, RunFields DEF StartUpstream, RestoreTypeOK, unmoved, services

LEMMA StartPortalTypes == ASSUME RestoreTypeOK, StartPortal PROVE RestoreTypeOK'
<1>1. mode' \in Modes /\ FilesOK' /\ Runs' = Runs
  BY FilesKept, ModeKept DEF StartPortal, unmoved, RestoreTypeOK
<1>2. run' \in Runs
  BY GotoMoves, FailMoves DEF StartPortal, Steps, Moved, RestoreTypeOK
<1>3. faults' \in 0..MaxFaults /\ crashes' \in 0..MaxCrashes
  BY FaultTypes, RestoreAssumption DEF StartPortal, unmoved, RestoreTypeOK, RestoreAssumption
<1> QED BY <1>1, <1>2, <1>3, Typed DEF StartPortal, RestoreTypeOK, unmoved, services

LEMMA HealthyTypes == ASSUME RestoreTypeOK, Healthy PROVE RestoreTypeOK'
<1>1. mode' \in Modes /\ FilesOK' /\ Runs' = Runs
  BY FilesKept, ModeKept DEF Healthy, unmoved, RestoreTypeOK
<1>2. run' \in Runs
  BY GotoMoves, FailMoves DEF Healthy, Steps, Moved, RestoreTypeOK
<1>3. faults' \in 0..MaxFaults /\ crashes' \in 0..MaxCrashes
  BY FaultTypes, RestoreAssumption DEF Healthy, unmoved, RestoreTypeOK, RestoreAssumption
<1> QED BY <1>1, <1>2, <1>3, Typed DEF Healthy, RestoreTypeOK, unmoved, services

LEMMA MarkReadyTypes == ASSUME RestoreTypeOK, MarkReady PROVE RestoreTypeOK'
<1>1. mode' \in Modes /\ Runs' = Runs /\ Index' = Index /\ Copies' = Copies
  BY ModeKept DEF MarkReady, unmoved, RestoreTypeOK
<1>2. run' \in Runs
  BY GotoMoves, StepMoves DEF MarkReady, Steps, Moved, RestoreTypeOK
<1>3. faults' \in 0..MaxFaults /\ crashes' \in 0..MaxCrashes
  BY FaultTypes, RestoreAssumption DEF MarkReady, unmoved, RestoreTypeOK, RestoreAssumption
<1>4. FilesOK'
  BY <1>1, FilesTyped, RunFields DEF MarkReady, RestoreTypeOK, FilesOK, Copies, disk, host
<1> QED BY <1>1, <1>2, <1>3, <1>4, Typed DEF MarkReady, RestoreTypeOK, unmoved, services

LEMMA RollBackTypes == ASSUME RestoreTypeOK, RollBack PROVE RestoreTypeOK'
<1>1. mode' \in Modes /\ FilesOK' /\ Runs' = Runs
  BY FilesKept, ModeKept DEF RollBack, RestoreDeployment, unmoved, RestoreTypeOK
<1>2. run' \in Runs
  BY RollBackMoves, StepMoves DEF RollBack, RestoreDeployment, Steps, Moved, RestoreTypeOK
<1>3. faults' \in 0..MaxFaults /\ crashes' \in 0..MaxCrashes
  BY FaultTypes, RestoreAssumption DEF RollBack, RestoreDeployment, unmoved, RestoreTypeOK, RestoreAssumption
<1> QED BY <1>1, <1>2, <1>3, Typed DEF RollBack, RestoreDeployment, RestoreTypeOK, unmoved, services

LEMMA StopAgainTypes == ASSUME RestoreTypeOK, StopAgain PROVE RestoreTypeOK'
<1>1. mode' \in Modes /\ Runs' = Runs /\ Index' = Index /\ Copies' = Copies
  BY ModeKept DEF StopAgain, StopServices, unmoved, RestoreTypeOK
<1>2. run' \in Runs
  BY GotoMoves, FailMoves DEF StopAgain, StopServices, Steps, Moved, RestoreTypeOK
<1>3. faults' \in 0..MaxFaults /\ crashes' \in 0..MaxCrashes
  BY FaultTypes, RestoreAssumption DEF StopAgain, StopServices, unmoved, RestoreTypeOK, RestoreAssumption
<1>4. FilesOK'
  BY <1>1, FilesTyped, RunFields DEF StopAgain, StopServices, RestoreTypeOK, FilesOK, Copies, disk, host
<1> QED BY <1>1, <1>2, <1>3, <1>4, Typed DEF StopAgain, StopServices, RestoreTypeOK, unmoved, services

LEMMA MoveAsideAgainTypes == ASSUME RestoreTypeOK, MoveAsideAgain PROVE RestoreTypeOK'
<1>1. mode' \in Modes /\ Runs' = Runs /\ Index' = Index /\ Copies' = Copies
  BY ModeKept DEF MoveAsideAgain, MoveSidecars, unmoved, RestoreTypeOK
<1>2. run' \in Runs
  BY StepMoves, FailMoves DEF MoveAsideAgain, MoveSidecars, Steps, Moved, RestoreTypeOK
<1>3. faults' \in 0..MaxFaults /\ crashes' \in 0..MaxCrashes
  BY FaultTypes, RestoreAssumption DEF MoveAsideAgain, MoveSidecars, unmoved, RestoreTypeOK, RestoreAssumption
<1>4. FilesOK'
  BY <1>1, FilesTyped, RunFields DEF MoveAsideAgain, MoveSidecars, RestoreTypeOK, FilesOK, Copies, disk, host
<1> QED BY <1>1, <1>2, <1>3, <1>4, Typed DEF MoveAsideAgain, MoveSidecars, RestoreTypeOK, unmoved, services

LEMMA MoveBackTypes == ASSUME RestoreTypeOK, MoveBack, copies \in Copies PROVE RestoreTypeOK'
<1>1. mode' \in Modes /\ Runs' = Runs /\ Index' = Index /\ Copies' = Copies
  BY ModeKept DEF MoveBack, unmoved, RestoreTypeOK
<1>2. run' \in Runs
  BY LoopMoves, FailMoves DEF MoveBack, Steps, Moved, RestoreTypeOK
<1>3. faults' \in 0..MaxFaults /\ crashes' \in 0..MaxCrashes
  BY FaultTypes, RestoreAssumption DEF MoveBack, unmoved, RestoreTypeOK, RestoreAssumption
<1>4. FilesOK'
  BY <1>1, FilesTyped, RunFields DEF MoveBack, RestoreTypeOK, FilesOK, Copies, disk, host
<1> QED BY <1>1, <1>2, <1>3, <1>4, Typed DEF MoveBack, RestoreTypeOK, unmoved, services

LEMMA RecoverTypes == ASSUME RestoreTypeOK, Recover PROVE RestoreTypeOK'
<1>1. mode' \in Modes /\ FilesOK' /\ Runs' = Runs
  BY FilesKept, ModeKept DEF Recover, RestoreDeployment, Recoverable, unmoved, RestoreTypeOK
<1>2. run' \in Runs
  BY RecoverMoves, FailMoves DEF Recover, RestoreDeployment, Recoverable, Moved, RestoreTypeOK
<1>3. faults' \in 0..MaxFaults /\ crashes' \in 0..MaxCrashes
  BY FaultTypes, RestoreAssumption DEF Recover, RestoreDeployment, Recoverable, unmoved, RestoreTypeOK, RestoreAssumption
<1> QED BY <1>1, <1>2, <1>3, Typed DEF Recover, RestoreDeployment, Recoverable, RestoreTypeOK, unmoved, services

LEMMA RecoverReportTypes == ASSUME RestoreTypeOK, RecoverReport PROVE RestoreTypeOK'
<1>1. mode' \in Modes /\ FilesOK' /\ Runs' = Runs
  BY FilesKept, ModeKept DEF RecoverReport, unmoved, RestoreTypeOK
<1>2. run' \in Runs
  BY GotoMoves, FailMoves DEF RecoverReport, Steps, Moved, RestoreTypeOK
<1>3. faults' \in 0..MaxFaults /\ crashes' \in 0..MaxCrashes
  BY FaultTypes, RestoreAssumption DEF RecoverReport, unmoved, RestoreTypeOK, RestoreAssumption
<1> QED BY <1>1, <1>2, <1>3, Typed DEF RecoverReport, RestoreTypeOK, unmoved, services

LEMMA CleanStagesTypes == ASSUME RestoreTypeOK, CleanStages PROVE RestoreTypeOK'
<1>1. mode' \in Modes /\ Runs' = Runs /\ Index' = Index /\ Copies' = Copies
  BY ModeKept DEF CleanStages, unmoved, RestoreTypeOK
<1>2. run' \in Runs
  BY GotoMoves DEF CleanStages, Steps, Moved, RestoreTypeOK
<1>3. faults' \in 0..MaxFaults /\ crashes' \in 0..MaxCrashes
  BY FaultTypes, RestoreAssumption DEF CleanStages, unmoved, RestoreTypeOK, RestoreAssumption
<1>4. FilesOK'
  BY <1>1, FilesTyped, RunFields DEF CleanStages, RestoreTypeOK, FilesOK, Copies, disk, host
<1> QED BY <1>1, <1>2, <1>3, <1>4, Typed DEF CleanStages, RestoreTypeOK, unmoved, services

LEMMA DropTransactionTypes == ASSUME RestoreTypeOK, DropTransaction PROVE RestoreTypeOK'
<1>1. mode' \in Modes /\ Runs' = Runs /\ Index' = Index /\ Copies' = Copies
  BY ModeKept DEF DropTransaction, unmoved, RestoreTypeOK
<1>2. run' \in Runs
  BY GotoMoves DEF DropTransaction, Steps, Moved, RestoreTypeOK
<1>3. faults' \in 0..MaxFaults /\ crashes' \in 0..MaxCrashes
  BY FaultTypes, RestoreAssumption DEF DropTransaction, unmoved, RestoreTypeOK, RestoreAssumption
<1>4. FilesOK'
  BY <1>1, FilesTyped, RunFields DEF DropTransaction, RestoreTypeOK, FilesOK, Copies, disk, host
<1> QED BY <1>1, <1>2, <1>3, <1>4, Typed DEF DropTransaction, RestoreTypeOK, unmoved, services

LEMMA EndJobTypes == ASSUME RestoreTypeOK, EndJob PROVE RestoreTypeOK'
<1>1. mode' \in Modes /\ Runs' = Runs /\ Index' = Index /\ Copies' = Copies
  BY ModeKept DEF EndJob, unmoved, RestoreTypeOK
<1>2. run' \in Runs
  BY GotoMoves, IdleTypes DEF EndJob, Steps, Moved, RestoreTypeOK
<1>3. faults' \in 0..MaxFaults /\ crashes' \in 0..MaxCrashes
  BY FaultTypes, RestoreAssumption DEF EndJob, unmoved, RestoreTypeOK, RestoreAssumption
<1>4. FilesOK'
  BY <1>1, FilesTyped, RunFields DEF EndJob, RestoreTypeOK, FilesOK, Copies, disk, host
<1> QED BY <1>1, <1>2, <1>3, <1>4, Typed DEF EndJob, RestoreTypeOK, unmoved, services

LEMMA InstallHostTypes == ASSUME RestoreTypeOK, InstallHost PROVE RestoreTypeOK'
<1>1. mode' \in Modes /\ Runs' = Runs /\ Index' = Index /\ Copies' = Copies
  BY ModeKept DEF InstallHost, unmoved, RestoreTypeOK
<1>2. run' \in Runs
  BY GotoMoves, IdleTypes DEF InstallHost, Steps, Moved, RestoreTypeOK
<1>3. faults' \in 0..MaxFaults /\ crashes' \in 0..MaxCrashes
  BY FaultTypes, RestoreAssumption DEF InstallHost, unmoved, RestoreTypeOK, RestoreAssumption
<1>4. FilesOK'
  BY <1>1, FilesTyped, RunFields DEF InstallHost, RestoreTypeOK, FilesOK, Copies, disk, host
<1> QED BY <1>1, <1>2, <1>3, <1>4, Typed DEF InstallHost, RestoreTypeOK, unmoved, services

LEMMA InstallTasksTypes == ASSUME RestoreTypeOK, InstallTasks PROVE RestoreTypeOK'
<1>1. mode' \in Modes /\ Runs' = Runs /\ Index' = Index /\ Copies' = Copies
  BY ModeKept DEF InstallTasks, unmoved, RestoreTypeOK
<1>2. run' \in Runs
  BY IdleTypes DEF InstallTasks, RestoreTypeOK
<1>3. faults' \in 0..MaxFaults /\ crashes' \in 0..MaxCrashes
  BY FaultTypes, RestoreAssumption DEF InstallTasks, unmoved, RestoreTypeOK, RestoreAssumption
<1>4. FilesOK'
  BY <1>1, FilesTyped, RunFields DEF InstallTasks, RestoreTypeOK, FilesOK, Copies, disk, host
<1> QED BY <1>1, <1>2, <1>3, <1>4, Typed DEF InstallTasks, RestoreTypeOK, unmoved, services

LEMMA StartRestoreTypes == ASSUME RestoreTypeOK, StartRestore PROVE RestoreTypeOK'
<1>1. mode' \in Modes /\ FilesOK' /\ Runs' = Runs
  BY FilesKept, ModeKept DEF StartRestore, TakeLock, unmoved, RestoreTypeOK
<1>2. run' \in Runs
  BY GotoMoves DEF StartRestore, TakeLock, Steps, Moved, RestoreTypeOK
<1>3. faults' \in 0..MaxFaults /\ crashes' \in 0..MaxCrashes
  BY FaultTypes, RestoreAssumption DEF StartRestore, TakeLock, unmoved, RestoreTypeOK, RestoreAssumption
<1> QED BY <1>1, <1>2, <1>3, Typed DEF StartRestore, TakeLock, RestoreTypeOK, unmoved, services

LEMMA StartRecoveryTypes == ASSUME RestoreTypeOK, StartRecovery PROVE RestoreTypeOK'
<1>1. mode' \in Modes /\ FilesOK' /\ Runs' = Runs
  BY FilesKept, ModeKept DEF StartRecovery, TakeLock, unmoved, RestoreTypeOK
<1>2. run' \in Runs
  BY IdleTypes DEF StartRecovery, TakeLock, Runs, Steps, RestoreTypeOK
<1>3. faults' \in 0..MaxFaults /\ crashes' \in 0..MaxCrashes
  BY FaultTypes, RestoreAssumption DEF StartRecovery, TakeLock, unmoved, RestoreTypeOK, RestoreAssumption
<1> QED BY <1>1, <1>2, <1>3, Typed DEF StartRecovery, TakeLock, RestoreTypeOK, unmoved, services

LEMMA StartHostTypes == ASSUME RestoreTypeOK, StartHost PROVE RestoreTypeOK'
<1>1. mode' \in Modes /\ FilesOK' /\ Runs' = Runs
  BY FilesKept, ModeKept DEF StartHost, TakeLock, unmoved, RestoreTypeOK
<1>2. run' \in Runs
  BY GotoMoves DEF StartHost, TakeLock, Steps, Moved, RestoreTypeOK
<1>3. faults' \in 0..MaxFaults /\ crashes' \in 0..MaxCrashes
  BY FaultTypes, RestoreAssumption DEF StartHost, TakeLock, unmoved, RestoreTypeOK, RestoreAssumption
<1> QED BY <1>1, <1>2, <1>3, Typed DEF StartHost, TakeLock, RestoreTypeOK, unmoved, services

LEMMA ServiceWritesTypes == ASSUME RestoreTypeOK, ServiceWrites PROVE RestoreTypeOK'
<1>1. mode' \in Modes /\ Runs' = Runs /\ Index' = Index /\ Copies' = Copies
  BY ModeKept DEF ServiceWrites, unmoved, RestoreTypeOK
<1>2. run' \in Runs
  BY DEF ServiceWrites, RestoreTypeOK
<1>3. faults' \in 0..MaxFaults /\ crashes' \in 0..MaxCrashes
  BY FaultTypes, RestoreAssumption DEF ServiceWrites, unmoved, RestoreTypeOK, RestoreAssumption
<1>4. FilesOK'
  BY <1>1, FilesTyped, RunFields DEF ServiceWrites, RestoreTypeOK, FilesOK, Copies, disk, host
<1> QED BY <1>1, <1>2, <1>3, <1>4, Typed DEF ServiceWrites, RestoreTypeOK, unmoved, services

LEMMA CrashTypes == ASSUME RestoreTypeOK, Crash PROVE RestoreTypeOK'
<1>1. mode' \in Modes /\ FilesOK' /\ Runs' = Runs
  BY FilesKept, ModeKept DEF Crash, unmoved, RestoreTypeOK
<1>2. run' \in Runs
  BY IdleTypes DEF Crash, RestoreTypeOK
<1>3. faults' \in 0..MaxFaults /\ crashes' \in 0..MaxCrashes
  BY FaultTypes, RestoreAssumption DEF Crash, unmoved, RestoreTypeOK, RestoreAssumption
<1> QED BY <1>1, <1>2, <1>3, Typed DEF Crash, RestoreTypeOK, unmoved, services

LEMMA RemoveStaleLockTypes == ASSUME RestoreTypeOK, RemoveStaleLock PROVE RestoreTypeOK'
<1>1. mode' \in Modes /\ FilesOK' /\ Runs' = Runs
  BY FilesKept, ModeKept DEF RemoveStaleLock, unmoved, RestoreTypeOK
<1>2. run' \in Runs
  BY DEF RemoveStaleLock, RestoreTypeOK
<1>3. faults' \in 0..MaxFaults /\ crashes' \in 0..MaxCrashes
  BY FaultTypes, RestoreAssumption DEF RemoveStaleLock, unmoved, RestoreTypeOK, RestoreAssumption
<1> QED BY <1>1, <1>2, <1>3, Typed DEF RemoveStaleLock, RestoreTypeOK, unmoved, services

-----------------------------------------------------------------------------
(* The places: what the record says, and how far the run has come.         *)

\* A step that changes no file and no plan.
LEMMA RecordedKept ==
    ASSUME Recorded, UNCHANGED <<mode, request, record, live, copies, plan, installed>>
    PROVE  Recorded'
<1>1. Copied' <=> Copied
  BY SidesKept DEF Copied
<1> QED BY <1>1, SidesKept DEF Recorded

\* From here on, one action at a time: it keeps the record and the paths in place.
LEMMA CheckPlaces ==
    ASSUME RestoreTypeOK, Placed, NEW step \in Early, NEW found, NEW next \in Early,
           Check(step, found, next)
    PROVE  Placed'
<1>1. UNCHANGED <<mode, request, record, live, copies, plan, installed>>
  BY DEF Check, unmoved, disk, host
<1>2. run'.step \in Early \cup {"end"} /\ run'.back = run.back /\ run'.recovers = run.recovers
  BY ZenonT(60), GotoMoves, RejectedMoves DEF Check, Moved, RestoreTypeOK, Early, Steps
<1>3. ~request /\ Job /\ record = "none" /\ AllOriginal
  BY DEF Check, Does, Placed, Position, Early
<1>4. Position'
  BY <1>1, <1>2, <1>3, SidesKept DEF Position, Early, Job
<1> QED BY <1>1, <1>4, RecordedKept DEF Placed

LEMMA BootstrapPlaces == ASSUME RestoreTypeOK, Placed, Bootstrap PROVE Placed'
<1>1. UNCHANGED <<mode, request, record, live, copies, plan, installed>>
  BY DEF Bootstrap, unmoved, disk, host
<1>2. run'.step \in Early \cup {"end"} /\ run'.back = run.back /\ run'.recovers = run.recovers
  BY GotoMoves, RejectedMoves DEF Bootstrap, Moved, RestoreTypeOK, Early, Steps
<1>3. ~request /\ Job /\ record = "none" /\ AllOriginal
  BY DEF Bootstrap, Does, Placed, Position, Early
<1>4. Position'
  BY <1>1, <1>2, <1>3, SidesKept DEF Position, Early, Job
<1> QED BY <1>1, <1>4, RecordedKept DEF Placed

LEMMA PrepareHostPlaces == ASSUME RestoreTypeOK, Placed, PrepareHost PROVE Placed'
<1>1. UNCHANGED <<mode, request, record, live, copies, installed>> /\ plan' \in {plan, "waiting"}
  BY DEF PrepareHost, unmoved, disk
<1>2. run'.step \in Early \cup {"end"} /\ run'.back = run.back /\ run'.recovers = run.recovers
  BY GotoMoves, RejectedMoves DEF PrepareHost, Moved, RestoreTypeOK, Early, Steps
<1>3. ~request /\ Job /\ record = "none" /\ AllOriginal
  BY DEF PrepareHost, Does, Placed, Position, Early
<1>4. Position'
  BY <1>1, <1>2, <1>3, SidesKept DEF Position, Early, Job
<1>5. Recorded'
  BY <1>1, <1>3, SidesKept DEF Recorded, Placed
<1> QED BY <1>4, <1>5 DEF Placed

LEMMA MakeTransactionPlaces == ASSUME RestoreTypeOK, Placed, MakeTransaction PROVE Placed'
<1>1. UNCHANGED <<mode, request, live, plan, installed>>
  BY DEF MakeTransaction, unmoved, host
<1>2. ~request /\ Job /\ record = "none" /\ AllOriginal /\ plan # "ready" /\ ~installed
  BY Originals DEF MakeTransaction, Does, Placed, Position, Recorded, Early, RestoreTypeOK
<1>3. \/ /\ record' = "unreadable" /\ copies' \in Copies
         /\ Moved("stage", 1, "preparing", run.failed)
      \/ UNCHANGED <<record, copies>> /\ Moved("end", run.at, run.phase, TRUE)
  BY PhaseMoves, StepMoves DEF MakeTransaction, RestoreTypeOK, Steps, Phases, Copies
<1>4. Recorded'
  BY <1>1, <1>2, <1>3, SidesKept DEF Recorded
<1>5. Position'
  BY <1>1, <1>2, <1>3, SidesKept DEF Position, Early, Job, Moved
<1> QED BY <1>4, <1>5 DEF Placed

LEMMA StageTargetPlaces == ASSUME RestoreTypeOK, Placed, StageTarget PROVE Placed'
<1>1. UNCHANGED <<mode, request, record, live, copies, plan, installed>>
  BY DEF StageTarget, unmoved, host
<1>2. ~request /\ Job /\ record = "unreadable" /\ AllOriginal /\ run.phase = "preparing" /\ copies \in Copies
  BY DEF StageTarget, Does, Placed, Position
<1>3. Moved("candidate", run.at, run.phase, run.failed) \/ Moved("clean", run.at, run.phase, TRUE)
  BY StepMoves, AbandonMoves DEF StageTarget, RestoreTypeOK, Steps
<1>4. Position'
  BY <1>1, <1>2, <1>3, SidesKept DEF Position, Early, Job, Moved
<1> QED BY <1>1, <1>4, RecordedKept DEF Placed

LEMMA CheckCandidatePlaces == ASSUME RestoreTypeOK, Placed, CheckCandidate PROVE Placed'
<1>1. UNCHANGED <<mode, request, record, live, copies, plan, installed>>
  BY DEF CheckCandidate, unmoved, host, disk
<1>2. ~request /\ Job /\ record = "unreadable" /\ AllOriginal /\ run.phase = "preparing" /\ copies \in Copies
  BY DEF CheckCandidate, Does, Placed, Position
<1>3. \/ Moved("stage", run.at + 1, run.phase, run.failed)
      \/ Moved("preparing", 1, run.phase, run.failed)
      \/ Moved("clean", run.at, run.phase, TRUE)
  BY LoopMoves, AbandonMoves DEF CheckCandidate, RestoreTypeOK, Steps
<1>4. Position'
  BY <1>1, <1>2, <1>3, SidesKept DEF Position, Early, Job, Moved
<1> QED BY <1>1, <1>4, RecordedKept DEF Placed

\* A record is written, or it may not have been; the two that decide are.
LEMMA RecordMoves ==
    ASSUME DurableRecords, RestoreTypeOK, NEW phase \in Phases, NEW next \in Steps, Record(phase, next)
    PROVE  /\ run.step = phase
           /\ UNCHANGED <<mode, defect, missing, request, crashes, template, stage, copies, live, wal,
                          plan, installed, portal, upstream, report, lock>>
           /\ \/ record' = phase /\ Moved(next, 1, phase, run.failed)
              \/ /\ phase \notin {"switching", "committed"} /\ record' \in {record, phase}
                 /\ \/ phase = "preparing" /\ Moved("clean", run.at, run.phase, TRUE)
                    \/ phase = "stopping" /\ Moved("clean", run.at, phase, TRUE)
                    \/ phase = "starting" /\ Moved("back", run.at, phase, TRUE)
                    \/ phase = "rolled-back" /\ Fail
<1>1. phase \notin RecordFaults \/ phase \notin {"switching", "committed"}
  BY DEF DurableRecords
<1>2. ASSUME PersistPhase(phase), run' = [run EXCEPT !.step = next, !.phase = phase, !.at = 1]
      PROVE  record' = phase /\ Moved(next, 1, phase, run.failed)
  BY <1>2, PhaseMoves DEF PersistPhase, RestoreTypeOK
<1>3. ASSUME phase = "preparing", Abandon PROVE Moved("clean", run.at, run.phase, TRUE)
  BY <1>3, AbandonMoves DEF RestoreTypeOK
<1>4. ASSUME phase = "stopping", run' = [run EXCEPT !.step = "clean", !.failed = TRUE, !.phase = phase]
      PROVE  Moved("clean", run.at, phase, TRUE)
  BY <1>4, PhaseMoves DEF RestoreTypeOK, Steps
<1>5. ASSUME phase = "starting", run' = [run EXCEPT !.step = "back", !.failed = TRUE, !.phase = phase]
      PROVE  Moved("back", run.at, phase, TRUE)
  BY <1>5, PhaseMoves DEF RestoreTypeOK, Steps
<1>6. run.step = phase
  BY DEF Record, Does
<1>7. UNCHANGED <<mode, defect, missing, request, crashes, template, stage, copies, live, wal,
                  plan, installed, portal, upstream, report, lock>>
  BY DEF Record, unmoved, host, services
<1> QED BY <1>1, <1>2, <1>3, <1>4, <1>5, <1>6, <1>7 DEF Record, PersistFails

LEMMA RecordPreparingPlaces ==
    ASSUME DurableRecords, RestoreTypeOK, Placed, RecordPreparing
    PROVE  Placed'
<1>1. /\ run.step = "preparing" /\ UNCHANGED <<mode, request, live, copies, plan, installed>>
      /\ \/ record' = "preparing" /\ Moved("stopping", 1, "preparing", run.failed)
         \/ record' \in {record, "preparing"} /\ Moved("clean", run.at, run.phase, TRUE)
  BY ZenonT(60), RecordMoves DEF RecordPreparing, Steps, Phases
<1>2. /\ ~request /\ Job /\ record = "unreadable" /\ AllOriginal /\ copies \in Copies
      /\ plan # "ready" /\ ~installed
  BY <1>1, Originals DEF Placed, Position, Recorded, RestoreTypeOK
<1>3. Recorded'
  BY <1>1, <1>2, SidesKept DEF Recorded
<1>4. Position'
  BY <1>1, <1>2, SidesKept DEF Position, Early, Job, Moved
<1> QED BY <1>3, <1>4 DEF Placed

LEMMA RecordStoppingPlaces ==
    ASSUME DurableRecords, RestoreTypeOK, Placed, RecordStopping
    PROVE  Placed'
<1>1. /\ run.step = "stopping" /\ UNCHANGED <<mode, request, live, copies, plan, installed>>
      /\ \/ record' = "stopping" /\ Moved("stop", 1, "stopping", run.failed)
         \/ record' \in {record, "stopping"} /\ Moved("clean", run.at, "stopping", TRUE)
  BY RecordMoves DEF RecordStopping, Steps, Phases
<1>2. /\ ~request /\ Job /\ record = "preparing" /\ AllOriginal /\ copies \in Copies
      /\ plan # "ready" /\ ~installed
  BY <1>1, Originals DEF Placed, Position, Recorded, RestoreTypeOK
<1>3. Recorded'
  BY <1>1, <1>2, SidesKept DEF Recorded
<1>4. Position'
  BY <1>1, <1>2, SidesKept DEF Position, Early, Job, Moved
<1> QED BY <1>3, <1>4 DEF Placed

LEMMA StopPlaces == ASSUME RestoreTypeOK, Placed, Stop PROVE Placed'
<1>1. UNCHANGED <<mode, request, record, live, copies, plan, installed>>
  BY DEF Stop, StopServices, unmoved, host
<1>2. ~request /\ Job /\ record = "stopping" /\ run.phase = "stopping" /\ copies \in Copies
  BY DEF Stop, Does, Placed, Position
<1>3. Moved("snapshot", 1, run.phase, run.failed) \/ Moved("back", 1, run.phase, TRUE)
  BY <1>2, GotoMoves, FailMoves DEF Stop, StopServices, RestoreTypeOK, Steps, Job
<1>4. (run'.at = 1 => Snapped') /\ AllOriginal
  BY <1>1, <1>2, SidesKept, Indices DEF Snapped, Placed, Recorded, RestoreTypeOK, Index
<1>5. Position'
  BY <1>1, <1>2, <1>3, <1>4, SidesKept DEF Position, Early, Job, Moved
<1> QED BY <1>1, <1>5, RecordedKept DEF Placed

LEMMA SnapshotPlaces == ASSUME RestoreTypeOK, Placed, Snapshot PROVE Placed'
<1>1. UNCHANGED <<mode, request, record, live, plan, installed>>
  BY DEF Snapshot, unmoved, host
<1>2. /\ run.step = "snapshot" /\ ~request /\ Job /\ record = "stopping" /\ run.phase = "stopping"
      /\ copies \in Copies /\ Snapped /\ AllOriginal /\ plan # "ready" /\ ~installed
  BY Originals DEF Snapshot, Does, Placed, Position, Recorded, RestoreTypeOK
<1>3. \/ copies' = [copies EXCEPT ![run.at] = live[run.at]] /\ Loop("snapshot", "switching")
      \/ UNCHANGED copies /\ Moved("back", 1, run.phase, TRUE)
  BY <1>2, FailMoves DEF Snapshot, CopyOf, RestoreTypeOK, Job
<1>4. CASE copies' = [copies EXCEPT ![run.at] = live[run.at]] /\ Loop("snapshot", "switching")
  <2>1. \/ run.at < Len(Targets[mode]) /\ Moved("snapshot", run.at + 1, run.phase, run.failed)
        \/ run.at = Len(Targets[mode]) /\ Moved("switching", 1, run.phase, run.failed)
    BY ZenonT(60), <1>4, LoopMoves, RunFields, Indices DEF RestoreTypeOK, Steps
  <2>2. copies' \in Copies
    BY <1>2, <1>4, RunFields DEF Copies, RestoreTypeOK
  <2>3. \A i \in Index : i <= run.at => copies'[i] = Original(i)
    BY <1>2, <1>4, RunFields, Indices DEF Copies, RestoreTypeOK, Snapped, AllOriginal
  <2>4. (run'.step = "snapshot" => Snapped') /\ (run'.step = "switching" => Copied')
    BY <1>1, <2>1, <2>2, <2>3, SidesKept, RunFields, Indices DEF Moved, Snapped, Copied, RestoreTypeOK
  <2>5. Position'
    BY <1>1, <1>2, <2>1, <2>2, <2>4, SidesKept DEF Position, Early, Job, Moved
  <2>6. Recorded'
    BY <1>1, <1>2, SidesKept DEF Recorded
  <2> QED BY <2>5, <2>6 DEF Placed
<1>5. CASE UNCHANGED copies /\ Moved("back", 1, run.phase, TRUE)
  <2>1. Position'
    BY <1>1, <1>2, <1>5, SidesKept DEF Position, Early, Job, Moved
  <2> QED BY <1>1, <1>5, <2>1, RecordedKept DEF Placed
<1> QED BY <1>3, <1>4, <1>5

LEMMA RecordSwitchingPlaces ==
    ASSUME DurableRecords, RestoreTypeOK, Placed, RecordSwitching
    PROVE  Placed'
<1>1. /\ run.step = "switching" /\ UNCHANGED <<mode, request, live, copies, plan, installed>>
      /\ record' = "switching" /\ Moved("aside", 1, "switching", run.failed)
  BY RecordMoves DEF RecordSwitching, Steps, Phases
<1>2. ~request /\ Job /\ Copied /\ plan # "ready" /\ ~installed
  BY <1>1, Originals DEF Placed, Position, Recorded, RestoreTypeOK
<1>3. Copied'
  BY <1>1, <1>2, SidesKept DEF Copied
<1>4. Replaced'
  BY <1>1, SidesKept, Indices DEF Replaced, Moved, RestoreTypeOK, Index
<1>5. Recorded'
  BY <1>1, <1>2, <1>3, SidesKept DEF Recorded
<1>6. Position'
  BY <1>1, <1>2, <1>4, SidesKept DEF Position, Early, Job, Moved
<1> QED BY <1>5, <1>6 DEF Placed

\* While data are replaced the copies are those of the originals.
LEMMA Switching ==
    ASSUME RestoreTypeOK, Placed, record \in {"switching", "starting"}
    PROVE  ~request /\ Copied /\ plan # "ready" /\ ~installed
BY DEF Placed, Recorded

LEMMA MoveAsidePlaces == ASSUME RestoreTypeOK, Placed, MoveAside PROVE Placed'
<1>1. /\ UNCHANGED <<mode, request, record, copies, plan, installed>>
      /\ run.step = "aside" /\ Job /\ record = "switching" /\ run.phase = "switching" /\ Replaced
  BY DEF MoveAside, unmoved, host, Does, Placed, Position
<1>2. ~request /\ Copied /\ plan # "ready" /\ ~installed
  BY <1>1, Switching
<1>3. \/ Moved("in", run.at, run.phase, run.failed)
      \/ UNCHANGED live /\ Moved("back", 1, run.phase, TRUE)
  BY <1>1, StepMoves, FailMoves DEF MoveAside, RestoreTypeOK, Steps, Job
<1>4. \A i \in Index : i < run.at => live'[i] = live[i]
  BY RunFields, Indices DEF MoveAside, RestoreTypeOK
<1>5. Copied' /\ (run'.at = run.at => Replaced')
  BY <1>1, <1>2, <1>4, ModeKept DEF Copied, Replaced
<1>6. Recorded'
  BY <1>1, <1>2, <1>5 DEF Recorded
<1>7. Position'
  BY <1>1, <1>2, <1>3, <1>5 DEF Position, Early, Job, Moved
<1> QED BY <1>6, <1>7 DEF Placed

LEMMA MoveInPlaces == ASSUME RestoreTypeOK, Placed, MoveIn PROVE Placed'
<1>1. /\ UNCHANGED <<mode, request, record, copies, plan, installed>>
      /\ run.step = "in" /\ Job /\ record = "switching" /\ run.phase = "switching" /\ Replaced
  BY DEF MoveIn, unmoved, host, Does, Placed, Position
<1>2. ~request /\ Copied /\ plan # "ready" /\ ~installed
  BY <1>1, Switching
<1>3. \/ live' = [live EXCEPT ![run.at] = "new"] /\ Loop("aside", "starting")
      \/ Moved("back", 1, run.phase, TRUE)
  BY <1>1, FailMoves DEF MoveIn, RestoreTypeOK, Job
<1>4. Copied'
  BY <1>1, <1>2, ModeKept DEF Copied
<1>5. Recorded'
  BY <1>1, <1>2, <1>4 DEF Recorded
<1>6. CASE live' = [live EXCEPT ![run.at] = "new"] /\ Loop("aside", "starting")
  <2>1. \/ run.at < Len(Targets[mode]) /\ Moved("aside", run.at + 1, run.phase, run.failed)
        \/ run.at = Len(Targets[mode]) /\ Moved("starting", 1, run.phase, run.failed)
    BY ZenonT(60), <1>6, LoopMoves, RunFields, Indices DEF RestoreTypeOK, Steps
  <2>2. \A i \in Index : i <= run.at => live'[i] = "new"
    BY <1>1, <1>6, RunFields, Indices DEF RestoreTypeOK, Replaced
  <2>3. (run'.step = "aside" => Replaced') /\ (run'.step = "starting" => AllNew')
    BY <1>1, <2>1, <2>2, ModeKept, RunFields, Indices DEF Moved, Replaced, AllNew, RestoreTypeOK
  <2>4. Position'
    BY <1>1, <1>2, <2>1, <2>3 DEF Position, Early, Job, Moved
  <2> QED BY <1>5, <2>4 DEF Placed
<1>7. CASE Moved("back", 1, run.phase, TRUE)
  <2>1. Position'
    BY <1>1, <1>2, <1>7 DEF Position, Early, Job, Moved
  <2> QED BY <1>5, <2>1 DEF Placed
<1> QED BY <1>3, <1>6, <1>7

LEMMA RecordStartingPlaces ==
    ASSUME DurableRecords, RestoreTypeOK, Placed, RecordStarting
    PROVE  Placed'
<1>1. /\ run.step = "starting" /\ UNCHANGED <<mode, request, live, copies, plan, installed>>
      /\ \/ record' = "starting" /\ Moved("upstream", 1, "starting", run.failed)
         \/ record' \in {record, "starting"} /\ Moved("back", run.at, "starting", TRUE)
  BY RecordMoves DEF RecordStarting, Steps, Phases
<1>2. Job /\ record = "switching" /\ AllNew
  BY <1>1 DEF Placed, Position
<1>3. ~request /\ Copied /\ plan # "ready" /\ ~installed
  BY <1>2, Switching
<1>4. Copied'
  BY <1>1, <1>3, SidesKept DEF Copied
<1>5. Recorded'
  BY <1>1, <1>2, <1>3, <1>4, SidesKept DEF Recorded
<1>6. Position'
  BY <1>1, <1>2, <1>3, SidesKept DEF Position, Early, Job, Moved
<1> QED BY <1>5, <1>6 DEF Placed

\* The services are started, by the job, its rollback or the recovery.
Starting ==
    IF run.back THEN record \in {"preparing", "stopping", "rolled-back"}
    ELSE IF run.recovers THEN record = "committed"
    ELSE record = "starting" /\ run.phase = "starting" /\ AllNew

LEMMA StartUpstreamPlaces == ASSUME RestoreTypeOK, Placed, StartUpstream PROVE Placed'
<1>1. UNCHANGED <<mode, request, record, live, copies, plan, installed>>
  BY DEF StartUpstream, unmoved, host, disk
<1>2. ~request /\ Starting
  BY DEF StartUpstream, Does, Placed, Position, Starting
<1>3. \/ Moved("portal", 1, run.phase, run.failed)
      \/ (run.back \/ run.recovers) /\ Moved("end", run.at, run.phase, TRUE)
      \/ Job /\ Moved("back", 1, run.phase, TRUE)
  BY GotoMoves, FailMoves DEF StartUpstream, RestoreTypeOK, Steps, Job
<1>4. Position'
  BY <1>1, <1>2, <1>3, SidesKept DEF Position, Early, Job, Moved, Starting
<1> QED BY <1>1, <1>4, RecordedKept DEF Placed

LEMMA StartPortalPlaces == ASSUME RestoreTypeOK, Placed, StartPortal PROVE Placed'
<1>1. UNCHANGED <<mode, request, record, live, copies, plan, installed>>
  BY DEF StartPortal, unmoved, host, disk
<1>2. ~request /\ Starting
  BY DEF StartPortal, Does, Placed, Position, Starting
<1>3. \/ Moved("healthy", 1, run.phase, run.failed)
      \/ (run.back \/ run.recovers) /\ Moved("end", run.at, run.phase, TRUE)
      \/ Job /\ Moved("back", 1, run.phase, TRUE)
  BY GotoMoves, FailMoves DEF StartPortal, RestoreTypeOK, Steps, Job
<1>4. Position'
  BY <1>1, <1>2, <1>3, SidesKept DEF Position, Early, Job, Moved, Starting
<1> QED BY <1>1, <1>4, RecordedKept DEF Placed

LEMMA HealthyPlaces == ASSUME RestoreTypeOK, Placed, Healthy PROVE Placed'
<1>1. UNCHANGED <<mode, request, record, live, copies, plan, installed>>
  BY DEF Healthy, unmoved, host, disk
<1>2. ~request /\ Starting
  BY DEF Healthy, Does, Placed, Position, Starting
<1>3. \/ run.recovers /\ Moved("report", 1, run.phase, run.failed)
      \/ ~run.recovers /\ run.back /\ Moved("clean", 1, run.phase, run.failed)
      \/ Job /\ Moved("committed", 1, run.phase, run.failed)
      \/ (run.back \/ run.recovers) /\ Moved("end", run.at, run.phase, TRUE)
      \/ Job /\ Moved("back", 1, run.phase, TRUE)
  BY GotoMoves, FailMoves DEF Healthy, RestoreTypeOK, Steps, Job
<1>4. Position'
  BY <1>1, <1>2, <1>3, SidesKept DEF Position, Early, Job, Moved, Starting
<1> QED BY <1>1, <1>4, RecordedKept DEF Placed

LEMMA RecordCommittedPlaces ==
    ASSUME DurableRecords, RestoreTypeOK, Placed, RecordCommitted
    PROVE  Placed'
<1>1. /\ run.step = "committed" /\ UNCHANGED <<mode, request, live, copies, plan, installed>>
      /\ record' = "committed" /\ Moved("ready", 1, "committed", run.failed)
  BY RecordMoves DEF RecordCommitted, Steps, Phases
<1>2. ~request /\ Job /\ record = "starting" /\ AllNew
  BY <1>1 DEF Placed, Position, Job
<1>3. Recorded'
  BY <1>1, <1>2, SidesKept DEF Recorded
<1>4. Position'
  BY <1>1, <1>2, SidesKept DEF Position, Early, Job, Moved
<1> QED BY <1>3, <1>4 DEF Placed

LEMMA MarkReadyPlaces == ASSUME RestoreTypeOK, Placed, MarkReady PROVE Placed'
<1>1. UNCHANGED <<mode, request, record, live, copies, installed>>
  BY DEF MarkReady, unmoved, disk
<1>2. ~request /\ ~run.back /\ record = "committed" /\ AllNew
  BY DEF MarkReady, Does, Placed, Position, Recorded
<1>3. \/ run.recovers /\ Moved("upstream", 1, run.phase, run.failed)
      \/ ~run.recovers /\ Moved("clean", 1, run.phase, run.failed)
      \/ Moved("end", run.at, run.phase, TRUE)
  BY GotoMoves, StepMoves DEF MarkReady, RestoreTypeOK, Steps
<1>4. Recorded'
  BY <1>1, <1>2, SidesKept DEF Recorded
<1>5. Position'
  BY <1>1, <1>2, <1>3, SidesKept DEF Position, Early, Job, Moved
<1> QED BY <1>4, <1>5 DEF Placed

LEMMA RollBackPlaces == ASSUME RestoreTypeOK, Placed, RollBack PROVE Placed'
<1>1. UNCHANGED <<mode, request, record, live, copies, plan, installed>>
  BY DEF RollBack, unmoved, disk, host
<1>2. /\ ~request
      /\ IF run.phase \in {"switching", "starting"} THEN record \in {"switching", "starting"}
         ELSE record \in {"preparing", "stopping", "rolled-back"}
  BY DEF RollBack, Does, Placed, Position
<1>3. \/ copies # << >>
      \/ Moved("end", run.at, run.phase, TRUE)
  BY StepMoves DEF RollBack, RestoreTypeOK, Steps
<1>4. CASE copies # << >>
  <2>1. /\ run'.step = IF run.phase \in {"switching", "starting"} THEN "back.stop" ELSE "upstream"
        /\ run'.back
    BY <1>4, RollBackMoves DEF RestoreTypeOK
  <2>2. Position'
    BY <1>1, <1>2, <2>1, SidesKept DEF Position, Early, Job
  <2> QED BY <1>1, <2>2, RecordedKept DEF Placed
<1>5. CASE Moved("end", run.at, run.phase, TRUE)
  <2>1. Position'
    BY <1>1, <1>2, <1>5, SidesKept DEF Position, Early, Job, Moved
  <2> QED BY <1>1, <2>1, RecordedKept DEF Placed
<1> QED BY <1>3, <1>4, <1>5

LEMMA StopAgainPlaces == ASSUME RestoreTypeOK, Placed, StopAgain PROVE Placed'
<1>1. UNCHANGED <<mode, request, record, live, copies, plan, installed>>
  BY DEF StopAgain, StopServices, unmoved, host
<1>2. ~request /\ run.back /\ record \in {"switching", "starting"}
  BY DEF StopAgain, Does, Placed, Position
<1>3. Moved("back.aside", 1, run.phase, run.failed) \/ Moved("end", run.at, run.phase, TRUE)
  BY <1>2, GotoMoves, FailMoves DEF StopAgain, StopServices, RestoreTypeOK, Steps
<1>4. run'.at = 1 => PutBack'
  BY <1>1, SidesKept, Indices DEF PutBack, RestoreTypeOK, Index
<1>5. Position'
  BY <1>1, <1>2, <1>3, <1>4, SidesKept DEF Position, Early, Job, Moved
<1> QED BY <1>1, <1>5, RecordedKept DEF Placed

LEMMA MoveAsideAgainPlaces == ASSUME RestoreTypeOK, Placed, MoveAsideAgain PROVE Placed'
<1>1. /\ UNCHANGED <<mode, request, record, copies, plan, installed>>
      /\ run.step = "back.aside" /\ run.back /\ record \in {"switching", "starting"} /\ PutBack
  BY DEF MoveAsideAgain, unmoved, host, Does, Placed, Position
<1>2. ~request /\ Copied /\ plan # "ready" /\ ~installed
  BY <1>1, Switching
<1>3. \/ Moved("back.in", run.at, run.phase, run.failed) \/ Moved("end", run.at, run.phase, TRUE)
  BY <1>1, StepMoves, FailMoves DEF MoveAsideAgain, RestoreTypeOK, Steps
<1>4. \A i \in Index : i < run.at => live'[i] = live[i]
  BY RunFields, Indices DEF MoveAsideAgain, RestoreTypeOK
<1>5. Copied' /\ (run'.at = run.at => PutBack')
  BY <1>1, <1>2, <1>4, ModeKept DEF Copied, PutBack
<1>6. Recorded'
  BY <1>1, <1>2, <1>5 DEF Recorded
<1>7. Position'
  BY <1>1, <1>2, <1>3, <1>5 DEF Position, Early, Job, Moved
<1> QED BY <1>6, <1>7 DEF Placed

LEMMA MoveBackPlaces == ASSUME RestoreTypeOK, Placed, MoveBack PROVE Placed'
<1>1. /\ UNCHANGED <<mode, request, record, copies, plan, installed>>
      /\ run.step = "back.in" /\ run.back /\ record \in {"switching", "starting"} /\ PutBack
  BY DEF MoveBack, unmoved, host, Does, Placed, Position
<1>2. ~request /\ Copied /\ plan # "ready" /\ ~installed
  BY <1>1, Switching
<1>3. \/ live' = [live EXCEPT ![run.at] = copies[run.at]] /\ Loop("back.aside", "rolled-back")
      \/ Moved("end", run.at, run.phase, TRUE)
  BY <1>1, FailMoves DEF MoveBack, RestoreTypeOK
<1>4. Copied'
  BY <1>1, <1>2, ModeKept DEF Copied
<1>5. Recorded'
  BY <1>1, <1>2, <1>4 DEF Recorded
<1>6. CASE live' = [live EXCEPT ![run.at] = copies[run.at]] /\ Loop("back.aside", "rolled-back")
  <2>1. \/ run.at < Len(Targets[mode]) /\ Moved("back.aside", run.at + 1, run.phase, run.failed)
        \/ run.at = Len(Targets[mode]) /\ Moved("rolled-back", 1, run.phase, run.failed)
    BY <1>6, LoopMoves, RunFields, Indices DEF RestoreTypeOK, Steps
  <2>2. \A i \in Index : i <= run.at => live'[i] = Original(i)
    BY <1>1, <1>2, <1>6, RunFields, Indices DEF RestoreTypeOK, PutBack, Copied
  <2>3. /\ Index' = Index /\ (\A i \in Index : Original(i)' = Original(i))
        /\ \A i \in Index : i \in Nat /\ i <= Len(Targets[mode])
        /\ run.at \in Index
    BY <1>1, ModeKept, RunFields, Indices DEF RestoreTypeOK
  <2>4. run'.step = "back.aside" => PutBack'
    BY <2>1, <2>2, <2>3 DEF Moved, PutBack
  <2>5. run'.step = "rolled-back" => AllOriginal'
    BY <2>1, <2>2, <2>3 DEF Moved, AllOriginal
  <2>6. Position'
    BY <1>1, <1>2, <2>1, <2>4, <2>5 DEF Position, Early, Job, Moved
  <2> QED BY <1>5, <2>6 DEF Placed
<1>7. CASE Moved("end", run.at, run.phase, TRUE)
  <2>1. Position'
    BY <1>1, <1>2, <1>7 DEF Position, Early, Job, Moved
  <2> QED BY <1>5, <2>1 DEF Placed
<1> QED BY <1>3, <1>6, <1>7

LEMMA RecordRolledBackPlaces ==
    ASSUME DurableRecords, RestoreTypeOK, Placed, RecordRolledBack
    PROVE  Placed'
<1>1. run.step = "rolled-back" /\ UNCHANGED <<mode, request, live, copies, plan, installed>>
  BY RecordMoves DEF RecordRolledBack, Steps, Phases
<1>2. run.back /\ record \in {"switching", "starting"} /\ AllOriginal
  BY <1>1 DEF Placed, Position
<1>3. ~request /\ Copied /\ plan # "ready" /\ ~installed
  BY <1>2, Switching
<1>4. \/ record' = "rolled-back" /\ Moved("upstream", 1, "rolled-back", run.failed)
      \/ record' \in {record, "rolled-back"} /\ Moved("end", run.at, run.phase, TRUE)
  BY <1>2, RecordMoves, FailMoves DEF RecordRolledBack, Steps, Phases, RestoreTypeOK
<1>5. Copied'
  BY <1>1, <1>3, SidesKept DEF Copied
<1>6. Recorded'
  BY <1>1, <1>2, <1>3, <1>4, <1>5, SidesKept DEF Recorded
<1>7. Position'
  BY <1>1, <1>2, <1>3, <1>4, SidesKept DEF Position, Early, Job, Moved
<1> QED BY <1>6, <1>7 DEF Placed

LEMMA RecoverPlaces == ASSUME RestoreTypeOK, Placed, Recover PROVE Placed'
<1>1. UNCHANGED <<mode, request, record, live, copies, plan, installed>>
  BY DEF Recover, unmoved, disk, host
<1>2. ~request /\ run.recovers /\ ~run.back
  BY DEF Recover, Does, Placed, Position
<1>3. \/ Moved("end", run.at, run.phase, TRUE)
      \/ /\ record \in Phases /\ run'.phase = record /\ ~run'.back /\ run'.recovers
         /\ run'.step = IF record = "committed" THEN "ready" ELSE "back"
  BY <1>2, RecoverMoves, FailMoves DEF Recoverable, RestoreTypeOK
<1>4. Position'
  BY <1>1, <1>2, <1>3, SidesKept DEF Position, Early, Job, Moved, Phases
<1> QED BY <1>1, <1>4, RecordedKept DEF Placed

LEMMA RecoverReportPlaces == ASSUME RestoreTypeOK, Placed, RecoverReport PROVE Placed'
<1>1. UNCHANGED <<mode, request, record, live, copies, plan, installed>>
  BY DEF RecoverReport, unmoved, disk, host
<1>2. ~request /\ run.recovers /\ record \in {"preparing", "stopping", "rolled-back", "committed"}
  BY DEF RecoverReport, Does, Placed, Position
<1>3. Moved("clean", 1, run.phase, run.failed) \/ Moved("end", run.at, run.phase, TRUE)
  BY <1>2, GotoMoves, FailMoves DEF RecoverReport, RestoreTypeOK, Steps
<1>4. Position'
  BY <1>1, <1>2, <1>3, SidesKept DEF Position, Early, Job, Moved
<1> QED BY <1>1, <1>4, RecordedKept DEF Placed

LEMMA CleanStagesPlaces == ASSUME RestoreTypeOK, Placed, CleanStages PROVE Placed'
<1>1. UNCHANGED <<mode, request, record, live, plan, installed>>
  BY DEF CleanStages, unmoved, host
<1>2. ~request /\ record \notin {"none", "switching", "starting"}
  BY DEF CleanStages, Does, Placed, Position
<1>3. Moved("drop", 1, run.phase, run.failed)
  BY GotoMoves DEF CleanStages, RestoreTypeOK, Steps
<1>4. Recorded'
  BY <1>1, <1>2, SidesKept DEF Recorded, Placed
<1>5. Position'
  BY <1>1, <1>2, <1>3, SidesKept DEF Position, Early, Job, Moved
<1> QED BY <1>4, <1>5 DEF Placed

LEMMA DropTransactionPlaces == ASSUME RestoreTypeOK, Placed, DropTransaction PROVE Placed'
<1>1. UNCHANGED <<mode, request, copies, live, plan, installed>>
  BY DEF DropTransaction, unmoved, host
<1>2. ~request /\ record \notin {"none", "switching", "starting"} /\ run.step = "drop"
  BY DEF DropTransaction, Does, Placed, Position
<1>3. \/ record = "unreadable" /\ record' = "none" /\ Moved("end", 1, run.phase, run.failed)
      \/ record' = "unreadable" /\ UNCHANGED run
  BY GotoMoves DEF DropTransaction, RestoreTypeOK, Steps
<1>4. AllOriginal \/ AllNew
  BY <1>2 DEF Placed, Recorded, RestoreTypeOK, Phases
<1>5. Recorded'
  BY <1>1, <1>2, <1>3, <1>4, SidesKept DEF Recorded, Placed
<1>6. Position'
  BY <1>1, <1>2, <1>3, SidesKept DEF Position, Early, Job, Moved
<1> QED BY <1>5, <1>6 DEF Placed

\* The last step of a job.
LEMMA IdlePlaces ==
    ASSUME RestoreTypeOK, Position, UNCHANGED <<mode, request>>, run' = Idle
    PROVE  Position'
<1>1. run'.step = "idle" /\ Job'
  BY IdleTypes DEF RestoreTypeOK, Job
<1> QED BY <1>1 DEF Position, Early

LEMMA EndJobPlaces == ASSUME RestoreTypeOK, Placed, EndJob PROVE Placed'
<1>1. UNCHANGED <<mode, request, record, copies, live, installed>> /\ plan' \in {"none", plan}
  BY DEF EndJob, unmoved, disk
<1>2. ~request
  BY DEF EndJob, Does, Placed, Position
<1>3. Moved("install", 1, run.phase, run.failed) \/ run' = Idle
  BY GotoMoves DEF EndJob, RestoreTypeOK, Steps
<1>4. Copied' <=> Copied
  BY <1>1, SidesKept DEF Copied
<1>5. Recorded'
  BY <1>1, <1>2, <1>4, SidesKept DEF Recorded, Placed
<1>6. Moved("install", 1, run.phase, run.failed) => Position'
  BY <1>1, <1>2, SidesKept DEF Position, Early, Job, Moved
<1> QED BY <1>1, <1>3, <1>5, <1>6, IdlePlaces DEF Placed

LEMMA InstallHostPlaces == ASSUME RestoreTypeOK, Placed, InstallHost PROVE Placed'
<1>1. UNCHANGED <<mode, request, record, copies, live, installed>> /\ plan' \in {"none", plan}
  BY DEF InstallHost, unmoved, disk
<1>2. ~request
  BY DEF InstallHost, Does, Placed, Position
<1>3. \/ plan = "ready" /\ UNCHANGED plan /\ Moved("tasks", 1, run.phase, run.failed)
      \/ run' = Idle
  BY GotoMoves DEF InstallHost, RestoreTypeOK, Steps
<1>4. Copied' <=> Copied
  BY <1>1, SidesKept DEF Copied
<1>5. Recorded'
  BY <1>1, <1>2, <1>4, SidesKept DEF Recorded, Placed
<1>6. plan = "ready" /\ UNCHANGED plan /\ Moved("tasks", 1, run.phase, run.failed) => Position'
  BY <1>1, <1>2, SidesKept DEF Position, Early, Job, Moved
<1> QED BY <1>1, <1>3, <1>5, <1>6, IdlePlaces DEF Placed

LEMMA InstallTasksPlaces == ASSUME RestoreTypeOK, Placed, InstallTasks PROVE Placed'
<1>1. UNCHANGED <<mode, request, record, copies, live>> /\ plan' \in {"none", plan} /\ run' = Idle
  BY DEF InstallTasks, unmoved, disk
<1>2. ~request /\ plan = "ready"
  BY DEF InstallTasks, Does, Placed, Position
<1>3. Copied' <=> Copied
  BY <1>1, SidesKept DEF Copied
<1>4. Recorded'
  BY <1>1, <1>2, <1>3, SidesKept DEF Recorded, Placed
<1> QED BY <1>1, <1>4, IdlePlaces DEF Placed

LEMMA StartRestorePlaces == ASSUME RestoreTypeOK, Placed, StartRestore PROVE Placed'
<1>1. UNCHANGED <<mode, record, copies, live, plan, installed>> /\ request /\ ~request'
  BY DEF StartRestore, disk, host
<1>2. record = "none" /\ AllOriginal /\ plan = "none" /\ ~installed /\ Job
  BY <1>1 DEF StartRestore, TakeLock, Does, Placed, Recorded, Position
<1>3. Moved("request", 1, run.phase, run.failed)
  BY GotoMoves DEF StartRestore, RestoreTypeOK, Steps
<1>4. Recorded'
  BY <1>1, <1>2, SidesKept DEF Recorded
<1>5. Position'
  BY <1>1, <1>2, <1>3, SidesKept DEF Position, Early, Job, Moved
<1> QED BY <1>4, <1>5 DEF Placed

LEMMA StartRecoveryPlaces == ASSUME RestoreTypeOK, Placed, StartRecovery PROVE Placed'
<1>1. UNCHANGED <<mode, request, record, copies, live, plan, installed>> /\ record # "none"
  BY DEF StartRecovery, unmoved, disk, host
<1>2. ~request
  BY <1>1 DEF Placed, Recorded
<1>3. run'.step = "recover" /\ run'.recovers /\ ~run'.back
  BY IdleTypes DEF StartRecovery, RestoreTypeOK, Runs
<1>4. Position'
  BY <1>1, <1>2, <1>3, SidesKept DEF Position, Early
<1> QED BY <1>1, <1>4, RecordedKept DEF Placed

LEMMA StartHostPlaces == ASSUME RestoreTypeOK, Placed, StartHost PROVE Placed'
<1>1. UNCHANGED <<mode, request, record, copies, live, plan, installed>> /\ ~request
  BY DEF StartHost, unmoved, disk, host
<1>2. Moved("install", 1, run.phase, run.failed)
  BY GotoMoves DEF StartHost, RestoreTypeOK, Steps
<1>3. Position'
  BY <1>1, <1>2, SidesKept DEF Position, Early, Job, Moved
<1> QED BY <1>1, <1>3, RecordedKept DEF Placed

\* What changes neither the files a record speaks of nor the runner.
LEMMA PositionKept ==
    ASSUME Position, UNCHANGED <<mode, request, record, live, copies, plan, run>>
    PROVE  Position'
<1>1. /\ Index' = Index /\ (Copied' <=> Copied) /\ (Snapped' <=> Snapped)
      /\ (Replaced' <=> Replaced) /\ (PutBack' <=> PutBack)
  BY SidesKept DEF Copied, Snapped, Replaced, PutBack
<1> QED BY <1>1, SidesKept DEF Position, Early, Job

\* What services, crashes and the operator do leaves everything in its place.
LEMMA EnvironmentPlaces ==
    ASSUME RestoreTypeOK, Placed,
           ServiceWrites \/ Crash \/ RemoveStaleLock \/ UNCHANGED restoreVars
    PROVE  Placed'
<1>1. UNCHANGED <<mode, request, record, live, copies, plan, installed>>
  BY DEF ServiceWrites, Crash, RemoveStaleLock, restoreVars, unmoved, disk, host
<1>2. run' = Idle \/ run' = run
  BY DEF ServiceWrites, Crash, RemoveStaleLock, restoreVars
<1> QED BY <1>1, <1>2, RecordedKept, PositionKept, IdlePlaces DEF Placed

-----------------------------------------------------------------------------
(* Every step keeps the types and the places.                              *)

\* Writing a record keeps the types.
LEMMA RecordTypes ==
    ASSUME DurableRecords, RestoreTypeOK, NEW phase \in Phases, NEW next \in Steps, Record(phase, next)
    PROVE  RestoreTypeOK'
<1>1. UNCHANGED <<mode, defect, missing, request, crashes, template, stage, copies, live, wal,
                  plan, installed, portal, upstream, report, lock>>
  BY RecordMoves
<1>2. mode' \in Modes /\ Runs' = Runs /\ Index' = Index /\ Copies' = Copies
  BY <1>1, ModeKept DEF RestoreTypeOK
<1>3. run' \in Runs /\ record' \in {"none", "unreadable"} \cup Phases
  BY RecordMoves, FailMoves DEF Moved, RestoreTypeOK
<1>4. faults' \in 0..MaxFaults
  BY FaultTypes DEF Record, PersistPhase, PersistFails, RestoreTypeOK
<1>5. FilesOK'
  BY <1>1, <1>2, <1>3, FilesTyped DEF FilesOK
<1> QED BY <1>1, <1>2, <1>3, <1>4, <1>5, Typed DEF RestoreTypeOK

Records ==
    \/ RecordPreparing \/ RecordStopping \/ RecordSwitching \/ RecordStarting
    \/ RecordCommitted \/ RecordRolledBack

\* Every step keeps the types.
LEMMA TypeStep == ASSUME DurableRecords, RestoreTypeOK, Placed, [RestoreNext]_restoreVars PROVE RestoreTypeOK'
<1>1. CASE Inspects
  BY <1>1, Inspections, CheckTypes DEF Early, Steps
<1>2. CASE Records
  <2> DEFINE R == \E phase \in Phases, next \in Steps : Record(phase, next)
  <2>1. R
    BY <1>2 DEF Records, RecordPreparing, RecordStopping, RecordSwitching, RecordStarting,
                RecordCommitted, RecordRolledBack, Phases, Steps
  <2> QED BY <2>1, RecordTypes
<1>3. CASE MoveBack
  BY <1>3, MoveBackTypes DEF MoveBack, Does, Placed, Position, Recorded, Copied
<1>4. CASE \/ Bootstrap \/ PrepareHost \/ MakeTransaction \/ StageTarget \/ CheckCandidate
           \/ Stop \/ Snapshot \/ MoveAside \/ MoveIn \/ StartUpstream \/ StartPortal \/ Healthy
           \/ MarkReady \/ RollBack \/ StopAgain \/ MoveAsideAgain \/ Recover \/ RecoverReport
           \/ CleanStages \/ DropTransaction \/ EndJob \/ InstallHost \/ InstallTasks
  BY <1>4, BootstrapTypes, PrepareHostTypes, MakeTransactionTypes, StageTargetTypes,
     CheckCandidateTypes, StopTypes, SnapshotTypes, MoveAsideTypes, MoveInTypes,
     StartUpstreamTypes, StartPortalTypes, HealthyTypes, MarkReadyTypes, RollBackTypes,
     StopAgainTypes, MoveAsideAgainTypes, RecoverTypes, RecoverReportTypes, CleanStagesTypes,
     DropTransactionTypes, EndJobTypes, InstallHostTypes, InstallTasksTypes
<1>5. CASE Ticks \/ ServiceWrites \/ Crash \/ RemoveStaleLock
  BY <1>5, StartRestoreTypes, StartRecoveryTypes, StartHostTypes, ServiceWritesTypes, CrashTypes,
     RemoveStaleLockTypes DEF Ticks
<1>6. CASE UNCHANGED restoreVars
  <2>1. mode' \in Modes /\ FilesOK' /\ Runs' = Runs
    BY <1>6, FilesKept, ModeKept DEF restoreVars, RestoreTypeOK
  <2> QED BY <1>6, <2>1, Typed DEF restoreVars, services, RestoreTypeOK
<1> QED BY <1>1, <1>2, <1>3, <1>4, <1>5, <1>6 DEF RestoreNext, RunnerStep, Inspects, Records

\* Every step keeps the record and the paths in place.
LEMMA PlacedStep == ASSUME DurableRecords, RestoreTypeOK, Placed, [RestoreNext]_restoreVars PROVE Placed'
<1>1. CASE Inspects
  BY <1>1, Inspections, CheckPlaces
<1>2. CASE Records
  BY <1>2, RecordPreparingPlaces, RecordStoppingPlaces, RecordSwitchingPlaces,
     RecordStartingPlaces, RecordCommittedPlaces, RecordRolledBackPlaces DEF Records
<1>3. CASE \/ Bootstrap \/ PrepareHost \/ MakeTransaction \/ StageTarget \/ CheckCandidate
           \/ Stop \/ Snapshot \/ MoveAside \/ MoveIn \/ StartUpstream \/ StartPortal \/ Healthy
           \/ MarkReady \/ RollBack \/ StopAgain \/ MoveAsideAgain \/ MoveBack \/ Recover
           \/ RecoverReport \/ CleanStages \/ DropTransaction \/ EndJob \/ InstallHost \/ InstallTasks
  BY <1>3, BootstrapPlaces, PrepareHostPlaces, MakeTransactionPlaces, StageTargetPlaces,
     CheckCandidatePlaces, StopPlaces, SnapshotPlaces, MoveAsidePlaces, MoveInPlaces,
     StartUpstreamPlaces, StartPortalPlaces, HealthyPlaces, MarkReadyPlaces, RollBackPlaces,
     StopAgainPlaces, MoveAsideAgainPlaces, MoveBackPlaces, RecoverPlaces, RecoverReportPlaces,
     CleanStagesPlaces, DropTransactionPlaces, EndJobPlaces, InstallHostPlaces, InstallTasksPlaces
<1>4. CASE Ticks
  BY <1>4, StartRestorePlaces, StartRecoveryPlaces, StartHostPlaces DEF Ticks
<1>5. CASE ServiceWrites \/ Crash \/ RemoveStaleLock \/ UNCHANGED restoreVars
  BY <1>5, EnvironmentPlaces
<1> QED BY <1>1, <1>2, <1>3, <1>4, <1>5 DEF RestoreNext, RunnerStep, Inspects, Records

\* At first nothing is recorded and every path is as it was.
LEMMA InitPlaced == ASSUME RestoreInit PROVE RestoreTypeOK /\ Placed
<1>1. mode \in Modes /\ run = Idle /\ AllOriginal /\ record = "none" /\ plan = "none" /\ ~installed
      /\ copies = << >>
  BY DEF RestoreInit, AllOriginal
<1>2. live \in Copies /\ wal \in Copies
  BY <1>1, Originals DEF RestoreInit, Copies
<1>3. FilesOK
  BY <1>1, <1>2 DEF RestoreInit, FilesOK
<1>4. defect \in Defects("rebuild") /\ missing \in BOOLEAN /\ template \in BOOLEAN
  BY DEF RestoreInit, Defects, Rebuild
<1>5. faults \in 0..MaxFaults /\ crashes \in 0..MaxCrashes
  BY RestoreAssumption DEF RestoreInit, RestoreAssumption
<1>6. RestoreTypeOK
  BY <1>1, <1>3, <1>4, <1>5, IdleTypes DEF RestoreInit, RestoreTypeOK, FilesOK, Copies
<1>7. Placed
  BY <1>1, IdleTypes DEF Placed, Recorded, Position, Early, Job
<1> QED BY <1>6, <1>7

-----------------------------------------------------------------------------
(* The services: what runs, and on which data.                             *)

\* Which side is served changes only with the data, CPAMP or the mode.
LEMMA SideKept ==
    ASSUME UNCHANGED <<mode, live, upstream>>
    PROVE  (OneSide' <=> OneSide) /\ (Rebuild' <=> Rebuild) /\ Index' = Index /\ Databases' = Databases
BY SidesKept, ModeKept DEF OneSide, Rebuild

\* Copies of the targets differ from the empty tuple, which says that there are none.
LEMMA CopiesMade ==
    ASSUME mode \in Modes
    PROVE  << >> \notin Copies
BY Indices DEF Copies

\* A step that touches neither the data, the services nor the directories.
LEMMA LogsKept ==
    ASSUME Logs, UNCHANGED <<mode, live, wal>>, run'.step \notin {"in", "back.in"} \/ UNCHANGED run
    PROVE  Logs'
<1>1. Databases' = Databases
  BY ModeKept
<1> QED BY <1>1 DEF Logs

\* Whether a transaction can be recovered is a matter of the disk.
LEMMA RecoverableKept ==
    ASSUME UNCHANGED <<mode, record, stage, copies>>
    PROVE  Recoverable' <=> Recoverable
BY ModeKept DEF Recoverable

\* Every recorded step of a job has what a recovery needs.
LEMMA TrackedRecoverable ==
    ASSUME RestoreTypeOK, Placed, Directories, run.step \in Tracked
    PROVE  Recoverable
<1>1. stage = Index /\ copies # << >>
  BY DEF Directories
<1>2. record \in Phases
  BY DEF Placed, Position, Tracked, Phases, Job
<1> QED BY <1>1, <1>2 DEF Recoverable

\* A failure after the transaction was recorded.
LEMMA FailServing ==
    ASSUME RestoreTypeOK, Placed, Serving, Fail, run.step \in Tracked \cup {"recover"},
           UNCHANGED <<mode, missing, live, wal, portal, upstream, record, stage, copies>>
    PROVE  Serving'
<1>1. \/ Moved("end", run.at, run.phase, TRUE)
      \/ run.step \in Tracked /\ Moved("back", 1, run.phase, TRUE)
  BY FailMoves DEF RestoreTypeOK, Placed, Position
<1>2. Logs'
  BY <1>1, LogsKept DEF Serving, Moved
<1>3. Answers'
  BY <1>1, SideKept, RecoverableKept DEF Serving, Answers, Moved, Answered, Silent, Early
<1>4. Images'
  BY <1>1, SideKept DEF Serving, Images, Moved
<1>5. Directories'
  BY <1>1, SideKept DEF Serving, Directories, Moved, Tracked
<1> QED BY <1>2, <1>3, <1>4, <1>5 DEF Serving

\* Before the transaction nothing that runs is touched.
SameRun == /\ run'.back = run.back /\ run'.recovers = run.recovers
           /\ run'.images = run.images /\ run'.remove = run.remove

\* While the runner only inspects or stages, the services go on as they were.
LEMMA EarlyServing ==
    ASSUME RestoreTypeOK, Placed, Serving, run.step \in Early, run'.step \in Early \cup {"end"}, SameRun,
           UNCHANGED <<mode, missing, live, wal, portal, upstream, record, stage, copies>>
    PROVE  Serving'
<1>1. Logs'
  BY LogsKept DEF Serving, Early
<1>2. Answers'
  BY SideKept, RecoverableKept DEF Serving, Answers, SameRun, Answered, Silent, Early, Job
<1>3. Images'
  BY SideKept DEF Serving, Images, SameRun, Early
<1>4. Directories'
  BY SideKept DEF Serving, Directories, Tracked, Early
<1> QED BY <1>1, <1>2, <1>3, <1>4 DEF Serving

\* From here on, one action at a time: the portal goes on answering from one side, or
\* not at all.
LEMMA CheckServing ==
    ASSUME RestoreTypeOK, Placed, Serving, NEW step \in Early, NEW found, NEW next \in Early,
           Check(step, found, next)
    PROVE  Serving'
<1>1. UNCHANGED <<mode, missing, live, wal, portal, upstream, record, stage, copies>> /\ run.step = step
  BY DEF Check, Does, unmoved, disk, services
<1>2. run'.step \in Early \cup {"end"} /\ SameRun
  BY ZenonT(60), GotoMoves, RejectedMoves DEF Check, Moved, RestoreTypeOK, Early, Steps, SameRun
<1> QED BY <1>1, <1>2, EarlyServing

LEMMA BootstrapServing == ASSUME RestoreTypeOK, Placed, Serving, Bootstrap PROVE Serving'
<1>1. UNCHANGED <<mode, missing, live, wal, portal, upstream, record, stage, copies>> /\ run.step \in Early
  BY DEF Bootstrap, Does, unmoved, disk, services, Early
<1>2. run'.step \in Early \cup {"end"} /\ SameRun
  BY GotoMoves, RejectedMoves DEF Bootstrap, Moved, RestoreTypeOK, Early, Steps, SameRun
<1> QED BY <1>1, <1>2, EarlyServing

LEMMA PrepareHostServing == ASSUME RestoreTypeOK, Placed, Serving, PrepareHost PROVE Serving'
<1>1. UNCHANGED <<mode, missing, live, wal, portal, upstream, record, stage, copies>> /\ run.step \in Early
  BY DEF PrepareHost, Does, unmoved, disk, services, Early
<1>2. run'.step \in Early \cup {"end"} /\ SameRun
  BY GotoMoves, RejectedMoves DEF PrepareHost, Moved, RestoreTypeOK, Early, Steps, SameRun
<1> QED BY <1>1, <1>2, EarlyServing

LEMMA MakeTransactionServing == ASSUME RestoreTypeOK, Placed, Serving, MakeTransaction PROVE Serving'
<1>1. UNCHANGED <<mode, missing, live, wal, portal, upstream>>
  BY DEF MakeTransaction, unmoved, services
<1>2. run.step = "mkdir" /\ portal = "up"
  BY DEF MakeTransaction, Does, Serving, Answers, Answered, Early
<1>3. Moved("stage", 1, "preparing", run.failed) \/ Moved("end", run.at, run.phase, TRUE)
  BY PhaseMoves, StepMoves DEF MakeTransaction, RestoreTypeOK, Steps, Phases
<1>4. Logs'
  BY <1>1, <1>3, LogsKept DEF Serving, Moved
<1>5. Answers'
  BY <1>1, <1>2, <1>3, SideKept DEF Serving, Answers, Moved, Answered, Silent, Early
<1>6. Images'
  BY <1>1, <1>3, SideKept DEF Serving, Images, Moved
<1>7. Directories'
  BY <1>1, <1>3, SideKept DEF Directories, Moved, Tracked, Index
<1> QED BY <1>4, <1>5, <1>6, <1>7 DEF Serving

LEMMA StageTargetServing == ASSUME RestoreTypeOK, Placed, Serving, StageTarget PROVE Serving'
<1>1. UNCHANGED <<mode, missing, live, wal, portal, upstream>>
  BY DEF StageTarget, unmoved, services
<1>2. run.step = "stage" /\ portal = "up" /\ \A i \in Index : i < run.at => i \in stage
  BY DEF StageTarget, Does, Serving, Answers, Answered, Directories
<1>3. \/ stage' = stage \cup {run.at} /\ Moved("candidate", run.at, run.phase, run.failed)
      \/ Moved("clean", run.at, run.phase, TRUE)
  BY StepMoves, AbandonMoves DEF StageTarget, RestoreTypeOK, Steps
<1>4. Logs'
  BY <1>1, <1>3, LogsKept DEF Serving, Moved
<1>5. Answers'
  BY <1>1, <1>2, <1>3, SideKept DEF Serving, Answers, Moved, Answered, Silent, Early
<1>6. Images'
  BY <1>1, <1>3, SideKept DEF Serving, Images, Moved
<1>7. Directories'
  BY <1>1, <1>2, <1>3, SideKept, Indices, RunFields DEF Directories, Moved, Tracked, RestoreTypeOK
<1> QED BY <1>4, <1>5, <1>6, <1>7 DEF Serving

LEMMA CheckCandidateServing == ASSUME RestoreTypeOK, Placed, Serving, CheckCandidate PROVE Serving'
<1>1. UNCHANGED <<mode, missing, live, wal, portal, upstream, stage>>
  BY DEF CheckCandidate, unmoved, services, disk
<1>2. run.step = "candidate" /\ portal = "up" /\ \A i \in Index : i <= run.at => i \in stage
  BY DEF CheckCandidate, Does, Serving, Answers, Answered, Directories
<1>3. \/ Moved("stage", run.at + 1, run.phase, run.failed)
      \/ run.at = Len(Targets[mode]) /\ Moved("preparing", 1, run.phase, run.failed)
      \/ Moved("clean", run.at, run.phase, TRUE)
  BY ZenonT(60), LoopMoves, AbandonMoves, RunFields, Indices DEF CheckCandidate, RestoreTypeOK, Steps
<1>4. Logs'
  BY <1>1, <1>3, LogsKept DEF Serving, Moved
<1>5. Answers'
  BY <1>1, <1>2, <1>3, SideKept DEF Serving, Answers, Moved, Answered, Silent, Early
<1>6. Images'
  BY <1>1, <1>3, SideKept DEF Serving, Images, Moved
<1>7. /\ run.at \in Nat /\ \A i \in Index : i \in Nat /\ i <= Len(Targets[mode])
      /\ stage \subseteq Index
  BY RunFields, Indices DEF RestoreTypeOK
<1>8. run.at = Len(Targets[mode]) => stage = Index
  BY <1>2, <1>7
<1>9. Directories'
  BY <1>1, <1>2, <1>3, <1>7, <1>8, SideKept DEF Directories, Moved, Tracked
<1> QED BY <1>4, <1>5, <1>6, <1>9 DEF Serving

LEMMA RecordPreparingServing ==
    ASSUME DurableRecords, RestoreTypeOK, Placed, Serving, RecordPreparing
    PROVE  Serving'
<1>1. UNCHANGED <<mode, missing, live, wal, portal, upstream, stage, copies>> /\ run.step = "preparing"
  BY RecordMoves DEF RecordPreparing, Steps, Phases
<1>2. portal = "up" /\ stage = Index /\ copies # << >>
  BY <1>1, CopiesMade DEF Serving, Answers, Answered, Directories, Placed, Position, RestoreTypeOK
<1>3. \/ Moved("stopping", 1, "preparing", run.failed) \/ Moved("clean", run.at, run.phase, TRUE)
  BY RecordMoves DEF RecordPreparing, Steps, Phases
<1>4. Logs'
  BY <1>1, <1>3, LogsKept DEF Serving, Moved
<1>5. Answers'
  BY <1>1, <1>2, <1>3, SideKept DEF Serving, Answers, Moved, Answered, Silent, Early
<1>6. Images'
  BY <1>1, <1>3, SideKept DEF Serving, Images, Moved
<1>7. Directories'
  BY <1>1, <1>2, <1>3, SideKept DEF Directories, Moved, Tracked
<1> QED BY <1>4, <1>5, <1>6, <1>7 DEF Serving

\* A record written at a step of the job that is tracked already.
LEMMA RecordServing ==
    ASSUME DurableRecords, RestoreTypeOK, Placed, Serving, NEW phase \in Phases \cap Tracked,
           NEW next \in {"stop", "aside", "upstream", "ready"}, Record(phase, next),
           next = "aside" => phase = "switching", next = "ready" => phase = "committed"
    PROVE  Serving'
<1>10. next \in Steps /\ phase \in Phases
  BY DEF Steps
<1>11. run.step = phase /\ UNCHANGED <<mode, missing, live, wal, portal, upstream, stage, copies>>
  BY <1>10, RecordMoves
<1>12. record \in Phases
  BY <1>11, TrackedRecoverable DEF Serving, Recoverable
<1>1. /\ UNCHANGED <<mode, missing, live, wal, portal, upstream, stage, copies>> /\ run.step = phase
      /\ record' \in Phases
  BY <1>10, <1>11, <1>12, RecordMoves
<1>2. stage = Index /\ copies # << >>
  BY <1>1 DEF Serving, Directories
<1>3. \/ Moved(next, 1, phase, run.failed)
      \/ phase = "stopping" /\ Moved("clean", run.at, phase, TRUE)
      \/ phase = "starting" /\ Moved("back", run.at, phase, TRUE)
      \/ phase = "rolled-back" /\ (Moved("back", 1, run.phase, TRUE) \/ Moved("end", run.at, run.phase, TRUE))
  <2>1. \/ Moved(next, 1, phase, run.failed)
        \/ phase = "stopping" /\ Moved("clean", run.at, phase, TRUE)
        \/ phase = "starting" /\ Moved("back", run.at, phase, TRUE)
        \/ phase = "rolled-back" /\ Fail
        \/ phase = "preparing"
    BY <1>10, RecordMoves
  <2>2. phase # "preparing"
    BY DEF Tracked
  <2>3. Fail => Moved("back", 1, run.phase, TRUE) \/ Moved("end", run.at, run.phase, TRUE)
    BY FailMoves DEF RestoreTypeOK
  <2> QED BY <2>1, <2>2, <2>3
<1>4. Logs'
  BY <1>1, <1>3, LogsKept DEF Serving, Moved
<1>5. Recoverable' /\ (record # "none" /\ record' # "none")
  BY <1>1, <1>2, SideKept, TrackedRecoverable DEF Recoverable, Serving, Phases
<1>6. Answers'
  BY <1>1, <1>3, <1>5, SideKept DEF Serving, Answers, Moved, Answered, Silent, Early
<1>7. Images'
  BY <1>1, <1>3, SideKept DEF Serving, Images, Moved
<1>8. Directories'
  BY <1>1, <1>2, <1>3, SideKept DEF Directories, Moved, Tracked
<1> QED BY <1>4, <1>6, <1>7, <1>8 DEF Serving

\* Whatever stops the services: nothing runs then, or the portal is left as it was.
LEMMA StopServing ==
    ASSUME RestoreTypeOK, Placed, Serving, NEW step \in {"stop", "back.stop"},
           NEW next \in {"snapshot", "back.aside"}, run.step = step, StopServices(next)
    PROVE  Serving'
<1>1. UNCHANGED <<mode, missing, live, stage, copies, record>> /\ Databases \subseteq Index
  BY DEF StopServices, unmoved, Databases
<1>2. stage = Index /\ copies # << >> /\ Recoverable
  BY TrackedRecoverable DEF Serving, Directories, Tracked
<1>3. \/ /\ portal' = "down" /\ upstream' = (IF Rebuild THEN "down" ELSE upstream)
         /\ Moved(next, 1, run.phase, run.failed)
      \/ /\ portal' = "down" \/ UNCHANGED <<portal, upstream>>
         /\ Moved("back", 1, run.phase, TRUE) \/ Moved("end", run.at, run.phase, TRUE)
  BY GotoMoves, FailMoves DEF StopServices, RestoreTypeOK, Steps
<1>4. \A i \in Databases : wal'[i] \in {"none", live[i]}
  BY <1>1 DEF StopServices, Serving, Logs
<1>5. Logs'
  BY <1>1, <1>3, <1>4, ModeKept DEF Logs, Moved
<1>6. Recoverable' /\ record # "none"
  BY <1>1, <1>2, RecoverableKept DEF Recoverable, Phases
<1>7. Answers'
  BY <1>1, <1>3, <1>6, SideKept, ModeKept DEF Serving, Answers, Moved, Answered, Silent, Early
<1>8. Images'
  BY <1>1, <1>3, ModeKept DEF Serving, Images, Moved
<1>9. Directories'
  BY <1>1, <1>2, <1>3, ModeKept DEF Directories, Moved, Tracked
<1> QED BY <1>5, <1>7, <1>8, <1>9 DEF Serving

LEMMA SnapshotServing == ASSUME RestoreTypeOK, Placed, Serving, Snapshot PROVE Serving'
<1>1. UNCHANGED <<mode, missing, live, wal, portal, upstream, stage, record>> /\ run.step = "snapshot"
  BY DEF Snapshot, Does, unmoved, services
<1>2. Recoverable /\ stage = Index /\ copies \in Copies
  BY <1>1, TrackedRecoverable DEF Serving, Directories, Tracked, Placed, Position
<1>3. copies' \in Copies
  BY <1>2, RunFields DEF Snapshot, CopyOf, RestoreTypeOK, Copies
<1>4. copies' # << >>
  BY <1>3, CopiesMade DEF RestoreTypeOK
<1>5. \/ Moved("snapshot", run.at + 1, run.phase, run.failed)
      \/ Moved("switching", 1, run.phase, run.failed)
      \/ Moved("back", 1, run.phase, TRUE)
      \/ Moved("end", run.at, run.phase, TRUE)
  BY LoopMoves, FailMoves DEF Snapshot, RestoreTypeOK, Steps
<1>6. Logs'
  BY <1>1, <1>5, LogsKept DEF Serving, Moved
<1>7. Recoverable' /\ record # "none"
  BY <1>1, <1>2, <1>4, SideKept DEF Recoverable, Phases
<1>8. Answers'
  BY <1>1, <1>5, <1>7, SideKept DEF Serving, Answers, Moved, Answered, Silent, Early
<1>9. Images'
  BY <1>1, <1>5, SideKept DEF Serving, Images, Moved
<1>10. Directories'
  BY <1>1, <1>2, <1>4, <1>5, SideKept DEF Directories, Moved, Tracked
<1> QED BY <1>6, <1>8, <1>9, <1>10 DEF Serving

\* A path is changed while nothing runs: what is there afterwards has no log of
\* another database beside it.
LEMMA ReplaceServing ==
    ASSUME RestoreTypeOK, Placed, Serving, run.step \in {"aside", "in", "back.aside", "back.in"},
           UNCHANGED <<mode, missing, portal, upstream, stage, copies, record>>,
           NEW again \in {"in", "aside", "starting", "back.in", "back.aside", "rolled-back", "back", "end"},
           NEW at, NEW failed, Moved(again, at, run.phase, failed),
           \A i \in Databases : wal'[i] \in {"none", live'[i]},
           again \in {"in", "back.in"} => wal'[at] = "none"
    PROVE  Serving'
<1>1. portal = "down" /\ (Rebuild => upstream = "down")
  BY DEF Serving, Answers, Silent
<1>2. Recoverable /\ stage = Index /\ copies # << >>
  BY TrackedRecoverable DEF Serving, Directories, Tracked
<1>3. Logs'
  BY ModeKept DEF Logs, Moved
<1>4. Recoverable' /\ record # "none"
  BY <1>2, RecoverableKept DEF Recoverable, Phases
<1>5. Answers'
  BY <1>1, <1>4, ModeKept DEF Answers, Moved, Answered, Silent, Early
<1>6. Images'
  BY ModeKept DEF Serving, Images, Moved
<1>7. Directories'
  BY <1>2, ModeKept DEF Directories, Moved, Tracked
<1> QED BY <1>3, <1>5, <1>6, <1>7 DEF Serving

LEMMA MoveAsideServing == ASSUME RestoreTypeOK, Placed, Serving, MoveAside PROVE Serving'
<1>1. /\ UNCHANGED <<mode, missing, portal, upstream, stage, copies, record>> /\ run.step = "aside"
      /\ Databases \subseteq Index /\ run.at \in Index
  BY RunFields DEF MoveAside, Does, unmoved, services, Databases, RestoreTypeOK
<1>2. \A i \in Databases : wal[i] \in {"none", live[i]}
  BY DEF Serving, Logs
<1>3. \/ wal' = [wal EXCEPT ![run.at] = "none"] /\ Moved("in", run.at, run.phase, run.failed)
      \/ wal' = wal /\ (Moved("back", 1, run.phase, TRUE) \/ Moved("end", run.at, run.phase, TRUE))
  BY StepMoves, FailMoves DEF MoveAside, MoveSidecars, RestoreTypeOK, Steps
<1>4. \A i \in Databases : live'[i] = live[i]
  BY <1>1 DEF MoveAside, Databases, RestoreTypeOK
<1>5. \A i \in Databases : wal'[i] \in {"none", live'[i]}
  BY <1>1, <1>2, <1>3, <1>4 DEF RestoreTypeOK
<1>6. wal' = [wal EXCEPT ![run.at] = "none"] => wal'[run.at] = "none"
  BY <1>1 DEF RestoreTypeOK
<1> QED BY <1>1, <1>3, <1>5, <1>6, ReplaceServing

LEMMA MoveInServing == ASSUME RestoreTypeOK, Placed, Serving, MoveIn PROVE Serving'
<1>1. /\ UNCHANGED <<mode, missing, portal, upstream, stage, copies, record, wal>> /\ run.step = "in"
      /\ Databases \subseteq Index /\ run.at \in Index
  BY RunFields DEF MoveIn, Does, unmoved, services, Databases, RestoreTypeOK
<1>2. (\A i \in Databases : wal[i] \in {"none", live[i]}) /\ wal[run.at] = "none"
  BY <1>1 DEF Serving, Logs
<1>3. \/ Moved("aside", run.at + 1, run.phase, run.failed) \/ Moved("starting", 1, run.phase, run.failed)
      \/ Moved("back", 1, run.phase, TRUE) \/ Moved("end", run.at, run.phase, TRUE)
  BY ZenonT(60), LoopMoves, FailMoves DEF MoveIn, RestoreTypeOK, Steps
<1>4. live' \in {live, [live EXCEPT ![run.at] = "new"]}
  BY DEF MoveIn
<1>5. \A i \in Databases : wal'[i] \in {"none", live'[i]}
  BY <1>1, <1>2, <1>4 DEF RestoreTypeOK
<1> QED BY <1>1, <1>3, <1>5, ReplaceServing

LEMMA MoveAsideAgainServing == ASSUME RestoreTypeOK, Placed, Serving, MoveAsideAgain PROVE Serving'
<1>1. /\ UNCHANGED <<mode, missing, portal, upstream, stage, copies, record>> /\ run.step = "back.aside"
      /\ Databases \subseteq Index /\ run.at \in Index
  BY RunFields DEF MoveAsideAgain, Does, unmoved, services, Databases, RestoreTypeOK
<1>2. \A i \in Databases : wal[i] \in {"none", live[i]}
  BY DEF Serving, Logs
<1>3. \/ /\ wal' = [wal EXCEPT ![run.at] = "none"] /\ live' = [live EXCEPT ![run.at] = "none"]
         /\ Moved("back.in", run.at, run.phase, run.failed)
      \/ /\ wal' \in {wal, [wal EXCEPT ![run.at] = "none"]} /\ UNCHANGED live
         /\ Moved("back", 1, run.phase, TRUE) \/ Moved("end", run.at, run.phase, TRUE)
  BY StepMoves, FailMoves DEF MoveAsideAgain, MoveSidecars, RestoreTypeOK, Steps
<1>4. \A i \in Databases : wal'[i] \in {"none", live'[i]}
  BY <1>1, <1>2, <1>3 DEF RestoreTypeOK
<1>5. wal' = [wal EXCEPT ![run.at] = "none"] => wal'[run.at] = "none"
  BY <1>1 DEF RestoreTypeOK
<1> QED BY <1>1, <1>3, <1>4, <1>5, ReplaceServing

LEMMA MoveBackServing == ASSUME RestoreTypeOK, Placed, Serving, MoveBack PROVE Serving'
<1>1. /\ UNCHANGED <<mode, missing, portal, upstream, stage, copies, record, wal>> /\ run.step = "back.in"
      /\ Databases \subseteq Index /\ run.at \in Index
  BY RunFields DEF MoveBack, Does, unmoved, services, Databases, RestoreTypeOK
<1>2. (\A i \in Databases : wal[i] \in {"none", live[i]}) /\ wal[run.at] = "none"
  BY <1>1 DEF Serving, Logs
<1>3. \/ Moved("back.aside", run.at + 1, run.phase, run.failed)
      \/ Moved("rolled-back", 1, run.phase, run.failed)
      \/ Moved("back", 1, run.phase, TRUE) \/ Moved("end", run.at, run.phase, TRUE)
  BY LoopMoves, FailMoves DEF MoveBack, RestoreTypeOK, Steps
<1>4. live' \in {live, [live EXCEPT ![run.at] = copies[run.at]]}
  BY DEF MoveBack
<1>5. \A i \in Databases : wal'[i] \in {"none", live'[i]}
  BY <1>1, <1>2, <1>4 DEF RestoreTypeOK
<1> QED BY <1>1, <1>3, <1>5, ReplaceServing

\* The data that go with the images that are started.
LEMMA StartingSides ==
    ASSUME Placed, Starting
    PROVE  IF run.back THEN AllOriginal ELSE AllNew
BY DEF Starting, Placed, Recorded

LEMMA StartUpstreamServing == ASSUME RestoreTypeOK, Placed, Serving, StartUpstream PROVE Serving'
<1>1. /\ UNCHANGED <<mode, missing, live, wal, portal, stage, copies, record>> /\ run.step = "upstream"
  BY DEF StartUpstream, Does, unmoved, disk
<1>2. Starting
  BY <1>1 DEF Placed, Position, Starting
<1>3. Recoverable /\ stage = Index /\ copies # << >>
  BY <1>1, TrackedRecoverable DEF Serving, Directories, Tracked
<1>4. /\ ~Rebuild => upstream' = upstream
      /\ Rebuild => upstream' \in {upstream} \cup IF run.back THEN {"old", "down"} ELSE {"new"}
  BY DEF StartUpstream, Serving, Images
<1>5. \/ /\ Moved("portal", 1, run.phase, run.failed)
         /\ Rebuild => IF run.back THEN upstream' # "new" ELSE upstream' = "new"
      \/ Moved("back", 1, run.phase, TRUE) \/ Moved("end", run.at, run.phase, TRUE)
  BY GotoMoves, FailMoves DEF StartUpstream, Serving, Images, RestoreTypeOK, Steps
<1>6. portal = "up" => OneSide'
  BY <1>1, <1>2, <1>4, StartingSides, SidesKept, ModeKept, Originals
     DEF Serving, Answers, OneSide, RestoreTypeOK
<1>7. Logs'
  BY <1>1, <1>5, LogsKept DEF Serving, Moved
<1>8. Recoverable' /\ record # "none"
  BY <1>1, <1>3, RecoverableKept DEF Recoverable, Phases
<1>9. Answers'
  BY <1>1, <1>5, <1>6, <1>8, ModeKept DEF Serving, Answers, Moved, Answered, Silent, Early
<1>10. Images'
  BY <1>1, <1>5, ModeKept DEF Serving, Images, Moved
<1>11. Directories'
  BY <1>1, <1>3, <1>5, ModeKept DEF Directories, Moved, Tracked
<1> QED BY <1>7, <1>9, <1>10, <1>11 DEF Serving

LEMMA StartPortalServing == ASSUME RestoreTypeOK, Placed, Serving, StartPortal PROVE Serving'
<1>1. /\ UNCHANGED <<mode, missing, live, wal, upstream, stage, copies, record>> /\ run.step = "portal"
  BY DEF StartPortal, Does, unmoved, disk
<1>2. Starting
  BY <1>1 DEF Placed, Position, Starting
<1>3. Recoverable /\ stage = Index /\ copies # << >>
  BY <1>1, TrackedRecoverable DEF Serving, Directories, Tracked
<1>4. Rebuild => IF run.back THEN upstream # "new" ELSE upstream = "new"
  BY <1>1 DEF Serving, Images
<1>5. \/ portal' = "up" /\ Moved("healthy", 1, run.phase, run.failed)
      \/ /\ portal' \in {portal, "up"}
         /\ Moved("back", 1, run.phase, TRUE) \/ Moved("end", run.at, run.phase, TRUE)
  BY GotoMoves, FailMoves DEF StartPortal, RestoreTypeOK, Steps
<1>6. OneSide'
  BY <1>1, <1>2, <1>4, StartingSides, SideKept DEF OneSide
<1>7. Logs'
  BY <1>1, <1>5, LogsKept DEF Serving, Moved
<1>8. Recoverable' /\ record # "none"
  BY <1>1, <1>3, RecoverableKept DEF Recoverable, Phases
<1>9. Answers'
  BY <1>1, <1>5, <1>6, <1>8 DEF Answers, Moved, Answered, Silent, Early
<1>10. Images'
  BY <1>1, <1>5, ModeKept DEF Serving, Images, Moved
<1>11. Directories'
  BY <1>1, <1>3, <1>5, ModeKept DEF Directories, Moved, Tracked
<1> QED BY <1>7, <1>9, <1>10, <1>11 DEF Serving

\* A step of a tracked run that goes on to another one.
LEMMA TrackedServing ==
    ASSUME RestoreTypeOK, Placed, Serving, run.step \in Tracked,
           UNCHANGED <<mode, missing, live, wal, portal, upstream, record, stage, copies>>,
           NEW next \in {"committed", "report", "clean", "upstream", "end"}, NEW at, NEW failed,
           Moved(next, at, run.phase, failed),
           next \in {"committed", "report", "clean"} => portal = "up",
           next = "committed" => run.step = "healthy"
    PROVE  Serving'
<1>1. Recoverable /\ stage = Index /\ copies # << >>
  BY TrackedRecoverable DEF Serving, Directories
<1>2. Logs'
  BY LogsKept DEF Serving, Moved
<1>3. Recoverable' /\ record # "none"
  BY <1>1, RecoverableKept DEF Recoverable, Phases
<1>4. Answers'
  BY <1>3, SideKept DEF Serving, Answers, Moved, Answered, Silent, Early
<1>5. Images'
  BY SideKept DEF Serving, Images, Moved
<1>6. Directories'
  BY <1>1, SideKept DEF Directories, Moved, Tracked
<1> QED BY <1>2, <1>4, <1>5, <1>6 DEF Serving

LEMMA HealthyServing == ASSUME RestoreTypeOK, Placed, Serving, Healthy PROVE Serving'
<1>1. UNCHANGED <<mode, missing, live, wal, portal, upstream, record, stage, copies>> /\ run.step = "healthy"
  BY DEF Healthy, Does, unmoved, disk, services
<1>2. portal = "up"
  BY <1>1 DEF Serving, Answers, Answered
<1>3. \/ Moved("report", 1, run.phase, run.failed) \/ Moved("clean", 1, run.phase, run.failed)
      \/ Moved("committed", 1, run.phase, run.failed) \/ Fail
  BY GotoMoves DEF Healthy, RestoreTypeOK, Steps
<1> QED BY <1>1, <1>2, <1>3, TrackedServing, FailServing DEF Tracked

LEMMA MarkReadyServing == ASSUME RestoreTypeOK, Placed, Serving, MarkReady PROVE Serving'
<1>1. UNCHANGED <<mode, missing, live, wal, portal, upstream, record, stage, copies>> /\ run.step = "ready"
  BY DEF MarkReady, Does, unmoved, disk, services
<1>2. ~run.recovers => portal = "up"
  BY <1>1 DEF Serving, Answers, Job, Placed, Position
<1>3. \/ Moved("upstream", 1, run.phase, run.failed)
      \/ ~run.recovers /\ Moved("clean", 1, run.phase, run.failed)
      \/ Moved("end", run.at, run.phase, TRUE)
  BY GotoMoves, StepMoves DEF MarkReady, RestoreTypeOK, Steps
<1> QED BY <1>1, <1>2, <1>3, TrackedServing DEF Tracked

LEMMA RecoverReportServing == ASSUME RestoreTypeOK, Placed, Serving, RecoverReport PROVE Serving'
<1>1. UNCHANGED <<mode, missing, live, wal, portal, upstream, record, stage, copies>> /\ run.step = "report"
  BY DEF RecoverReport, Does, unmoved, disk, services
<1>2. portal = "up"
  BY <1>1 DEF Serving, Answers, Answered
<1>3. Moved("clean", 1, run.phase, run.failed) \/ Fail
  BY GotoMoves DEF RecoverReport, RestoreTypeOK, Steps
<1> QED BY <1>1, <1>2, <1>3, TrackedServing, FailServing DEF Tracked

LEMMA RollBackServing == ASSUME RestoreTypeOK, Placed, Serving, RollBack PROVE Serving'
<1>1. UNCHANGED <<mode, missing, live, wal, portal, upstream, record, stage, copies>> /\ run.step = "back"
  BY DEF RollBack, Does, unmoved, disk, services
<1>2. Recoverable /\ stage = Index /\ copies # << >>
  BY <1>1, TrackedRecoverable DEF Serving, Directories, Tracked
<1>3. /\ run'.step \in {"back.stop", "upstream"} /\ run'.back
      /\ run'.images = "old" /\ run'.remove = (Rebuild /\ missing)
  BY <1>2, RollBackMoves DEF RestoreTypeOK
<1>4. Logs'
  BY <1>1, <1>3, LogsKept DEF Serving
<1>5. Recoverable' /\ record # "none"
  BY <1>1, <1>2, RecoverableKept DEF Recoverable, Phases
<1>6. Answers'
  BY <1>1, <1>3, <1>5, SideKept DEF Serving, Answers, Answered, Silent, Early, Job
<1>7. Images'
  BY <1>1, <1>3, SideKept DEF Images
<1>8. Directories'
  BY <1>1, <1>2, <1>3, SideKept DEF Directories, Tracked
<1> QED BY <1>4, <1>6, <1>7, <1>8 DEF Serving

LEMMA RecoverServing == ASSUME RestoreTypeOK, Placed, Serving, Recover PROVE Serving'
<1>1. UNCHANGED <<mode, missing, live, wal, portal, upstream, record, stage, copies>> /\ run.step = "recover"
  BY DEF Recover, Does, unmoved, disk, services
<1>2. run.recovers /\ ~run.back
  BY <1>1 DEF Placed, Position
<1>3. CASE Fail
  BY <1>1, <1>3, FailServing
<1>4. CASE /\ Recoverable /\ run'.step = IF record = "committed" THEN "ready" ELSE "back"
           /\ run'.back = run.back /\ run'.recovers = run.recovers /\ run'.images = "new" /\ ~run'.remove
  <2>1. Logs'
    BY <1>1, <1>4, LogsKept DEF Serving
  <2>2. Recoverable' /\ record # "none"
    BY <1>1, <1>4, RecoverableKept DEF Recoverable, Phases
  <2>3. Answers'
    BY <1>1, <1>2, <1>4, <2>2, SideKept DEF Serving, Answers, Answered, Silent, Early, Job
  <2>4. Images'
    BY <1>1, <1>2, <1>4, SideKept DEF Images
  <2>5. Directories'
    BY <1>1, <1>4, SideKept DEF Directories, Tracked, Recoverable
  <2> QED BY <2>1, <2>3, <2>4, <2>5 DEF Serving
<1> QED BY <1>3, <1>4, RecoverMoves DEF RestoreTypeOK

LEMMA CleanStagesServing == ASSUME RestoreTypeOK, Placed, Serving, CleanStages PROVE Serving'
<1>1. UNCHANGED <<mode, missing, live, wal, portal, upstream, record>> /\ run.step = "clean"
  BY DEF CleanStages, Does, unmoved, services
<1>2. portal = "up"
  BY <1>1 DEF Serving, Answers, Answered
<1>3. Moved("drop", 1, run.phase, run.failed)
  BY GotoMoves DEF CleanStages, RestoreTypeOK, Steps
<1>4. Logs'
  BY <1>1, <1>3, LogsKept DEF Serving, Moved
<1>5. Answers'
  BY <1>1, <1>2, <1>3, SideKept DEF Serving, Answers, Moved, Answered, Silent, Early
<1>6. Images'
  BY <1>1, <1>3, SideKept DEF Serving, Images, Moved
<1>7. Directories'
  BY <1>1, <1>3 DEF Directories, Moved, Tracked
<1> QED BY <1>4, <1>5, <1>6, <1>7 DEF Serving

LEMMA DropTransactionServing == ASSUME RestoreTypeOK, Placed, Serving, DropTransaction PROVE Serving'
<1>1. UNCHANGED <<mode, missing, live, wal, portal, upstream>> /\ run.step = "drop"
  BY DEF DropTransaction, Does, unmoved, services
<1>2. portal = "up"
  BY <1>1 DEF Serving, Answers, Answered
<1>3. Moved("end", 1, run.phase, run.failed) \/ UNCHANGED run
  BY GotoMoves DEF DropTransaction, RestoreTypeOK, Steps
<1>4. Logs'
  BY <1>1, <1>3, LogsKept DEF Serving, Moved
<1>5. Answers'
  BY <1>1, <1>2, <1>3, SideKept DEF Serving, Answers, Moved, Answered, Silent, Early
<1>6. Images'
  BY <1>1, <1>3, SideKept DEF Serving, Images, Moved
<1>7. Directories'
  BY <1>1, <1>3 DEF Directories, Moved, Tracked
<1> QED BY <1>4, <1>5, <1>6, <1>7 DEF Serving

\* Outside a tracked run a step that leaves the files and the services alone.
LEMMA OutsideServing ==
    ASSUME RestoreTypeOK, Placed, Serving, run'.step \in {"idle", "install", "tasks", "recover", "request"},
           UNCHANGED <<mode, missing, live, wal, portal, upstream, record, stage, copies>>,
           SameRun \/ (~run'.back /\ run'.images = "new" /\ ~run'.remove),
           run'.step = "request" => record = "none"
    PROVE  Serving'
<1>1. Logs'
  BY LogsKept DEF Serving
<1>2. Answers'
  BY SideKept, RecoverableKept DEF Serving, Answers, Answered, Silent, Early
<1>3. Images'
  BY SideKept DEF Serving, Images, SameRun
<1>4. Directories'
  BY DEF Directories, Tracked
<1> QED BY <1>1, <1>2, <1>3, <1>4 DEF Serving

\* So do the steps after the transaction, and a crash.
LEMMA EndServing ==
    ASSUME RestoreTypeOK, Placed, Serving,
           EndJob \/ InstallHost \/ InstallTasks \/ Crash
    PROVE  Serving'
<1>1. UNCHANGED <<mode, missing, live, wal, portal, upstream, record, stage, copies>>
  BY DEF EndJob, InstallHost, InstallTasks, Crash, unmoved, disk, services
<1>2. Goto("install") \/ Goto("tasks") \/ run' = Idle
  BY DEF EndJob, InstallHost, InstallTasks, Crash
<1>3. /\ run'.step \in {"idle", "install", "tasks"}
      /\ SameRun \/ (~run'.back /\ run'.images = "new" /\ ~run'.remove)
  BY <1>2, GotoMoves, IdleTypes DEF Moved, SameRun, RestoreTypeOK, Steps
<1> QED BY <1>1, <1>3, OutsideServing

\* So does a tick that starts something.
LEMMA TickServing == ASSUME RestoreTypeOK, Placed, Serving, Ticks PROVE Serving'
<1>1. UNCHANGED <<mode, missing, live, wal, portal, upstream, record, stage, copies>>
  BY DEF Ticks, StartRestore, StartRecovery, StartHost, unmoved, disk, services
<1>2. \/ record = "none" /\ Goto("request")
      \/ Goto("install")
      \/ run' = [Idle EXCEPT !.step = "recover", !.recovers = TRUE]
  BY DEF Ticks, StartRestore, StartRecovery, StartHost
<1>3. ASSUME NEW s \in {"request", "install"}, Goto(s) PROVE run'.step = s /\ SameRun
  BY <1>3, GotoMoves DEF Moved, SameRun, RestoreTypeOK, Steps
<1>4. ASSUME run' = [Idle EXCEPT !.step = "recover", !.recovers = TRUE]
      PROVE  run'.step = "recover" /\ ~run'.back /\ run'.images = "new" /\ ~run'.remove
  BY <1>4, IdleTypes DEF RestoreTypeOK, Runs
<1> QED BY <1>1, <1>2, <1>3, <1>4, OutsideServing

\* Only the first target of a job that replaces the database alone is one.
LEMMA OneDatabase ==
    ASSUME mode \in Modes, NEW i \in Databases, ~Rebuild
    PROVE  i = 1
BY RestoreAssumption DEF RestoreAssumption, Databases, Rebuild, Modes, Index, Target

LEMMA ServiceWritesServing == ASSUME RestoreTypeOK, Placed, Serving, ServiceWrites PROVE Serving'
<1>1. UNCHANGED <<mode, missing, live, portal, upstream, record, stage, copies, run>>
  BY DEF ServiceWrites, unmoved, services
<1>2. PICK i \in Databases : Open(i) /\ live[i] # "none" /\ wal[i] = "none" /\ wal' = [wal EXCEPT ![i] = live[i]]
  BY DEF ServiceWrites
<1>3. run.step \notin Silent
  BY <1>2, OneDatabase DEF Open, Serving, Answers, RestoreTypeOK
<1>4. \A j \in Databases : wal'[j] \in {"none", live[j]}
  BY <1>2 DEF Serving, Logs, Databases, RestoreTypeOK
<1>5. Logs'
  BY <1>1, <1>3, <1>4, ModeKept DEF Logs, Silent
<1>6. Answers' /\ Images' /\ Directories'
  <2>1. Answers'
    BY <1>1, SideKept, RecoverableKept DEF Serving, Answers, Job
  <2>2. Images'
    BY <1>1, SideKept DEF Serving, Images
  <2>3. Directories'
    BY <1>1, SideKept DEF Serving, Directories
  <2> QED BY <2>1, <2>2, <2>3
<1> QED BY <1>5, <1>6 DEF Serving

\* So do the operator and a stutter.
LEMMA StillServing ==
    ASSUME RestoreTypeOK, Serving, RemoveStaleLock \/ UNCHANGED restoreVars
    PROVE  Serving'
<1>1. UNCHANGED <<mode, missing, live, wal, portal, upstream, record, stage, copies, run>>
  BY DEF RemoveStaleLock, restoreVars, unmoved, disk, services
<1>2. Logs'
  BY <1>1, LogsKept DEF Serving
<1>3. Answers'
  BY <1>1, SideKept, RecoverableKept DEF Serving, Answers, Job
<1>4. Images'
  BY <1>1, SideKept DEF Serving, Images
<1>5. Directories'
  BY <1>1, SideKept DEF Serving, Directories
<1> QED BY <1>2, <1>3, <1>4, <1>5 DEF Serving

\* So does the writing of any record.
LEMMA RecordsServing ==
    ASSUME DurableRecords, RestoreTypeOK, Placed, Serving, Records
    PROVE  Serving'
<1>1. CASE RecordPreparing
  BY <1>1, RecordPreparingServing
<1>2. CASE RecordStopping \/ RecordSwitching \/ RecordStarting \/ RecordCommitted \/ RecordRolledBack
  <2>1. /\ "stopping" \in Phases \cap Tracked /\ "switching" \in Phases \cap Tracked
        /\ "starting" \in Phases \cap Tracked /\ "committed" \in Phases \cap Tracked
        /\ "rolled-back" \in Phases \cap Tracked
    BY DEF Phases, Tracked
  <2>2. CASE Record("stopping", "stop")
    BY <2>1, <2>2, RecordServing
  <2>3. CASE Record("switching", "aside")
    BY <2>1, <2>3, RecordServing
  <2>4. CASE Record("starting", "upstream")
    BY <2>1, <2>4, RecordServing
  <2>5. CASE Record("committed", "ready")
    BY <2>1, <2>5, RecordServing
  <2>6. CASE Record("rolled-back", "upstream")
    BY <2>1, <2>6, RecordServing
  <2> QED BY <1>2, <2>2, <2>3, <2>4, <2>5, <2>6
          DEF RecordStopping, RecordSwitching, RecordStarting, RecordCommitted, RecordRolledBack
<1> QED BY <1>1, <1>2 DEF Records

\* Every step leaves the portal with one side, or down.
LEMMA ServingStep ==
    ASSUME DurableRecords, RestoreTypeOK, Placed, Serving, [RestoreNext]_restoreVars
    PROVE  Serving'
<1>1. CASE Inspects
  BY <1>1, Inspections, CheckServing
<1>2. CASE Records
  BY <1>2, RecordsServing
<1>3. CASE Stop \/ StopAgain
  BY <1>3, StopServing DEF Stop, StopAgain, Does
<1>4. CASE \/ Bootstrap \/ PrepareHost \/ MakeTransaction \/ StageTarget \/ CheckCandidate
           \/ Snapshot \/ MoveAside \/ MoveIn \/ StartUpstream \/ StartPortal \/ Healthy
           \/ MarkReady \/ RollBack \/ MoveAsideAgain \/ MoveBack \/ Recover \/ RecoverReport
           \/ CleanStages \/ DropTransaction
  BY <1>4, BootstrapServing, PrepareHostServing, MakeTransactionServing, StageTargetServing,
     CheckCandidateServing, SnapshotServing, MoveAsideServing, MoveInServing, StartUpstreamServing,
     StartPortalServing, HealthyServing, MarkReadyServing, RollBackServing, MoveAsideAgainServing,
     MoveBackServing, RecoverServing, RecoverReportServing, CleanStagesServing, DropTransactionServing
<1>5. CASE EndJob \/ InstallHost \/ InstallTasks \/ Crash \/ Ticks
  BY <1>5, EndServing, TickServing
<1>6. CASE ServiceWrites \/ RemoveStaleLock \/ UNCHANGED restoreVars
  BY <1>6, ServiceWritesServing, StillServing
<1> QED BY <1>1, <1>2, <1>3, <1>4, <1>5, <1>6 DEF RestoreNext, RunnerStep, Inspects, Records

\* At first the portal serves the old side.
LEMMA InitServing == ASSUME RestoreInit PROVE Serving
<1>1. mode \in Modes /\ run = Idle /\ AllOriginal /\ record = "none" /\ portal = "up" /\ upstream # "new"
  BY DEF RestoreInit, AllOriginal
<1>2. Logs
  BY <1>1, IdleTypes DEF RestoreInit, Logs, Databases
<1>3. Answers
  BY <1>1, IdleTypes DEF Answers, OneSide, Silent, Answered
<1>4. Images
  BY <1>1, IdleTypes DEF Images
<1>5. Directories
  BY <1>1, IdleTypes DEF Directories, Tracked
<1> QED BY <1>2, <1>3, <1>4, <1>5 DEF Serving

-----------------------------------------------------------------------------
(* The verdict: what is known of the backup, and what is said of the data. *)

\* A check passes the backup on or ends the job; the order of the checks is
\* that of the steps before the transaction.
Ordered(step, found, next) ==
    /\ next \in Planned => step \in Planned \/ ~(Rebuild /\ AutoHost)
    /\ \A d \in Defects(mode) \ {found} : Meets(d, step) => Meets(d, next)

Checks == \E step \in Early, next \in Early : \E found : Check(step, found, next) /\ Ordered(step, found, next)

\* The inspections come in their order.
LEMMA InOrder == ASSUME mode \in Modes, Inspects PROVE Checks
<1>1. ASSUME CheckRequest PROVE Checks
  <2>1. Check("request", "request", "policy") /\ Ordered("request", "request", "policy")
    BY <1>1 DEF CheckRequest, Ordered, Meets, Early, Planned
  <2> QED BY <2>1 DEF Checks, Early
<1>2. ASSUME CheckPolicy PROVE Checks
  <2>1. Check("policy", "none such", "decrypt") /\ Ordered("policy", "none such", "decrypt")
    BY <1>2 DEF CheckPolicy, Ordered, Meets, Early, Planned
  <2> QED BY <2>1 DEF Checks, Early
<1>3. ASSUME Decrypt PROVE Checks
  <2>1. CASE Rebuild
    <3>1. Check("decrypt", "archive", "bootstrap") /\ Ordered("decrypt", "archive", "bootstrap")
      BY <1>3, <2>1 DEF Decrypt, Ordered, Meets, Early, Planned
    <3> QED BY <3>1 DEF Checks, Early
  <2>2. CASE ~Rebuild
    <3>1. Check("decrypt", "archive", "verify") /\ Ordered("decrypt", "archive", "verify")
      BY <1>3, <2>2 DEF Decrypt, Ordered, Meets, Early, Planned, Defects, Rebuild
    <3> QED BY <3>1 DEF Checks, Early
  <2> QED BY <2>1, <2>2
<1>4. ASSUME ApproveDeployment PROVE Checks
  <2>1. Check("deployment", "deployment", "content") /\ Ordered("deployment", "deployment", "content")
    BY <1>4 DEF ApproveDeployment, Ordered, Meets, Early, Planned
  <2> QED BY <2>1 DEF Checks, Early
<1>5. ASSUME ApproveContent PROVE Checks
  <2>1. Check("content", "content", "pull") /\ Ordered("content", "content", "pull")
    BY <1>5 DEF ApproveContent, Ordered, Meets, Early, Planned
  <2> QED BY <2>1 DEF Checks, Early
<1>6. ASSUME PullImages PROVE Checks
  <2>1. Check("pull", "none such", "volume") /\ Ordered("pull", "none such", "volume")
    BY <1>6 DEF PullImages, Ordered, Meets, Early, Planned
  <2> QED BY <2>1 DEF Checks, Early
<1>7. ASSUME EnsureVolume PROVE Checks
  <2>1. CASE AutoHost
    <3>1. Check("volume", "none such", "plan") /\ Ordered("volume", "none such", "plan")
      BY <1>7, <2>1 DEF EnsureVolume, Ordered, Meets, Early, Planned
    <3> QED BY <3>1 DEF Checks, Early
  <2>2. CASE ~AutoHost
    <3>1. Check("volume", "none such", "verify") /\ Ordered("volume", "none such", "verify")
      BY <1>7, <2>2 DEF EnsureVolume, Ordered, Meets, Early, Planned
    <3> QED BY <3>1 DEF Checks, Early
  <2> QED BY <2>1, <2>2
<1>8. ASSUME VerifyServices PROVE Checks
  <2>1. CASE Rebuild
    <3>1. Check("verify", "none such", "manager") /\ Ordered("verify", "none such", "manager")
      BY <1>8, <2>1 DEF VerifyServices, Ordered, Meets, Early, Planned
    <3> QED BY <3>1 DEF Checks, Early
  <2>2. CASE ~Rebuild
    <3>1. Check("verify", "none such", "settings") /\ Ordered("verify", "none such", "settings")
      BY <1>8, <2>2 DEF VerifyServices, Ordered, Meets, Early, Planned, Defects, Rebuild
    <3> QED BY <3>1 DEF Checks, Early
  <2> QED BY <2>1, <2>2
<1>9. ASSUME VerifyManager PROVE Checks
  <2>1. Check("manager", "manager", "settings") /\ Ordered("manager", "manager", "settings")
    BY <1>9 DEF VerifyManager, Ordered, Meets, Early, Planned
  <2> QED BY <2>1 DEF Checks, Early
<1>10. ASSUME VerifySettings PROVE Checks
  <2>1. Check("settings", "settings", "credentials") /\ Ordered("settings", "settings", "credentials")
    BY <1>10 DEF VerifySettings, Ordered, Meets, Early, Planned
  <2> QED BY <2>1 DEF Checks, Early
<1>11. ASSUME PrepareCredentials PROVE Checks
  <2>1. Check("credentials", "credentials", "space") /\ Ordered("credentials", "credentials", "space")
    BY <1>11 DEF PrepareCredentials, Ordered, Meets, Early, Planned
  <2> QED BY <2>1 DEF Checks, Early
<1>12. ASSUME CheckSpace \/ OriginalDeployment PROVE Checks
  <2>1. PICK step \in {"space", "original"}, next \in {"original", "mkdir"} : Check(step, "none such", next)
    BY <1>12 DEF CheckSpace, OriginalDeployment
  <2>2. Ordered(step, "none such", next)
    BY DEF Ordered, Meets, Early, Planned
  <2> QED BY <2>1, <2>2 DEF Checks, Early
<1> QED BY <1>1, <1>2, <1>3, <1>4, <1>5, <1>6, <1>7, <1>8, <1>9, <1>10, <1>11, <1>12 DEF Inspects

\* A backup without a defect stays one.
LEMMA SoundKept ==
    ASSUME Diagnosed, defect = "none", UNCHANGED <<mode, defect>>
    PROVE  Diagnosed'
BY ModeKept DEF Diagnosed, Meets, Defects

\* From here on, one action at a time: what is known of the backup and what is said of
\* the outcome remain true.
LEMMA RecordPreparingVerdict == ASSUME DurableRecords, RestoreTypeOK, Placed, Verdict, RecordPreparing PROVE Verdict'
<1>1. UNCHANGED <<mode, defect, live, plan, report>> /\ run.step = "preparing"
  BY RecordMoves DEF RecordPreparing, Steps, Phases
<1>2. defect = "none" /\ Job /\ record = "unreadable" /\ AllOriginal
  BY <1>1 DEF Placed, Position, Job, Verdict, Diagnosed, Meets, Early
<1>3. \/ record' = "preparing" /\ Moved("stopping", 1, "preparing", run.failed)
      \/ record' \in {record, "preparing"} /\ Moved("clean", run.at, run.phase, TRUE)
  BY <1>1, <1>2, RecordMoves DEF RecordPreparing, Steps, Phases
<1>4. Diagnosed'
  BY <1>1, <1>2, SoundKept DEF Verdict
<1>5. Reported'
  BY <1>1, <1>2, <1>3, SidesKept DEF Verdict, Reported, Outcome, Job, Moved
<1>6. Outcome'
  BY <1>1, <1>2, <1>3, SidesKept DEF Verdict, Outcome, Job, Moved
<1>7. Planning'
  BY <1>1, <1>2, <1>3, SidesKept, ModeKept DEF Verdict, Planning, Planned, Outcome, Job, Moved
<1> QED BY <1>4, <1>5, <1>6, <1>7 DEF Verdict

LEMMA RecordStoppingVerdict == ASSUME DurableRecords, RestoreTypeOK, Placed, Verdict, RecordStopping PROVE Verdict'
<1>1. UNCHANGED <<mode, defect, live, plan, report>> /\ run.step = "stopping"
  BY RecordMoves DEF RecordStopping, Steps, Phases
<1>2. defect = "none" /\ Job /\ record = "preparing" /\ AllOriginal
  BY <1>1 DEF Placed, Position, Recorded, Job, Verdict, Diagnosed, Meets, Early
<1>3. \/ record' = "stopping" /\ Moved("stop", 1, "stopping", run.failed)
      \/ record' \in {record, "stopping"} /\ Moved("clean", run.at, "stopping", TRUE)
  BY <1>1, <1>2, RecordMoves DEF RecordStopping, Steps, Phases
<1>4. Diagnosed'
  BY <1>1, <1>2, SoundKept DEF Verdict
<1>5. Reported'
  BY <1>1, <1>2, <1>3, SidesKept DEF Verdict, Reported, Outcome, Job, Moved
<1>6. Outcome'
  BY <1>1, <1>2, <1>3, SidesKept DEF Verdict, Outcome, Job, Moved
<1>7. Planning'
  BY <1>1, <1>2, <1>3, SidesKept, ModeKept DEF Verdict, Planning, Planned, Outcome, Job, Moved
<1> QED BY <1>4, <1>5, <1>6, <1>7 DEF Verdict

LEMMA StopVerdict == ASSUME RestoreTypeOK, Placed, Verdict, Stop PROVE Verdict'
<1>1. UNCHANGED <<mode, defect, record, live, plan, report>> /\ run.step = "stop"
  BY DEF Stop, Does, unmoved, disk, host, services, StopServices
<1>2. defect = "none" /\ Job /\ record = "stopping"
  BY <1>1 DEF Placed, Position, Job, Verdict, Diagnosed, Meets, Early
<1>3. Moved("snapshot", 1, run.phase, run.failed) \/ Moved("back", 1, run.phase, TRUE)
  BY <1>1, <1>2, GotoMoves, FailMoves DEF Stop, StopServices, RestoreTypeOK, Steps, Job
<1>4. Diagnosed'
  BY <1>1, <1>2, SoundKept DEF Verdict
<1>5. Reported'
  BY <1>1, <1>2, <1>3, SidesKept DEF Verdict, Reported, Outcome, Job, Moved
<1>6. Outcome'
  BY <1>1, <1>2, <1>3, SidesKept DEF Verdict, Outcome, Job, Moved
<1>7. Planning'
  BY <1>1, <1>2, <1>3, SidesKept, ModeKept DEF Verdict, Planning, Planned, Outcome, Job, Moved
<1> QED BY <1>4, <1>5, <1>6, <1>7 DEF Verdict

LEMMA SnapshotVerdict == ASSUME RestoreTypeOK, Placed, Verdict, Snapshot PROVE Verdict'
<1>1. UNCHANGED <<mode, defect, record, live, plan, report>> /\ run.step = "snapshot"
  BY DEF Snapshot, Does, unmoved, disk, host, services
<1>2. defect = "none" /\ Job /\ record = "stopping"
  BY <1>1 DEF Placed, Position, Job, Verdict, Diagnosed, Meets, Early
<1>3. \/ Moved("snapshot", run.at + 1, run.phase, run.failed) \/ Moved("switching", 1, run.phase, run.failed)
      \/ Moved("back", 1, run.phase, TRUE)
  BY <1>1, <1>2, LoopMoves, FailMoves DEF Snapshot, RestoreTypeOK, Steps, Job
<1>4. Diagnosed'
  BY <1>1, <1>2, SoundKept DEF Verdict
<1>5. Reported'
  BY <1>1, <1>2, <1>3, SidesKept DEF Verdict, Reported, Outcome, Job, Moved
<1>6. Outcome'
  BY <1>1, <1>2, <1>3, SidesKept DEF Verdict, Outcome, Job, Moved
<1>7. Planning'
  BY <1>1, <1>2, <1>3, SidesKept, ModeKept DEF Verdict, Planning, Planned, Outcome, Job, Moved
<1> QED BY <1>4, <1>5, <1>6, <1>7 DEF Verdict

LEMMA RecordSwitchingVerdict == ASSUME DurableRecords, RestoreTypeOK, Placed, Verdict, RecordSwitching PROVE Verdict'
<1>1. UNCHANGED <<mode, defect, live, plan, report>> /\ run.step = "switching"
  BY RecordMoves DEF RecordSwitching, Steps, Phases
<1>2. defect = "none" /\ Job /\ record = "stopping"
  BY <1>1 DEF Placed, Position, Job, Verdict, Diagnosed, Meets, Early
<1>3. record' = "switching" /\ Moved("aside", 1, "switching", run.failed)
  BY <1>1, <1>2, RecordMoves DEF RecordSwitching, Steps, Phases
<1>4. Diagnosed'
  BY <1>1, <1>2, SoundKept DEF Verdict
<1>5. Reported'
  BY <1>1, <1>2, <1>3, SidesKept DEF Verdict, Reported, Outcome, Job, Moved
<1>6. Outcome'
  BY <1>1, <1>2, <1>3, SidesKept DEF Verdict, Outcome, Job, Moved
<1>7. Planning'
  BY <1>1, <1>2, <1>3, SidesKept, ModeKept DEF Verdict, Planning, Planned, Outcome, Job, Moved
<1> QED BY <1>4, <1>5, <1>6, <1>7 DEF Verdict

LEMMA MoveAsideVerdict == ASSUME RestoreTypeOK, Placed, Verdict, MoveAside PROVE Verdict'
<1>1. UNCHANGED <<mode, defect, record, plan, report>> /\ run.step = "aside"
  BY DEF MoveAside, Does, unmoved, disk, host, services
<1>2. defect = "none" /\ Job /\ record = "switching"
  BY <1>1 DEF Placed, Position, Job, Verdict, Diagnosed, Meets, Early
<1>3. Moved("in", run.at, run.phase, run.failed) \/ Moved("back", 1, run.phase, TRUE)
  BY <1>1, <1>2, StepMoves, FailMoves DEF MoveAside, RestoreTypeOK, Steps, Job
<1>4. Diagnosed'
  BY <1>1, <1>2, SoundKept DEF Verdict
<1>5. Reported'
  BY <1>1, <1>2, <1>3 DEF Verdict, Reported, Outcome, Job, Moved
<1>6. Outcome'
  BY <1>1, <1>2, <1>3 DEF Verdict, Outcome, Job, Moved
<1>7. Planning'
  BY <1>1, <1>2, <1>3, ModeKept DEF Verdict, Planning, Planned, Outcome, Job, Moved
<1> QED BY <1>4, <1>5, <1>6, <1>7 DEF Verdict

LEMMA MoveInVerdict == ASSUME RestoreTypeOK, Placed, Verdict, MoveIn PROVE Verdict'
<1>1. UNCHANGED <<mode, defect, record, plan, report>> /\ run.step = "in"
  BY DEF MoveIn, Does, unmoved, disk, host, services
<1>2. defect = "none" /\ Job /\ record = "switching"
  BY <1>1 DEF Placed, Position, Job, Verdict, Diagnosed, Meets, Early
<1>3. \/ Moved("aside", run.at + 1, run.phase, run.failed) \/ Moved("starting", 1, run.phase, run.failed)
      \/ Moved("back", 1, run.phase, TRUE)
  BY ZenonT(60), <1>1, <1>2, LoopMoves, FailMoves DEF MoveIn, RestoreTypeOK, Steps, Job
<1>4. Diagnosed'
  BY <1>1, <1>2, SoundKept DEF Verdict
<1>5. Reported'
  BY <1>1, <1>2, <1>3 DEF Verdict, Reported, Outcome, Job, Moved
<1>6. Outcome'
  BY <1>1, <1>2, <1>3 DEF Verdict, Outcome, Job, Moved
<1>7. Planning'
  BY <1>1, <1>2, <1>3, ModeKept DEF Verdict, Planning, Planned, Outcome, Job, Moved
<1> QED BY <1>4, <1>5, <1>6, <1>7 DEF Verdict

LEMMA RecordStartingVerdict == ASSUME DurableRecords, RestoreTypeOK, Placed, Verdict, RecordStarting PROVE Verdict'
<1>1. UNCHANGED <<mode, defect, live, plan, report>> /\ run.step = "starting"
  BY RecordMoves DEF RecordStarting, Steps, Phases
<1>2. defect = "none" /\ Job /\ record = "switching"
  BY <1>1 DEF Placed, Position, Job, Verdict, Diagnosed, Meets, Early
<1>3. \/ record' = "starting" /\ Moved("upstream", 1, "starting", run.failed)
      \/ record' \in {record, "starting"} /\ Moved("back", run.at, "starting", TRUE)
  BY <1>1, <1>2, RecordMoves DEF RecordStarting, Steps, Phases
<1>4. Diagnosed'
  BY <1>1, <1>2, SoundKept DEF Verdict
<1>5. Reported'
  BY <1>1, <1>2, <1>3, SidesKept DEF Verdict, Reported, Outcome, Job, Moved
<1>6. Outcome'
  BY <1>1, <1>2, <1>3, SidesKept DEF Verdict, Outcome, Job, Moved
<1>7. Planning'
  BY <1>1, <1>2, <1>3, SidesKept, ModeKept DEF Verdict, Planning, Planned, Outcome, Job, Moved
<1> QED BY <1>4, <1>5, <1>6, <1>7 DEF Verdict

LEMMA StartUpstreamVerdict == ASSUME RestoreTypeOK, Placed, Verdict, StartUpstream PROVE Verdict'
<1>1. UNCHANGED <<mode, defect, record, live, plan, report>> /\ run.step = "upstream"
  BY DEF StartUpstream, Does, unmoved, disk, host, services
<1>2. defect = "none" /\ Starting
  BY <1>1 DEF Placed, Position, Starting, Job, Verdict, Diagnosed, Meets, Early
<1>3. \/ Moved("portal", 1, run.phase, run.failed)
      \/ Job /\ Moved("back", 1, run.phase, TRUE)
      \/ ~Job /\ Moved("end", run.at, run.phase, TRUE)
  BY <1>1, <1>2, GotoMoves, FailMoves DEF StartUpstream, RestoreTypeOK, Steps, Job
<1>4. Diagnosed'
  BY <1>1, <1>2, SoundKept DEF Verdict
<1>5. Reported'
  BY <1>1, <1>2, <1>3, SidesKept DEF Verdict, Reported, Outcome, Job, Moved
<1>6. Outcome'
  BY <1>1, <1>2, <1>3, SidesKept DEF Verdict, Outcome, Job, Moved, Starting
<1>7. Planning'
  BY <1>1, <1>2, <1>3, SidesKept, ModeKept DEF Verdict, Planning, Planned, Outcome, Job, Moved, Starting
<1> QED BY <1>4, <1>5, <1>6, <1>7 DEF Verdict

LEMMA StartPortalVerdict == ASSUME RestoreTypeOK, Placed, Verdict, StartPortal PROVE Verdict'
<1>1. UNCHANGED <<mode, defect, record, live, plan, report>> /\ run.step = "portal"
  BY DEF StartPortal, Does, unmoved, disk, host, services
<1>2. defect = "none" /\ Starting
  BY <1>1 DEF Placed, Position, Starting, Job, Verdict, Diagnosed, Meets, Early
<1>3. \/ Moved("healthy", 1, run.phase, run.failed)
      \/ Job /\ Moved("back", 1, run.phase, TRUE)
      \/ ~Job /\ Moved("end", run.at, run.phase, TRUE)
  BY <1>1, <1>2, GotoMoves, FailMoves DEF StartPortal, RestoreTypeOK, Steps, Job
<1>4. Diagnosed'
  BY <1>1, <1>2, SoundKept DEF Verdict
<1>5. Reported'
  BY <1>1, <1>2, <1>3, SidesKept DEF Verdict, Reported, Outcome, Job, Moved
<1>6. Outcome'
  BY <1>1, <1>2, <1>3, SidesKept DEF Verdict, Outcome, Job, Moved, Starting
<1>7. Planning'
  BY <1>1, <1>2, <1>3, SidesKept, ModeKept DEF Verdict, Planning, Planned, Outcome, Job, Moved, Starting
<1> QED BY <1>4, <1>5, <1>6, <1>7 DEF Verdict

LEMMA HealthyVerdict == ASSUME RestoreTypeOK, Placed, Verdict, Healthy PROVE Verdict'
<1>1. UNCHANGED <<mode, defect, record, live, plan, report>> /\ run.step = "healthy"
  BY DEF Healthy, Does, unmoved, disk, host, services
<1>2. defect = "none" /\ Starting /\ (run.back => AllOriginal)
  BY <1>1 DEF Placed, Position, Recorded, Starting, Job, Verdict, Diagnosed, Meets, Early
<1>3. \/ run.recovers /\ Moved("report", 1, run.phase, run.failed)
      \/ ~run.recovers /\ run.back /\ Moved("clean", 1, run.phase, run.failed)
      \/ Job /\ Moved("committed", 1, run.phase, run.failed)
      \/ Job /\ Moved("back", 1, run.phase, TRUE)
      \/ ~Job /\ Moved("end", run.at, run.phase, TRUE)
  BY <1>1, <1>2, GotoMoves, FailMoves DEF Healthy, RestoreTypeOK, Steps, Job
<1>4. Diagnosed'
  BY <1>1, <1>2, SoundKept DEF Verdict
<1>5. Reported'
  BY <1>1, <1>2, <1>3, SidesKept DEF Verdict, Reported, Outcome, Job, Moved
<1>6. Outcome'
  BY <1>1, <1>2, <1>3, SidesKept DEF Verdict, Outcome, Job, Moved, Starting
<1>7. Planning'
  BY <1>1, <1>2, <1>3, SidesKept, ModeKept DEF Verdict, Planning, Planned, Outcome, Job, Moved, Starting
<1> QED BY <1>4, <1>5, <1>6, <1>7 DEF Verdict

LEMMA RecordCommittedVerdict == ASSUME DurableRecords, RestoreTypeOK, Placed, Verdict, RecordCommitted PROVE Verdict'
<1>1. UNCHANGED <<mode, defect, live, plan, report>> /\ run.step = "committed"
  BY RecordMoves DEF RecordCommitted, Steps, Phases
<1>2. defect = "none" /\ Job /\ record = "starting" /\ AllNew
  BY <1>1 DEF Placed, Position, Job, Verdict, Diagnosed, Meets, Early
<1>3. record' = "committed" /\ Moved("ready", 1, "committed", run.failed)
  BY <1>1, <1>2, RecordMoves DEF RecordCommitted, Steps, Phases
<1>4. Diagnosed'
  BY <1>1, <1>2, SoundKept DEF Verdict
<1>5. Reported'
  BY <1>1, <1>2, <1>3, SidesKept DEF Verdict, Reported, Outcome, Job, Moved
<1>6. Outcome'
  BY <1>1, <1>2, <1>3, SidesKept DEF Verdict, Outcome, Job, Moved
<1>7. Planning'
  BY <1>1, <1>2, <1>3, SidesKept, ModeKept DEF Verdict, Planning, Planned, Outcome, Job, Moved
<1> QED BY <1>4, <1>5, <1>6, <1>7 DEF Verdict

LEMMA MarkReadyVerdict == ASSUME RestoreTypeOK, Placed, Verdict, MarkReady PROVE Verdict'
<1>1. UNCHANGED <<mode, defect, record, live, report>> /\ run.step = "ready"
  BY DEF MarkReady, Does, unmoved, disk, host, services
<1>2. defect = "none" /\ ~run.back /\ record = "committed" /\ AllNew
  BY <1>1 DEF Placed, Position, Recorded, Job, Verdict, Diagnosed, Meets, Early
<1>3. /\ plan' = "ready" \/ (plan # "waiting" /\ UNCHANGED plan) \/ (UNCHANGED plan /\ Moved("end", run.at, run.phase, TRUE))
      /\ \/ run.recovers /\ Moved("upstream", 1, run.phase, run.failed)
         \/ ~run.recovers /\ Moved("clean", 1, run.phase, run.failed)
         \/ Moved("end", run.at, run.phase, TRUE)
  BY <1>1, <1>2, GotoMoves, StepMoves DEF MarkReady, RestoreTypeOK, Steps
<1>4. Diagnosed'
  BY <1>1, <1>2, SoundKept DEF Verdict
<1>5. Reported'
  BY <1>1, <1>2, <1>3, SidesKept DEF Verdict, Reported, Outcome, Job, Moved
<1>6. Outcome'
  BY <1>1, <1>2, <1>3, SidesKept DEF Verdict, Outcome, Job, Moved
<1>7. Planning'
  BY <1>1, <1>2, <1>3, SidesKept, ModeKept DEF Verdict, Planning, Planned, Outcome, Job, Moved
<1> QED BY <1>4, <1>5, <1>6, <1>7 DEF Verdict

LEMMA RollBackVerdict == ASSUME RestoreTypeOK, Placed, Verdict, RollBack PROVE Verdict'
<1>1. UNCHANGED <<mode, defect, record, live, plan, report>> /\ run.step = "back"
  BY DEF RollBack, Does, unmoved, disk, host, services
<1>2. defect = "none" /\ record \in {"preparing", "stopping", "switching", "starting", "rolled-back"}
  BY <1>1 DEF Placed, Position, Job, Verdict, Diagnosed, Meets, Early
<1>3. \/ /\ run'.step \in {"back.stop", "upstream"} /\ run'.back
         /\ run'.recovers = run.recovers /\ run'.failed = run.failed
      \/ Moved("end", run.at, run.phase, TRUE)
  BY <1>1, <1>2, RollBackMoves, StepMoves DEF RollBack, RestoreTypeOK, Steps
<1>4. Diagnosed'
  BY <1>1, <1>2, SoundKept DEF Verdict
<1>5. Reported'
  BY <1>1, <1>2, <1>3, SidesKept DEF Verdict, Reported, Outcome, Job, Moved
<1>6. Outcome'
  BY <1>1, <1>2, <1>3, SidesKept DEF Verdict, Outcome, Job, Moved
<1>7. Planning'
  BY <1>1, <1>2, <1>3, SidesKept, ModeKept DEF Verdict, Planning, Planned, Outcome, Job, Moved
<1> QED BY <1>4, <1>5, <1>6, <1>7 DEF Verdict

LEMMA StopAgainVerdict == ASSUME RestoreTypeOK, Placed, Verdict, StopAgain PROVE Verdict'
<1>1. UNCHANGED <<mode, defect, record, live, plan, report>> /\ run.step = "back.stop"
  BY DEF StopAgain, Does, unmoved, disk, host, services, StopServices
<1>2. defect = "none" /\ run.back /\ record \in {"switching", "starting"}
  BY <1>1 DEF Placed, Position, Job, Verdict, Diagnosed, Meets, Early
<1>3. Moved("back.aside", 1, run.phase, run.failed) \/ Moved("end", run.at, run.phase, TRUE)
  BY <1>1, <1>2, GotoMoves, FailMoves DEF StopAgain, StopServices, RestoreTypeOK, Steps
<1>4. Diagnosed'
  BY <1>1, <1>2, SoundKept DEF Verdict
<1>5. Reported'
  BY <1>1, <1>2, <1>3, SidesKept DEF Verdict, Reported, Outcome, Job, Moved
<1>6. Outcome'
  BY <1>1, <1>2, <1>3, SidesKept DEF Verdict, Outcome, Job, Moved
<1>7. Planning'
  BY <1>1, <1>2, <1>3, SidesKept, ModeKept DEF Verdict, Planning, Planned, Outcome, Job, Moved
<1> QED BY <1>4, <1>5, <1>6, <1>7 DEF Verdict

LEMMA MoveAsideAgainVerdict == ASSUME RestoreTypeOK, Placed, Verdict, MoveAsideAgain PROVE Verdict'
<1>1. UNCHANGED <<mode, defect, record, plan, report>> /\ run.step = "back.aside"
  BY DEF MoveAsideAgain, Does, unmoved, disk, host, services
<1>2. defect = "none" /\ run.back /\ record \in {"switching", "starting"}
  BY <1>1 DEF Placed, Position, Job, Verdict, Diagnosed, Meets, Early
<1>3. Moved("back.in", run.at, run.phase, run.failed) \/ Moved("end", run.at, run.phase, TRUE)
  BY <1>1, <1>2, StepMoves, FailMoves DEF MoveAsideAgain, RestoreTypeOK, Steps
<1>4. Diagnosed'
  BY <1>1, <1>2, SoundKept DEF Verdict
<1>5. Reported'
  BY <1>1, <1>2, <1>3 DEF Verdict, Reported, Outcome, Job, Moved
<1>6. Outcome'
  BY <1>1, <1>2, <1>3 DEF Verdict, Outcome, Job, Moved
<1>7. Planning'
  BY <1>1, <1>2, <1>3, ModeKept DEF Verdict, Planning, Planned, Outcome, Job, Moved
<1> QED BY <1>4, <1>5, <1>6, <1>7 DEF Verdict

LEMMA MoveBackVerdict == ASSUME RestoreTypeOK, Placed, Verdict, MoveBack PROVE Verdict'
<1>1. UNCHANGED <<mode, defect, record, plan, report>> /\ run.step = "back.in"
  BY DEF MoveBack, Does, unmoved, disk, host, services
<1>2. defect = "none" /\ run.back /\ record \in {"switching", "starting"}
  BY <1>1 DEF Placed, Position, Job, Verdict, Diagnosed, Meets, Early
<1>3. \/ Moved("back.aside", run.at + 1, run.phase, run.failed) \/ Moved("rolled-back", 1, run.phase, run.failed)
      \/ Moved("end", run.at, run.phase, TRUE)
  BY <1>1, <1>2, LoopMoves, FailMoves DEF MoveBack, RestoreTypeOK, Steps
<1>4. Diagnosed'
  BY <1>1, <1>2, SoundKept DEF Verdict
<1>5. Reported'
  BY <1>1, <1>2, <1>3 DEF Verdict, Reported, Outcome, Job, Moved
<1>6. Outcome'
  BY <1>1, <1>2, <1>3 DEF Verdict, Outcome, Job, Moved
<1>7. Planning'
  BY <1>1, <1>2, <1>3, ModeKept DEF Verdict, Planning, Planned, Outcome, Job, Moved
<1> QED BY <1>4, <1>5, <1>6, <1>7 DEF Verdict

LEMMA RecordRolledBackVerdict == ASSUME DurableRecords, RestoreTypeOK, Placed, Verdict, RecordRolledBack PROVE Verdict'
<1>1. UNCHANGED <<mode, defect, live, plan, report>> /\ run.step = "rolled-back"
  BY RecordMoves DEF RecordRolledBack, Steps, Phases
<1>2. defect = "none" /\ run.back /\ record \in {"switching", "starting"} /\ AllOriginal
  BY <1>1 DEF Placed, Position, Job, Verdict, Diagnosed, Meets, Early
<1>3. \/ record' = "rolled-back" /\ Moved("upstream", 1, "rolled-back", run.failed)
      \/ record' \in {record, "rolled-back"} /\ Moved("end", run.at, run.phase, TRUE)
  BY <1>1, <1>2, RecordMoves, FailMoves DEF RecordRolledBack, Steps, Phases, RestoreTypeOK
<1>4. Diagnosed'
  BY <1>1, <1>2, SoundKept DEF Verdict
<1>5. Reported'
  BY <1>1, <1>2, <1>3, SidesKept DEF Verdict, Reported, Outcome, Job, Moved
<1>6. Outcome'
  BY <1>1, <1>2, <1>3, SidesKept DEF Verdict, Outcome, Job, Moved
<1>7. Planning'
  BY <1>1, <1>2, <1>3, SidesKept, ModeKept DEF Verdict, Planning, Planned, Outcome, Job, Moved
<1> QED BY <1>4, <1>5, <1>6, <1>7 DEF Verdict

LEMMA RecoverReportVerdict == ASSUME RestoreTypeOK, Placed, Verdict, RecoverReport PROVE Verdict'
<1>1. UNCHANGED <<mode, defect, record, live, plan>> /\ run.step = "report"
  BY DEF RecoverReport, Does, unmoved, disk, host, services
<1>2. defect = "none" /\ run.recovers /\ record \in {"preparing", "stopping", "rolled-back", "committed"}
      /\ (IF record = "committed" THEN AllNew ELSE AllOriginal)
  BY <1>1 DEF Placed, Position, Recorded, Job, Verdict, Diagnosed, Meets, Early
<1>3. \/ /\ report' = (IF record = "committed" THEN "complete" ELSE "failed")
         /\ Moved("clean", 1, run.phase, run.failed)
      \/ report' = report /\ Moved("end", run.at, run.phase, TRUE)
  BY <1>1, <1>2, GotoMoves, FailMoves DEF RecoverReport, RestoreTypeOK, Steps
<1>4. Diagnosed'
  BY <1>1, <1>2, SoundKept DEF Verdict
<1>5. Reported'
  BY <1>1, <1>2, <1>3, SidesKept DEF Verdict, Reported, Outcome, Job, Moved
<1>6. Outcome'
  BY <1>1, <1>2, <1>3, SidesKept DEF Verdict, Outcome, Job, Moved
<1>7. Planning'
  BY <1>1, <1>2, <1>3, SidesKept, ModeKept DEF Verdict, Planning, Planned, Outcome, Job, Moved
<1> QED BY <1>4, <1>5, <1>6, <1>7 DEF Verdict
\* Before the transaction: the next check, or the end.
LEMMA EarlyVerdict ==
    ASSUME RestoreTypeOK, Placed, Verdict, run.step \in Early,
           UNCHANGED <<mode, defect, record, live, report>>,
           NEW next \in Early, NEW at, NEW phase,
           Moved(next, at, phase, run.failed) \/ Moved("end", at, phase, TRUE),
           run'.step = next => Meets(defect, next),
           plan' \in {plan, "waiting"},
           run'.step = next /\ next \in Planned /\ Rebuild /\ AutoHost => run.step \in Planned \/ plan' = "waiting"
    PROVE  Verdict'
<1>1. Job /\ record = "none" /\ AllOriginal
  BY DEF Placed, Position
<1>2. run.failed \in BOOLEAN /\ ~run.failed /\ report = "running"
  BY <1>1, RunFields DEF Verdict, Outcome, Job, Early, RestoreTypeOK
<1>3. Diagnosed'
  BY <1>1, SidesKept DEF Verdict, Diagnosed, Moved, Early, Defects, Meets
<1>4. Reported'
  BY <1>1, <1>2 DEF Reported
<1>5. Outcome'
  BY <1>1, <1>2, SidesKept DEF Outcome, Moved, Job, Early
<1>6. Planning'
  BY <1>1, <1>2, SidesKept, ModeKept DEF Verdict, Planning, Planned, Moved, Job, Early
<1> QED BY <1>3, <1>4, <1>5, <1>6 DEF Verdict

\* An inspection that passes has ruled out its defect.
LEMMA InspectsVerdict == ASSUME RestoreTypeOK, Placed, Verdict, Inspects PROVE Verdict'
<1>0. PICK step \in Early, next \in Early : \E found : Check(step, found, next) /\ Ordered(step, found, next)
  BY InOrder DEF RestoreTypeOK, Checks
<1>1. PICK found : Check(step, found, next) /\ Ordered(step, found, next)
  BY <1>0
<1>2. UNCHANGED <<mode, defect, record, live, report, plan>> /\ run.step = step
  BY <1>1 DEF Check, Does, unmoved, disk, host
<1>3. \/ defect # found /\ Moved(next, 1, run.phase, run.failed)
      \/ Moved("end", run.at, run.phase, TRUE)
  BY ZenonT(60), <1>1, GotoMoves, RejectedMoves DEF Check, RestoreTypeOK, Early, Steps
<1>4. Meets(defect, step) /\ defect \in Defects(mode)
  BY <1>2 DEF Verdict, Diagnosed, Early
<1>5. CASE defect # found /\ Moved(next, 1, run.phase, run.failed)
  <2>1. Meets(defect, next)
    BY <1>1, <1>4, <1>5 DEF Ordered
  <2>2. next \in Planned /\ Rebuild /\ AutoHost => run.step \in Planned
    BY <1>1, <1>2 DEF Ordered
  <2> QED BY <1>2, <1>5, <2>1, <2>2, EarlyVerdict
<1>6. CASE Moved("end", run.at, run.phase, TRUE)
  <2>1. run'.step # next
    BY <1>6 DEF Moved, Early
  <2> QED BY <1>2, <1>6, <2>1, EarlyVerdict
<1> QED BY <1>3, <1>5, <1>6

LEMMA BootstrapVerdict == ASSUME RestoreTypeOK, Placed, Verdict, Bootstrap PROVE Verdict'
<1>1. UNCHANGED <<mode, defect, record, live, report, plan>> /\ run.step = "bootstrap"
  BY DEF Bootstrap, Does, unmoved, disk, host
<1>2. Moved("deployment", 1, run.phase, run.failed) \/ Moved("end", run.at, run.phase, TRUE)
  BY GotoMoves, RejectedMoves DEF Bootstrap, RestoreTypeOK, Steps
<1>3. Meets(defect, "deployment")
  BY <1>1 DEF Verdict, Diagnosed, Meets, Early
<1>4. "deployment" \in Early \ Planned /\ run.step \in Early
  BY <1>1 DEF Early, Planned
<1>5. CASE Moved("deployment", 1, run.phase, run.failed)
  BY <1>1, <1>3, <1>4, <1>5, EarlyVerdict
<1>6. CASE Moved("end", run.at, run.phase, TRUE)
  BY <1>1, <1>3, <1>4, <1>6, EarlyVerdict
<1> QED BY <1>2, <1>5, <1>6

LEMMA PrepareHostVerdict == ASSUME RestoreTypeOK, Placed, Verdict, PrepareHost PROVE Verdict'
<1>1. UNCHANGED <<mode, defect, record, live, report>> /\ run.step = "plan" /\ plan' \in {plan, "waiting"}
  BY DEF PrepareHost, Does, unmoved, disk, host
<1>2. \/ plan' = "waiting" /\ Moved("verify", 1, run.phase, run.failed)
      \/ Moved("end", run.at, run.phase, TRUE)
  BY GotoMoves, RejectedMoves DEF PrepareHost, RestoreTypeOK, Steps
<1>3. Meets(defect, "verify")
  BY <1>1 DEF Verdict, Diagnosed, Meets, Early
<1>4. "verify" \in Early /\ run.step \in Early
  BY <1>1 DEF Early
<1>5. CASE plan' = "waiting" /\ Moved("verify", 1, run.phase, run.failed)
  BY <1>1, <1>3, <1>4, <1>5, EarlyVerdict
<1>6. CASE Moved("end", run.at, run.phase, TRUE)
  <2>1. run'.step # "verify"
    BY <1>6 DEF Moved
  <2> QED BY <1>1, <1>3, <1>4, <1>6, <2>1, EarlyVerdict
<1> QED BY <1>2, <1>5, <1>6

LEMMA MakeTransactionVerdict == ASSUME RestoreTypeOK, Placed, Verdict, MakeTransaction PROVE Verdict'
<1>1. UNCHANGED <<mode, defect, live, plan, report>> /\ run.step = "mkdir"
  BY DEF MakeTransaction, Does, unmoved, host
<1>2. Job /\ record = "none" /\ AllOriginal /\ defect \in {"none", "admin"} /\ defect \in Defects(mode)
  BY <1>1 DEF Placed, Position, Early, Verdict, Diagnosed, Meets
<1>3. \/ record' = "unreadable" /\ Moved("stage", 1, "preparing", run.failed)
      \/ UNCHANGED record /\ Moved("end", run.at, run.phase, TRUE)
  BY PhaseMoves, StepMoves DEF MakeTransaction, RestoreTypeOK, Steps, Phases
<1>4. Diagnosed'
  BY <1>1, <1>2, <1>3, SidesKept DEF Diagnosed, Meets, Moved, Defects
<1>5. Reported'
  BY <1>1, <1>2, <1>3, SidesKept DEF Verdict, Reported, Outcome, Job, Moved
<1>6. Outcome'
  BY <1>1, <1>2, <1>3, SidesKept DEF Verdict, Outcome, Job, Moved
<1>7. Planning'
  BY <1>1, <1>2, <1>3, SidesKept, ModeKept DEF Verdict, Planning, Planned, Outcome, Job, Moved
<1> QED BY <1>4, <1>5, <1>6, <1>7 DEF Verdict

LEMMA StageTargetVerdict == ASSUME RestoreTypeOK, Placed, Verdict, StageTarget PROVE Verdict'
<1>1. UNCHANGED <<mode, defect, record, live, plan, report>> /\ run.step = "stage"
  BY DEF StageTarget, Does, unmoved, host
<1>2. /\ Job /\ record = "unreadable" /\ AllOriginal /\ defect \in {"none", "admin"}
      /\ defect \in Defects(mode) /\ (defect = "admin" => run.at = 1)
  BY <1>1 DEF Placed, Position, Early, Verdict, Diagnosed, Meets
<1>3. Moved("candidate", run.at, run.phase, run.failed) \/ Moved("clean", run.at, run.phase, TRUE)
  BY StepMoves, AbandonMoves DEF StageTarget, RestoreTypeOK, Steps
<1>4. Diagnosed'
  BY <1>1, <1>2, <1>3, SidesKept DEF Diagnosed, Meets, Moved, Defects
<1>5. Reported'
  BY <1>1, <1>2, <1>3, SidesKept DEF Verdict, Reported, Outcome, Job, Moved
<1>6. Outcome'
  BY <1>1, <1>2, <1>3, SidesKept DEF Verdict, Outcome, Job, Moved
<1>7. Planning'
  BY <1>1, <1>2, <1>3, SidesKept, ModeKept DEF Verdict, Planning, Planned, Outcome, Job, Moved
<1> QED BY <1>4, <1>5, <1>6, <1>7 DEF Verdict

LEMMA CheckCandidateVerdict == ASSUME RestoreTypeOK, Placed, Verdict, CheckCandidate PROVE Verdict'
<1>1. UNCHANGED <<mode, defect, record, live, plan, report>> /\ run.step = "candidate"
  BY DEF CheckCandidate, Does, unmoved, host, disk
<1>2. /\ Job /\ record = "unreadable" /\ AllOriginal /\ defect \in {"none", "admin"}
      /\ defect \in Defects(mode) /\ (defect = "admin" => run.at = 1)
  BY <1>1 DEF Placed, Position, Early, Verdict, Diagnosed, Meets
<1>3. \/ /\ defect = "none"
         /\ \/ Moved("stage", run.at + 1, run.phase, run.failed)
            \/ Moved("preparing", 1, run.phase, run.failed)
      \/ Moved("clean", run.at, run.phase, TRUE)
  BY <1>2, LoopMoves, AbandonMoves DEF CheckCandidate, RestoreTypeOK, Steps
<1>4. Diagnosed'
  BY <1>1, <1>2, <1>3, SidesKept DEF Diagnosed, Meets, Moved, Defects
<1>5. Reported'
  BY <1>1, <1>2, <1>3, SidesKept DEF Verdict, Reported, Outcome, Job, Moved
<1>6. Outcome'
  BY <1>1, <1>2, <1>3, SidesKept DEF Verdict, Outcome, Job, Moved
<1>7. Planning'
  BY <1>1, <1>2, <1>3, SidesKept, ModeKept DEF Verdict, Planning, Planned, Outcome, Job, Moved
<1> QED BY <1>4, <1>5, <1>6, <1>7 DEF Verdict

LEMMA RecoverVerdict == ASSUME RestoreTypeOK, Placed, Verdict, Recover PROVE Verdict'
<1>1. UNCHANGED <<mode, defect, record, live, plan, report>> /\ run.step = "recover"
  BY DEF Recover, Does, unmoved, disk, host
<1>2. run.recovers /\ ~run.back
  BY <1>1 DEF Placed, Position
<1>3. \/ Moved("end", run.at, run.phase, TRUE)
      \/ /\ record \in Phases /\ run'.recovers
         /\ run'.step = IF record = "committed" THEN "ready" ELSE "back"
  BY <1>2, RecoverMoves, FailMoves DEF Recoverable, RestoreTypeOK
<1>4. Diagnosed'
  BY <1>1, <1>3, SidesKept DEF Verdict, Diagnosed, Meets, Moved, Defects, Phases
<1>5. Reported'
  BY <1>1, <1>3, SidesKept DEF Verdict, Reported, Moved
<1>6. Outcome'
  BY <1>1, <1>2, <1>3 DEF Outcome, Moved
<1>7. Planning'
  BY <1>1, <1>2, <1>3, SidesKept DEF Verdict, Planning, Moved
<1> QED BY <1>4, <1>5, <1>6, <1>7 DEF Verdict

LEMMA CleanStagesVerdict == ASSUME RestoreTypeOK, Placed, Verdict, CleanStages PROVE Verdict'
<1>1. UNCHANGED <<mode, defect, record, live, plan, report>> /\ run.step = "clean"
  BY DEF CleanStages, Does, unmoved, host
<1>2. Moved("drop", 1, run.phase, run.failed)
  BY GotoMoves DEF CleanStages, RestoreTypeOK, Steps
<1>3. Diagnosed'
  BY <1>1, <1>2, SidesKept DEF Verdict, Diagnosed, Meets, Moved, Defects, Early
<1>4. Reported'
  BY <1>1, <1>2, SidesKept DEF Verdict, Reported
<1>5. Outcome'
  BY <1>1, <1>2, SidesKept DEF Verdict, Outcome, Moved
<1>6. Planning'
  BY <1>1, <1>2, SidesKept, ModeKept DEF Verdict, Planning, Planned, Moved
<1> QED BY <1>3, <1>4, <1>5, <1>6 DEF Verdict

LEMMA DropTransactionVerdict == ASSUME RestoreTypeOK, Placed, Verdict, DropTransaction PROVE Verdict'
<1>1. UNCHANGED <<mode, defect, live, plan, report>> /\ run.step = "drop"
  BY DEF DropTransaction, Does, unmoved, host
<1>2. record \notin {"none", "switching", "starting"}
  BY <1>1 DEF Placed, Position
<1>3. \/ record = "unreadable" /\ record' = "none" /\ Moved("end", 1, run.phase, run.failed)
      \/ record' = "unreadable" /\ UNCHANGED run
  BY GotoMoves DEF DropTransaction, RestoreTypeOK, Steps
<1>4. record \in {"preparing", "stopping", "rolled-back"} => AllOriginal
  BY DEF Placed, Recorded
<1>5. Diagnosed'
  BY <1>1, <1>2, <1>3, SidesKept DEF Verdict, Diagnosed, Meets, Moved, Defects
<1>6. Reported'
  BY <1>1, <1>2, <1>3, SidesKept DEF Verdict, Reported, Moved
<1>7. Outcome'
  BY <1>1, <1>3, SidesKept DEF Verdict, Outcome, Moved
<1>8. Planning'
  BY <1>1, <1>2, <1>3, <1>4, SidesKept, ModeKept
     DEF Verdict, Planning, Planned, Moved, RestoreTypeOK, Phases
<1> QED BY <1>5, <1>6, <1>7, <1>8 DEF Verdict

LEMMA EndJobVerdict == ASSUME RestoreTypeOK, Placed, Verdict, EndJob PROVE Verdict'
<1>1. UNCHANGED <<mode, defect, record, live>> /\ run.step = "end"
  BY DEF EndJob, Does, unmoved, disk
<1>2. ~run.recovers => IF run.failed THEN record = "none" => AllOriginal ELSE record = "none" /\ AllNew
  BY <1>1 DEF Verdict, Outcome
<1>3. \/ /\ ~run.failed /\ ~run.recovers /\ Rebuild /\ AutoHost /\ UNCHANGED <<plan, report>>
         /\ run'.step = "install"
      \/ /\ plan' \in {"none", plan} /\ run'.step = "idle" /\ ~run'.failed /\ ~run'.back
         /\ report' = IF run.recovers THEN report ELSE IF run.failed THEN "failed" ELSE "complete"
  BY GotoMoves, IdleTypes DEF EndJob, Moved, RestoreTypeOK, Steps
<1>4. ~run.failed /\ ~run.recovers /\ Rebuild /\ AutoHost => plan = "ready"
  BY <1>1 DEF Verdict, Planning
<1>5. Diagnosed'
  BY <1>1, <1>3, SidesKept DEF Verdict, Diagnosed, Defects
<1>6. Reported'
  BY <1>1, <1>2, <1>3, SidesKept DEF Verdict, Reported
<1>7. Outcome'
  BY <1>3 DEF Outcome
<1>8. Planning'
  BY <1>1, <1>2, <1>3, <1>4, SidesKept DEF Verdict, Planning, Planned
<1> QED BY <1>5, <1>6, <1>7, <1>8 DEF Verdict

LEMMA InstallHostVerdict == ASSUME RestoreTypeOK, Placed, Verdict, InstallHost PROVE Verdict'
<1>1. UNCHANGED <<mode, defect, record, live>> /\ run.step = "install"
  BY DEF InstallHost, Does, unmoved, disk
<1>2. record = "none" /\ (plan = "ready" \/ AllOriginal)
  BY <1>1 DEF Verdict, Planning
<1>3. \/ /\ plan # "ready" /\ plan' = "none" /\ report' = "failed"
         /\ run'.step = "idle" /\ ~run'.failed /\ ~run'.back
      \/ plan = "ready" /\ UNCHANGED plan /\ report' = "running" /\ run'.step = "tasks"
  BY GotoMoves, IdleTypes DEF InstallHost, Moved, RestoreTypeOK, Steps
<1>4. plan = "ready" => defect = "none"
  BY Originals DEF Placed, Recorded, Verdict, Diagnosed, RestoreTypeOK
<1>5. Diagnosed'
  BY <1>1, <1>3, <1>4, SidesKept DEF Verdict, Diagnosed, Defects, Meets
<1>6. Reported'
  BY <1>1, <1>2, <1>3, SidesKept DEF Verdict, Reported
<1>7. Outcome'
  BY <1>3 DEF Outcome
<1>8. Planning'
  BY <1>1, <1>2, <1>3, SidesKept DEF Verdict, Planning, Planned
<1> QED BY <1>5, <1>6, <1>7, <1>8 DEF Verdict

LEMMA InstallTasksVerdict == ASSUME RestoreTypeOK, Placed, Verdict, InstallTasks PROVE Verdict'
<1>1. UNCHANGED <<mode, defect, record, live>> /\ plan = "ready"
  BY DEF InstallTasks, Does, unmoved, disk, Placed, Position
<1>2. AllNew /\ record \in {"committed", "unreadable", "none"}
  BY <1>1 DEF Placed, Recorded
<1>3. plan' \in {"none", "ready"} /\ report' \in {"complete", "host_pending"}
      /\ run'.step = "idle" /\ ~run'.failed /\ ~run'.back
  BY <1>1, IdleTypes DEF InstallTasks, RestoreTypeOK
<1>4. Diagnosed'
  BY <1>1, <1>3, SidesKept DEF Verdict, Diagnosed, Defects
<1>5. Reported'
  BY <1>1, <1>2, <1>3, SidesKept DEF Reported
<1>6. Outcome'
  BY <1>3 DEF Outcome
<1>7. Planning'
  BY <1>3 DEF Planning, Planned
<1> QED BY <1>4, <1>5, <1>6, <1>7 DEF Verdict

LEMMA StartRestoreVerdict == ASSUME RestoreTypeOK, Placed, Verdict, StartRestore PROVE Verdict'
<1>1. UNCHANGED <<mode, defect, record, live, plan>> /\ request /\ run.step = "idle" /\ report' = "running"
  BY DEF StartRestore, TakeLock, Does, disk, host
<1>2. record = "none" /\ AllOriginal /\ plan = "none" /\ Job /\ defect \in Defects(mode)
  BY <1>1 DEF Placed, Recorded, Position, Verdict, Diagnosed
<1>3. run'.step = "request" /\ run'.back = run.back /\ run'.recovers = run.recovers /\ run' \in Runs
      /\ run'.failed = run.failed
  BY GotoMoves DEF StartRestore, Moved, RestoreTypeOK, Steps
<1>4. ~run.failed
  BY <1>1, <1>2 DEF Verdict, Outcome, Job
<1>5. Diagnosed'
  BY <1>1, <1>2, <1>3, SidesKept DEF Diagnosed, Defects, Meets, Early, Modes, RestoreTypeOK
<1>6. Reported'
  BY <1>1 DEF Reported
<1>7. Outcome'
  BY <1>1, <1>2, <1>3, <1>4 DEF Outcome, Job
<1>8. Planning'
  BY <1>1, <1>2, <1>3 DEF Planning, Planned
<1> QED BY <1>5, <1>6, <1>7, <1>8 DEF Verdict

LEMMA StartRecoveryVerdict == ASSUME RestoreTypeOK, Placed, Verdict, StartRecovery PROVE Verdict'
<1>1. UNCHANGED <<mode, defect, record, live, plan, report>> /\ record # "none"
  BY DEF StartRecovery, unmoved, disk, host
<1>2. run'.step = "recover" /\ run'.recovers
  BY IdleTypes DEF StartRecovery, RestoreTypeOK, Runs
<1>3. Diagnosed'
  BY <1>1, <1>2, SidesKept DEF Verdict, Diagnosed, Defects, Meets
<1>4. Reported'
  BY <1>1, <1>2, SidesKept DEF Verdict, Reported
<1>5. Outcome'
  BY <1>2 DEF Outcome
<1>6. Planning'
  BY <1>1, <1>2, SidesKept DEF Verdict, Planning
<1> QED BY <1>3, <1>4, <1>5, <1>6 DEF Verdict

LEMMA StartHostVerdict == ASSUME RestoreTypeOK, Placed, Verdict, StartHost PROVE Verdict'
<1>1. UNCHANGED <<mode, defect, record, live, plan, report>> /\ record = "none" /\ plan # "none"
  BY DEF StartHost, unmoved, disk, host
<1>2. run'.step = "install"
  BY GotoMoves DEF StartHost, Moved, RestoreTypeOK, Steps
<1>3. plan = "ready" \/ AllOriginal
  BY <1>1 DEF Verdict, Planning, RestoreTypeOK
<1>4. Diagnosed'
  BY <1>1, <1>2, SidesKept DEF Verdict, Diagnosed, Defects
<1>5. Reported'
  BY <1>1, <1>2, SidesKept DEF Verdict, Reported
<1>6. Outcome'
  BY <1>2 DEF Outcome
<1>7. Planning'
  BY <1>1, <1>2, <1>3, SidesKept DEF Verdict, Planning, Planned
<1> QED BY <1>4, <1>5, <1>6, <1>7 DEF Verdict

\* What services, crashes and the operator do changes nothing of it.
LEMMA EnvironmentVerdict ==
    ASSUME RestoreTypeOK, Verdict, ServiceWrites \/ Crash \/ RemoveStaleLock \/ UNCHANGED restoreVars
    PROVE  Verdict'
<1>1. UNCHANGED <<mode, defect, record, live, plan, report>>
  BY DEF ServiceWrites, Crash, RemoveStaleLock, restoreVars, unmoved, disk, host
<1>2. run' = run \/ (run'.step = "idle" /\ ~run'.failed /\ ~run'.back)
  BY IdleTypes DEF ServiceWrites, Crash, RemoveStaleLock, restoreVars, RestoreTypeOK
<1>3. Diagnosed'
  BY <1>1, <1>2, SidesKept DEF Verdict, Diagnosed, Defects, Meets
<1>4. Reported'
  BY <1>1, <1>2, SidesKept DEF Verdict, Reported
<1>5. Outcome'
  BY <1>1, <1>2, SidesKept DEF Verdict, Outcome
<1>6. Planning'
  BY <1>1, <1>2, SidesKept, ModeKept DEF Verdict, Planning, Planned
<1> QED BY <1>3, <1>4, <1>5, <1>6 DEF Verdict

\* Every step keeps what is known and said true.
LEMMA VerdictStep ==
    ASSUME DurableRecords, RestoreTypeOK, Placed, Verdict, [RestoreNext]_restoreVars
    PROVE  Verdict'
<1>1. CASE Inspects
  BY <1>1, InspectsVerdict
<1>2. CASE Records
  BY <1>2, RecordPreparingVerdict, RecordStoppingVerdict, RecordSwitchingVerdict,
     RecordStartingVerdict, RecordCommittedVerdict, RecordRolledBackVerdict DEF Records
<1>3. CASE \/ Bootstrap \/ PrepareHost \/ MakeTransaction \/ StageTarget \/ CheckCandidate
           \/ Stop \/ Snapshot \/ MoveAside \/ MoveIn \/ StartUpstream \/ StartPortal \/ Healthy
           \/ MarkReady \/ RollBack \/ StopAgain \/ MoveAsideAgain \/ MoveBack \/ Recover
           \/ RecoverReport \/ CleanStages \/ DropTransaction \/ EndJob \/ InstallHost \/ InstallTasks
  BY <1>3, BootstrapVerdict, PrepareHostVerdict, MakeTransactionVerdict, StageTargetVerdict,
     CheckCandidateVerdict, StopVerdict, SnapshotVerdict, MoveAsideVerdict, MoveInVerdict,
     StartUpstreamVerdict, StartPortalVerdict, HealthyVerdict, MarkReadyVerdict, RollBackVerdict,
     StopAgainVerdict, MoveAsideAgainVerdict, MoveBackVerdict, RecoverVerdict, RecoverReportVerdict,
     CleanStagesVerdict, DropTransactionVerdict, EndJobVerdict, InstallHostVerdict, InstallTasksVerdict
<1>4. CASE Ticks
  BY <1>4, StartRestoreVerdict, StartRecoveryVerdict, StartHostVerdict DEF Ticks
<1>5. CASE ServiceWrites \/ Crash \/ RemoveStaleLock \/ UNCHANGED restoreVars
  BY <1>5, EnvironmentVerdict
<1> QED BY <1>1, <1>2, <1>3, <1>4, <1>5 DEF RestoreNext, RunnerStep, Inspects, Records

\* At first nothing is known and nothing is said.
LEMMA InitVerdict == ASSUME RestoreInit PROVE Verdict
<1>1. /\ mode \in Modes /\ defect \in Defects(mode) /\ run = Idle /\ AllOriginal /\ record = "none"
      /\ plan = "none" /\ report = "none"
  BY DEF RestoreInit, AllOriginal
<1>2. run.step = "idle" /\ ~run.failed /\ ~run.back
  BY <1>1, IdleTypes
<1> QED BY <1>1, <1>2 DEF Verdict, Diagnosed, Reported, Outcome, Planning, Planned

-----------------------------------------------------------------------------
(* The theorems.                                                           *)

\* The invariant of the restore holds throughout.
LEMMA RestoreHolds == ASSUME DurableRecords PROVE RestoreSpec => []RestoreInv
<1>1. RestoreInit => RestoreInv
  BY InitPlaced, InitServing, InitVerdict DEF RestoreInv
<1>2. RestoreInv /\ [RestoreNext]_restoreVars => RestoreInv'
  BY TypeStep, PlacedStep, ServingStep, VerdictStep DEF RestoreInv
<1> QED BY <1>1, <1>2, PTL DEF RestoreSpec

\* The variables of the restore stay in their sets, for any targets and any
\* number of failures and crashes.
THEOREM RestoreTypes == ASSUME DurableRecords PROVE RestoreSpec => []RestoreTypeOK
<1>1. RestoreInv => RestoreTypeOK
  BY DEF RestoreInv
<1> QED BY <1>1, RestoreHolds, PTL

\* Until the commit the data the portal had are in place or among the rollback
\* copies, and no host task is released (replacePortalDatabase).
THEOREM CommitsFirst == ASSUME DurableRecords PROVE RestoreSpec => []NothingBeforeCommit
<1>1. RestoreInv => NothingBeforeCommit
  <2> SUFFICES ASSUME RestoreInv PROVE NothingBeforeCommit
    OBVIOUS
  <2>1. \A i \in Index : Target(i).exists => Original(i) = "old"
    BY DEF Original
  <2>2. record = "stopping" => \A i \in Index : Target(i).exists => live[i] = "old"
    BY <2>1 DEF RestoreInv, Placed, Recorded, AllOriginal
  <2>3. record \in {"switching", "starting"} =>
          \A i \in Index : Target(i).exists => copies # << >> /\ copies[i] = "old"
    BY <2>1, CopiesMade DEF RestoreInv, Placed, Recorded, Copied, RestoreTypeOK
  <2>4. plan = "ready" \/ installed => AllNew
    BY DEF RestoreInv, Placed, Recorded
  <2> QED BY <2>2, <2>3, <2>4 DEF NothingBeforeCommit
<1> QED BY <1>1, RestoreHolds, PTL

\* No service ever opens a database beside the log of another one
\* (moveDatabaseSidecars).
THEOREM LogsBelong == ASSUME DurableRecords PROVE RestoreSpec => []NoForeignSidecar
<1>1. RestoreInv => NoForeignSidecar
  BY DEF RestoreInv, Serving, Logs, NoForeignSidecar
<1> QED BY <1>1, RestoreHolds, PTL

\* A transaction that no tick can resolve leaves the portal up on one set of
\* data (recoverDatabaseTransaction).
THEOREM StuckServesOneSide == ASSUME DurableRecords PROVE RestoreSpec => []StuckIsConsistent
<1>1. RestoreInv => StuckIsConsistent
  BY DEF RestoreInv, Serving, Answers, OneSide, StuckIsConsistent, Serves
<1> QED BY <1>1, RestoreHolds, PTL

\* restore-status.json says what became of the data: complete is never said of
\* data that were put back or of a backup that fails a check, nor failed of
\* data that stay (restoreTick and recoverDatabaseTransaction).
THEOREM ReportsTheTruth == ASSUME DurableRecords PROVE RestoreSpec => []ReportTruthful
<1>1. RestoreInv => ReportTruthful
  BY Originals DEF RestoreInv, Verdict, Reported, Diagnosed, RestoreTypeOK, ReportTruthful
<1> QED BY <1>1, RestoreHolds, PTL

-----------------------------------------------------------------------------
(* The refinement: all or nothing.                                         *)

Settled == {"idle", "end", "install"}

\* What is served is never a mixture.
OneSided == Serves = IF portal = "down" THEN "down" ELSE IF AllNew THEN "new" ELSE "old"

\* What is served, in the terms of the promise.
LEMMA Served == ASSUME RestoreInv PROVE OneSided
BY Originals DEF RestoreInv, RestoreTypeOK, Serving, Answers, OneSide, Serves, OneSided

\* While a record stands the outcome is that of the record.
LEMMA DecidedByRecord ==
    ASSUME record \in Phases
    PROVE  Decided = IF record = "committed" THEN "new" ELSE "open"
BY DEF Decided, Phases

\* What a step may do to the decision.
Decides == \/ UNCHANGED Decided
           \/ Decided = "open" /\ Decided' = "old"
           \/ Decided = "open" /\ Decided' = "new" /\ Serves = "new"

\* The runner moves on; nobody calls the outcome settled that was not.
LEMMA DecidedKept ==
    ASSUME UNCHANGED <<mode, live, record, request>>,
           record = "none" /\ run.step \in Settled => AllNew \/ run'.step \in Settled
    PROVE  Decides
BY SidesKept DEF Decides, Decided, Settled

\* An inspection decides nothing.
LEMMA EarlyDecides ==
    ASSUME RestoreInv, run.step \in Early, UNCHANGED <<mode, live, record, request>>
    PROVE  Decides
BY DecidedKept DEF Early, Settled

\* While the record stands, so does the decision.
LEMMA RecordedDecides ==
    ASSUME record \in Phases, UNCHANGED record
    PROVE  UNCHANGED Decided
<1>1. record' \in Phases
  OBVIOUS
<1>2. Decided' = IF record' = "committed" THEN "new" ELSE "open"
  BY <1>1 DEF Decided, Phases
<1> QED BY <1>2, DecidedByRecord

\* From here on, one action at a time: an outcome is decided once, and as the data are.
LEMMA MakeTransactionDecides == ASSUME RestoreInv, MakeTransaction PROVE Decides
<1>1. UNCHANGED <<mode, live, request>> /\ run.step = "mkdir" /\ record' \in {record, "unreadable"}
  BY DEF MakeTransaction, Does, unmoved
<1>2. record = "none" /\ AllOriginal /\ ~AllNew
  BY <1>1, Originals DEF RestoreInv, Placed, Position, Early, RestoreTypeOK
<1>3. Decided = "open"
  BY <1>1, <1>2 DEF Decided
<1>4. Decided' \in {"open", "old"}
  BY <1>1, <1>2, SidesKept DEF Decided
<1> QED BY <1>3, <1>4 DEF Decides

\* Of the records only that of the commit decides, and the data are new then.
LEMMA RecordsDecide == ASSUME DurableRecords, RestoreInv, Records PROVE Decides
<1>1. UNCHANGED <<mode, live, portal>>
  BY ZenonT(60), RecordMoves DEF RestoreInv, Records, RecordPreparing, RecordStopping, RecordSwitching,
       RecordStarting, RecordCommitted, RecordRolledBack, Phases, Steps
<1>2. CASE RecordCommitted
  <2>1. run.step = "committed" /\ record' = "committed"
    BY <1>2, RecordMoves DEF RestoreInv, RecordCommitted, Phases, Steps
  <2>2. record = "starting" /\ AllNew /\ portal = "up"
    BY <2>1 DEF RestoreInv, Placed, Position, Job, Serving, Answers, Answered
  <2>3. Decided = "open" /\ Decided' = "new" /\ Serves = "new"
    BY <2>1, <2>2, Served DEF Decided, OneSided
  <2> QED BY <2>3 DEF Decides
<1>3. CASE RecordPreparing
  <2>1. run.step = "preparing" /\ record' \in {record, "preparing"}
    BY <1>3, RecordMoves DEF RestoreInv, RecordPreparing, Phases, Steps
  <2>2. record = "unreadable" /\ ~AllNew
    BY <2>1, Originals DEF RestoreInv, Placed, Position, RestoreTypeOK
  <2>3. Decided = "open" /\ Decided' = "open"
    BY <1>1, <2>1, <2>2, SidesKept DEF Decided
  <2> QED BY <2>3 DEF Decides
<1>4. CASE RecordStopping \/ RecordSwitching \/ RecordStarting \/ RecordRolledBack
  <2>1. /\ run.step \in {"stopping", "switching", "starting", "rolled-back"}
        /\ record' \in {record, "stopping", "switching", "starting", "rolled-back"}
    BY <1>4, RecordMoves DEF RestoreInv, RecordStopping, RecordSwitching, RecordStarting,
       RecordRolledBack, Phases, Steps
  <2>2. record \in {"preparing", "stopping", "switching", "starting"}
    BY <2>1 DEF RestoreInv, Placed, Position
  <2>3. Decided = "open" /\ Decided' = "open"
    BY <2>1, <2>2 DEF Decided
  <2> QED BY <2>3 DEF Decides
<1> QED BY <1>2, <1>3, <1>4 DEF Records

LEMMA DropTransactionDecides == ASSUME RestoreInv, DropTransaction PROVE Decides
<1>1. UNCHANGED <<mode, live, request>> /\ run.step = "drop" /\ record' \in {"unreadable", "none"}
  BY DEF DropTransaction, Does, unmoved
<1>2. record \notin {"none", "switching", "starting"}
  BY <1>1 DEF RestoreInv, Placed, Position
<1>3. CASE AllNew
  <2>1. record \in {"committed", "unreadable"}
    BY <1>2, <1>3, Originals DEF RestoreInv, Placed, Recorded, RestoreTypeOK, Phases
  <2>2. Decided = "new" /\ Decided' = "new"
    BY <1>1, <1>3, <2>1, SidesKept DEF Decided
  <2> QED BY <2>2 DEF Decides
<1>4. CASE ~AllNew
  <2>1. record # "committed"
    BY <1>4 DEF RestoreInv, Placed, Recorded
  <2>2. Decided = "open" /\ Decided' \in {"open", "old"}
    BY <1>1, <1>2, <1>4, <2>1, SidesKept DEF Decided
  <2> QED BY <2>2 DEF Decides
<1> QED BY <1>3, <1>4

LEMMA StartRestoreDecides == ASSUME RestoreInv, StartRestore PROVE Decides
<1>1. UNCHANGED <<mode, live, record>> /\ request /\ record = "none"
  BY DEF StartRestore, disk
<1>2. ~AllNew /\ run'.step = "request"
  BY <1>1, Originals, GotoMoves DEF RestoreInv, Placed, Recorded, StartRestore, RestoreTypeOK, Moved, Steps
<1>3. Decided = "open" /\ Decided' = "open"
  BY <1>1, <1>2, SidesKept DEF Decided
<1> QED BY <1>3 DEF Decides

\* The portal goes down, comes back on the data that were decided, or stays.
Answering ==
    \/ portal' = portal /\ (portal = "up" => UNCHANGED <<mode, live>>)
    \/ portal = "up" /\ portal' = "down" /\ UNCHANGED Decided
    \/ /\ portal = "down" /\ portal' = "up" /\ UNCHANGED <<Decided, mode, live>>
       /\ Decided \in {"open", IF AllNew THEN "new" ELSE "old"}

\* Stopping the services takes the portal down and decides nothing.
LEMMA StopAnswers ==
    ASSUME RestoreInv, NEW step \in {"stop", "back.stop"}, NEW next, run.step = step, StopServices(next)
    PROVE  Decides /\ Answering
<1>1. UNCHANGED <<mode, live, record>> /\ portal' \in {portal, "down"}
  BY DEF StopServices, unmoved
<1>2. record \in Phases
  BY DEF RestoreInv, Placed, Position, Phases
<1>3. UNCHANGED Decided
  BY <1>1, <1>2, RecordedDecides
<1>4. portal \in {"up", "down"}
  BY DEF RestoreInv, RestoreTypeOK
<1> QED BY <1>1, <1>3, <1>4 DEF Decides, Answering

LEMMA StartPortalAnswers == ASSUME RestoreInv, StartPortal PROVE Decides /\ Answering
<1>1. UNCHANGED <<mode, live, record>> /\ portal' \in {portal, "up"} /\ run.step = "portal"
  BY DEF StartPortal, Does, unmoved, disk
<1>2. Starting /\ Placed
  BY <1>1 DEF RestoreInv, Placed, Position, Starting
<1>3. record \in Phases /\ (record = "committed" => AllNew)
  BY <1>2 DEF Starting, Phases, Placed, Recorded
<1>4. UNCHANGED Decided
  BY <1>1, <1>3, RecordedDecides
<1>5. Decided = IF record = "committed" THEN "new" ELSE "open"
  BY <1>3, DecidedByRecord
<1>6. portal \in {"up", "down"}
  BY DEF RestoreInv, RestoreTypeOK
<1> QED BY <1>1, <1>3, <1>4, <1>5, <1>6 DEF Decides, Answering

\* Paths are replaced while the portal is down and nothing is decided.
LEMMA ReplaceAnswers ==
    ASSUME RestoreInv, run.step \in {"aside", "in", "back.aside", "back.in"}, UNCHANGED <<record, portal>>
    PROVE  Decides /\ Answering
<1>1. record \in Phases /\ portal = "down"
  BY DEF RestoreInv, Placed, Position, Phases, Serving, Answers, Silent
<1>2. UNCHANGED Decided
  BY <1>1, RecordedDecides
<1> QED BY <1>1, <1>2 DEF Decides, Answering

\* Every step leaves a decision alone, and the portal starts on the side that was decided.
LEMMA StepDecides ==
    ASSUME DurableRecords, RestoreInv, [RestoreNext]_restoreVars
    PROVE  Decides /\ Answering
<1>1. CASE Inspects \/ Bootstrap \/ PrepareHost
  <2>1. CASE Inspects
    <3>1. PICK step \in Early, next \in Early : \E found : Check(step, found, next)
      BY <2>1, Inspections
    <3>2. run.step \in Early /\ UNCHANGED <<mode, live, record, request, portal>>
      BY <3>1 DEF Check, Does, unmoved, disk, services
    <3> QED BY <3>2, EarlyDecides DEF Answering
  <2>2. CASE Bootstrap \/ PrepareHost
    <3>1. run.step \in Early /\ UNCHANGED <<mode, live, record, request, portal>>
      BY <2>2 DEF Bootstrap, PrepareHost, Does, unmoved, disk, services, Early
    <3> QED BY <3>1, EarlyDecides DEF Answering
  <2> QED BY <1>1, <2>1, <2>2
<1>2. CASE MakeTransaction \/ DropTransaction \/ StartRestore \/ Records
  <2>1. UNCHANGED <<mode, live, portal>>
    BY ZenonT(60), <1>2, RecordMoves DEF MakeTransaction, DropTransaction, StartRestore, RestoreInv, Records,
       RecordPreparing, RecordStopping, RecordSwitching, RecordStarting, RecordCommitted,
       RecordRolledBack, Phases, Steps, unmoved, disk, services
  <2> QED BY <1>2, <2>1, MakeTransactionDecides, DropTransactionDecides, StartRestoreDecides,
             RecordsDecide DEF Answering
<1>3. CASE Stop \/ StopAgain
  BY <1>3, StopAnswers DEF Stop, StopAgain, Does
<1>4. CASE StartPortal
  BY <1>4, StartPortalAnswers
<1>5. CASE MoveAside \/ MoveIn \/ MoveAsideAgain \/ MoveBack
  <2>1. run.step \in {"aside", "in", "back.aside", "back.in"} /\ UNCHANGED <<record, portal>>
    BY <1>5 DEF MoveAside, MoveIn, MoveAsideAgain, MoveBack, Does, services
  <2> QED BY <2>1, ReplaceAnswers
<1>6. CASE \/ StageTarget \/ CheckCandidate \/ Snapshot \/ StartUpstream \/ Healthy \/ MarkReady
           \/ RollBack \/ Recover \/ RecoverReport \/ CleanStages
  <2>1. UNCHANGED <<mode, live, record, request, portal>> /\ run.step \notin Settled
    BY <1>6 DEF StageTarget, CheckCandidate, Snapshot, StartUpstream, Healthy, MarkReady,
       RollBack, Recover, RecoverReport, CleanStages, Does, unmoved, disk, services, Settled
  <2> QED BY <2>1, DecidedKept DEF Answering
<1>7. CASE EndJob \/ InstallHost \/ InstallTasks \/ Crash \/ StartHost
  <2>1. UNCHANGED <<mode, live, record, request, portal>>
    BY <1>7 DEF EndJob, InstallHost, InstallTasks, Crash, StartHost, unmoved, disk, services
  <2>2. \/ Goto("install") \/ run' = Idle \/ (plan = "ready" /\ Goto("tasks"))
    BY <1>7 DEF EndJob, InstallHost, InstallTasks, Crash, StartHost
  <2>3. run'.step \in Settled \/ AllNew
    BY <2>2, GotoMoves, IdleTypes DEF Moved, RestoreInv, RestoreTypeOK, Steps, Settled, Placed, Recorded
  <2> QED BY <2>1, <2>3, DecidedKept DEF Answering
<1>8. CASE StartRecovery \/ ServiceWrites \/ RemoveStaleLock \/ UNCHANGED restoreVars
  <2>1. UNCHANGED <<mode, live, record, request, portal>> /\ (record # "none" \/ UNCHANGED run)
    BY <1>8 DEF StartRecovery, ServiceWrites, RemoveStaleLock, restoreVars, unmoved, disk, services
  <2> QED BY <2>1, DecidedKept DEF Answering
<1> QED BY <1>1, <1>2, <1>3, <1>4, <1>5, <1>6, <1>7, <1>8
        DEF RestoreNext, RunnerStep, Ticks, Inspects, Records

\* A step of that kind is a step of the promise, or none.
LEMMA PromiseStep ==
    ASSUME RestoreTypeOK, OneSided, OneSided', Decides, Answering
    PROVE  [Promise!PromiseNext]_(Promise!promise)
<1>1. Serves = IF portal = "down" THEN "down" ELSE IF AllNew THEN "new" ELSE "old"
  BY DEF OneSided
<1>2. Serves' = IF portal' = "down" THEN "down" ELSE IF AllNew' THEN "new" ELSE "old"
  BY DEF OneSided
<1>3. CASE portal' = portal /\ (portal = "up" => UNCHANGED <<mode, live>>)
  <2>1. Serves' = Serves
    BY <1>1, <1>2, <1>3, SidesKept DEF RestoreTypeOK
  <2> QED BY <2>1 DEF Decides, Promise!PromiseNext, Promise!Decide, Promise!promise
<1>4. CASE portal = "up" /\ portal' = "down" /\ UNCHANGED Decided
  BY <1>1, <1>2, <1>4 DEF Promise!PromiseNext, Promise!GoDown, Promise!promise
<1>5. CASE /\ portal = "down" /\ portal' = "up" /\ UNCHANGED <<Decided, mode, live>>
           /\ Decided \in {"open", IF AllNew THEN "new" ELSE "old"}
  <2>1. Serves = "down" /\ Serves' = IF AllNew THEN "new" ELSE "old"
    BY <1>1, <1>2, <1>5, SidesKept
  <2> QED BY <1>5, <2>1 DEF Promise!PromiseNext, Promise!Serve, Promise!promise
<1> QED BY <1>3, <1>4, <1>5 DEF Answering

\* The restore implements the switch of AtomicRestore: the portal serves the
\* data of one side or is down, and once the outcome is decided it stays.
THEOREM RestoreIsAtomic == ASSUME DurableRecords PROVE RestoreSpec => AllOrNothing
<1>1. RestoreInit => Promise!PromiseInit
  <2> SUFFICES ASSUME RestoreInit PROVE Promise!PromiseInit
    OBVIOUS
  <2>1. mode \in Modes /\ portal = "up" /\ request /\ record = "none" /\ AllOriginal /\ upstream # "new"
    BY DEF RestoreInit, AllOriginal
  <2>2. ~AllNew
    BY <2>1, Originals
  <2>3. Serves = "old" /\ Decided = "open"
    BY <2>1, <2>2 DEF Serves, Decided
  <2> QED BY <2>3 DEF Promise!PromiseInit
<1>2. RestoreInv => OneSided
  BY Served
<1>3. RestoreInv /\ OneSided /\ OneSided' /\ [RestoreNext]_restoreVars => [Promise!PromiseNext]_(Promise!promise)
  BY StepDecides, PromiseStep DEF RestoreInv
<1> QED BY <1>1, <1>2, <1>3, RestoreHolds, PTL DEF RestoreSpec, AllOrNothing, Promise!PromiseSpec
=============================================================================
