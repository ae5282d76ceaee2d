--------------------------- MODULE BackupQueueProofs ---------------------------
(***************************************************************************)
(* The lock, the settings of a job and the pause of CPAMP, for any number  *)
(* of runners, repositories, failures and deaths.                          *)
(***************************************************************************)
EXTENDS BackupQueue, TLAPS

\* The fields of a job and of a form, whatever their values.
Record(j) == j = [step |-> j.step, repo |-> j.repo, token |-> j.token, manual |-> j.manual,
                  taken |-> j.taken]
Form(f) == f = [step |-> f.step, form |-> f.form, repo |-> f.repo, old |-> f.old]
JobTypes ==
    /\ Form(web)
    /\ job = [r \in Runners |-> job[r]] /\ \A r \in Runners : Record(job[r])

\* Who works under the lock has made it.
Holding(r) == job[r].step \in BackupSteps \cup RestoreSteps
WebHolding == web.step \in {"check", "token", "config", "undo"}
LockHeld ==
    /\ \A r \in Runners : Holding(r) => runnerLock = r
    /\ WebHolding => runnerLock = "web"

\* A job that has read the settings, or the token, under the lock still has them.
UsesSettings(r) == job[r].step \in BackupSteps \ {"read again"}
UsesToken(r) == job[r].step \in BackupSteps \ {"read again", "start", "credentials"}
SettingsRead ==
    \A r \in Runners :
        /\ UsesSettings(r) => job[r].repo = config
        /\ job[r].token # "none" => UsesToken(r) /\ job[r].token = token

\* From the marker to the end of the pause the lease is the job's, and nobody
\* who would start CPAMP is about to; before its record is written, and when a
\* marker is removed, CPAMP is up.
Snapping(r) == job[r].step \in {"record", "stop", "collect", "resume"}
PauseControl ==
    ~SlowRecovery =>
    /\ \A r \in Runners : Snapping(r) =>
          /\ lease = r
          /\ marker = IF job[r].step = "record" THEN "empty" ELSE "recorded"
          /\ \A other \in Runners : job[other].step \notin {"restart", "recovered"}
    /\ \A r \in Runners : job[r].step \in {"record", "unmark", "recovered"} => manager = "up"
    /\ \A r \in Runners : job[r].step = "collect" => manager = "down"
    /\ manager \in {"up", "down"}
    /\ manager = "down" => marker = "recorded"

QueueInv == JobTypes /\ LockHeld /\ SettingsRead /\ PauseControl

\* At first nobody holds the lock and CPAMP runs.
LEMMA QueueInitially == QueueInit => QueueInv
<1> SUFFICES ASSUME QueueInit PROVE QueueInv
  OBVIOUS
<1>1. /\ web = [step |-> "idle", form |-> "none", repo |-> "none", old |-> "none"]
      /\ job = [r \in Runners |-> [step |-> "idle", repo |-> "none", token |-> "none",
                                   manual |-> FALSE, taken |-> FALSE]]
  BY DEF QueueInit, Free, WebFree
<1>2. JobTypes
  BY <1>1 DEF JobTypes, Record, Form
<1>3. LockHeld /\ SettingsRead
  BY <1>1 DEF LockHeld, Holding, WebHolding, SettingsRead, UsesSettings, UsesToken, BackupSteps,
     RestoreSteps
<1>4. PauseControl
  BY <1>1 DEF QueueInit, PauseControl, Snapping
<1> QED BY <1>2, <1>3, <1>4 DEF QueueInv

\* What a step does to the jobs: one of them changes.
Others(r) == /\ job' = [o \in Runners |-> job'[o]] /\ \A o \in Runners : Record(job'[o])
             /\ \A o \in Runners : o # r => job'[o] = job[o]
Goes(r, step) == job'[r].step = step /\ job'[r].repo = job[r].repo /\ job'[r].token = job[r].token
Leaves(r) == job'[r].step = "idle" /\ job'[r].token = "none"

\* A job goes to another step.
LEMMA JobWent ==
    ASSUME JobTypes, NEW r \in Runners, NEW step, Go(r, step)
    PROVE  Others(r) /\ Goes(r, step)
BY DEF JobTypes, Record, Go, Others, Goes

\* A job ends and forgets its token.
LEMMA JobLeft ==
    ASSUME JobTypes, NEW r \in Runners, Leave(r)
    PROVE  Others(r) /\ Leaves(r)
BY DEF JobTypes, Record, Leave, Free, Others, Leaves

\* A job begins with the repository it read.
LEMMA JobStarted ==
    ASSUME JobTypes, NEW r \in Runners, NEW step,
           job' = [job EXCEPT ![r].step = step, ![r].repo = config, ![r].manual = pending]
    PROVE  /\ Others(r)
           /\ job'[r].step = step /\ job'[r].repo = config /\ job'[r].token = job[r].token
<1> DEFINE i == job[r]
           j == [i EXCEPT !.step = step]
           k == [j EXCEPT !.repo = config]
           l == [k EXCEPT !.manual = pending]
<1>1. job' = [o \in Runners |-> IF o = r THEN l ELSE job[o]]
  BY DEF JobTypes
<1>2. i = [step |-> i.step, repo |-> i.repo, token |-> i.token, manual |-> i.manual,
           taken |-> i.taken]
  BY DEF JobTypes, Record
<1> HIDE DEF i
<1>3. j = [step |-> step, repo |-> i.repo, token |-> i.token,
           manual |-> i.manual, taken |-> i.taken]
  BY <1>2
<1> HIDE DEF j
<1>4. k = [step |-> step, repo |-> config, token |-> i.token,
           manual |-> i.manual, taken |-> i.taken]
  BY <1>3
<1> HIDE DEF k
<1>5. l = [step |-> step, repo |-> config, token |-> i.token,
           manual |-> pending, taken |-> i.taken]
  BY <1>4
<1> HIDE DEF l
<1> QED BY <1>1, <1>5 DEF JobTypes, Record, Others, Goes, i

\* A job reads the token.
LEMMA JobHasToken ==
    ASSUME JobTypes, NEW r \in Runners, NEW step,
           job' = [job EXCEPT ![r].step = step, ![r].token = token]
    PROVE  /\ Others(r)
           /\ job'[r].step = step /\ job'[r].repo = job[r].repo /\ job'[r].token = token
<1> DEFINE i == job[r]
           j == [i EXCEPT !.step = step]
           k == [j EXCEPT !.token = token]
<1>1. job' = [o \in Runners |-> IF o = r THEN k ELSE job[o]]
  BY DEF JobTypes
<1>2. i = [step |-> i.step, repo |-> i.repo, token |-> i.token, manual |-> i.manual,
           taken |-> i.taken]
  BY DEF JobTypes, Record
<1> HIDE DEF i
<1>3. j = [step |-> step, repo |-> i.repo, token |-> i.token,
           manual |-> i.manual, taken |-> i.taken]
  BY <1>2
<1> HIDE DEF j
<1>4. k = [step |-> step, repo |-> i.repo, token |-> token,
           manual |-> i.manual, taken |-> i.taken]
  BY <1>3
<1> HIDE DEF k
<1> QED BY <1>1, <1>4 DEF JobTypes, Record, Others, Goes, i

\* A job notes whether the snapshot was taken.
LEMMA JobTaken ==
    ASSUME JobTypes, NEW r \in Runners, NEW step, NEW taken,
           job' = [job EXCEPT ![r].step = step, ![r].taken = taken]
    PROVE  Others(r) /\ Goes(r, step)
<1> DEFINE i == job[r]
           j == [i EXCEPT !.step = step]
           k == [j EXCEPT !.taken = taken]
<1>1. job' = [o \in Runners |-> IF o = r THEN k ELSE job[o]]
  BY DEF JobTypes
<1>2. i = [step |-> i.step, repo |-> i.repo, token |-> i.token, manual |-> i.manual,
           taken |-> i.taken]
  BY DEF JobTypes, Record
<1> HIDE DEF i
<1>3. j = [step |-> step, repo |-> i.repo, token |-> i.token,
           manual |-> i.manual, taken |-> i.taken]
  BY <1>2
<1> HIDE DEF j
<1>4. k = [step |-> step, repo |-> i.repo, token |-> i.token,
           manual |-> i.manual, taken |-> taken]
  BY <1>3
<1> HIDE DEF k
<1> QED BY <1>1, <1>4 DEF JobTypes, Record, Others, Goes, i

\* From here on, one action at a time: it keeps the lock, the settings of the jobs and
\* the pause.
LEMMA DecideKeeps ==
    ASSUME QueueInv, NEW r \in Runners, Decide(r)
    PROVE  QueueInv'
<1>1. /\ UNCHANGED <<web, config, token>> /\ job[r].step = "idle"
      /\ Others(r)
      /\ \/ \E s \in {"recover", "restore lock", "host lock"} : Goes(r, s)
         \/ job'[r].step = "backup lock" /\ job'[r].repo = config /\ job'[r].token = job[r].token
      /\ UNCHANGED <<runnerLock, pause>>
  BY JobWent, JobLeft, JobStarted DEF QueueInv, Decide, At, files, pause
<1>2. JobTypes'
  BY <1>1 DEF QueueInv, JobTypes, Others
<1>3. LockHeld'
  BY <1>1, QueueAssumption DEF QueueInv, LockHeld, Holding, WebHolding, BackupSteps,
     RestoreSteps, Others, Goes, Leaves
<1>4. SettingsRead'
  BY ZenonT(60), <1>1 DEF QueueInv, SettingsRead, UsesSettings, UsesToken, BackupSteps, Others, Goes,
     Leaves
<1>5. PauseControl'
  BY <1>1, QueueAssumption DEF QueueInv, PauseControl, Snapping, pause, Others, Goes, Leaves
<1> QED BY <1>2, <1>3, <1>4, <1>5 DEF QueueInv

LEMMA LockBackupKeeps ==
    ASSUME QueueInv, NEW r \in Runners, LockBackup(r)
    PROVE  QueueInv'
<1>1. /\ UNCHANGED <<web, config, token>> /\ job[r].step = "backup lock"
      /\ Others(r)
      /\ \/ Goes(r, "read again") /\ runnerLock = "free" /\ runnerLock' = r /\ UNCHANGED pause
         \/ Leaves(r) /\ UNCHANGED <<runnerLock, pause>>
  BY JobWent, JobLeft DEF QueueInv, LockBackup, TakeRunnerLock, At, files, pause
<1>2. JobTypes'
  BY <1>1 DEF QueueInv, JobTypes, Others
<1>3. LockHeld'
  BY <1>1, QueueAssumption DEF QueueInv, LockHeld, Holding, WebHolding, BackupSteps,
     RestoreSteps, Others, Goes, Leaves
<1>4. SettingsRead'
  BY ZenonT(60), <1>1 DEF QueueInv, SettingsRead, UsesSettings, UsesToken, BackupSteps, Others, Goes,
     Leaves
<1>5. PauseControl'
  BY <1>1, QueueAssumption DEF QueueInv, PauseControl, Snapping, pause, Others, Goes, Leaves
<1> QED BY <1>2, <1>3, <1>4, <1>5 DEF QueueInv

LEMMA ReadAgainKeeps ==
    ASSUME QueueInv, NEW r \in Runners, ReadAgain(r)
    PROVE  QueueInv'
<1>1. /\ UNCHANGED <<web, config, token>> /\ job[r].step = "read again"
      /\ Others(r)
      /\ \/ job'[r].step = "start" /\ job'[r].repo = config /\ job'[r].token = job[r].token /\ UNCHANGED runnerLock
         \/ Leaves(r) /\ runnerLock' = "free"
      /\ UNCHANGED pause
  BY JobWent, JobLeft, JobStarted DEF QueueInv, ReadAgain, At, files, pause
<1>2. JobTypes'
  BY <1>1 DEF QueueInv, JobTypes, Others
<1>3. LockHeld'
  BY <1>1, QueueAssumption DEF QueueInv, LockHeld, Holding, WebHolding, BackupSteps,
     RestoreSteps, Others, Goes, Leaves
<1>4. SettingsRead'
  BY ZenonT(60), <1>1 DEF QueueInv, SettingsRead, UsesSettings, UsesToken, BackupSteps, Others, Goes,
     Leaves
<1>5. PauseControl'
  BY <1>1, QueueAssumption DEF QueueInv, PauseControl, Snapping, pause, Others, Goes, Leaves
<1> QED BY <1>2, <1>3, <1>4, <1>5 DEF QueueInv

LEMMA StartBackupKeeps ==
    ASSUME QueueInv, NEW r \in Runners, StartBackup(r)
    PROVE  QueueInv'
<1>1. /\ UNCHANGED <<web, config, token>> /\ job[r].step = "start"
      /\ Others(r)
      /\ \/ Goes(r, "credentials") /\ UNCHANGED runnerLock
         \/ Leaves(r) /\ runnerLock' = "free"
      /\ UNCHANGED pause
  BY JobWent, JobLeft DEF QueueInv, StartBackup, At, files, pause
<1>2. JobTypes'
  BY <1>1 DEF QueueInv, JobTypes, Others
<1>3. LockHeld'
  BY <1>1, QueueAssumption DEF QueueInv, LockHeld, Holding, WebHolding, BackupSteps,
     RestoreSteps, Others, Goes, Leaves
<1>4. SettingsRead'
  BY ZenonT(60), <1>1 DEF QueueInv, SettingsRead, UsesSettings, UsesToken, BackupSteps, Others, Goes,
     Leaves
<1>5. PauseControl'
  BY <1>1, QueueAssumption DEF QueueInv, PauseControl, Snapping, pause, Others, Goes, Leaves
<1> QED BY <1>2, <1>3, <1>4, <1>5 DEF QueueInv

LEMMA PreflightKeeps ==
    ASSUME QueueInv, NEW r \in Runners, Preflight(r)
    PROVE  QueueInv'
<1>1. /\ UNCHANGED <<web, config, token>> /\ job[r].step = "credentials"
      /\ Others(r)
      /\ \/ job'[r].step = "mark" /\ job'[r].repo = job[r].repo /\ job'[r].token = token
         \/ Goes(r, "finish")
      /\ UNCHANGED <<runnerLock, pause>>
  BY JobWent, JobLeft, JobHasToken DEF QueueInv, Preflight, At, EndBackup, files, pause
<1>2. JobTypes'
  BY <1>1 DEF QueueInv, JobTypes, Others
<1>3. LockHeld'
  BY <1>1, QueueAssumption DEF QueueInv, LockHeld, Holding, WebHolding, BackupSteps,
     RestoreSteps, Others, Goes, Leaves
<1>4. SettingsRead'
  BY <1>1 DEF QueueInv, SettingsRead, UsesSettings, UsesToken, BackupSteps, Others, Goes,
     Leaves
<1>5. PauseControl'
  BY <1>1, QueueAssumption DEF QueueInv, PauseControl, Snapping, pause, Others, Goes, Leaves
<1> QED BY <1>2, <1>3, <1>4, <1>5 DEF QueueInv

LEMMA MakeMarkerKeeps ==
    ASSUME QueueInv, NEW r \in Runners, MakeMarker(r)
    PROVE  QueueInv'
<1>1. /\ UNCHANGED <<web, config, token>> /\ job[r].step = "mark"
      /\ Others(r)
      /\ \/ Goes(r, "record") /\ marker' = "empty" /\ lease' = r /\ marker = "none" /\ manager = "up"
         \/ Goes(r, "finish") /\ UNCHANGED <<marker, lease>>
      /\ UNCHANGED <<runnerLock, manager>>
      /\ SlowRecovery \/ \A o \in Runners : job[o].step \notin {"restart", "recovered"}
  BY JobWent, JobLeft DEF QueueInv, MakeMarker, ManagerRuns, At, EndBackup, files, pause
<1>2. JobTypes'
  BY <1>1 DEF QueueInv, JobTypes, Others
<1>3. LockHeld'
  BY <1>1, QueueAssumption DEF QueueInv, LockHeld, Holding, WebHolding, BackupSteps,
     RestoreSteps, Others, Goes, Leaves
<1>4. SettingsRead'
  BY <1>1 DEF QueueInv, SettingsRead, UsesSettings, UsesToken, BackupSteps, Others, Goes,
     Leaves
<1>5. PauseControl'
  <2>1. \A o \in Runners : o # r => ~Holding(o)
    BY <1>1 DEF QueueInv, LockHeld, Holding, BackupSteps
  <2> QED
    BY <1>1, <2>1, QueueAssumption DEF QueueInv, PauseControl, Snapping, Holding, BackupSteps,
     pause, Others, Goes, Leaves
<1> QED BY <1>2, <1>3, <1>4, <1>5 DEF QueueInv

LEMMA RecordPauseKeeps ==
    ASSUME QueueInv, NEW r \in Runners, RecordPause(r)
    PROVE  QueueInv'
<1>1. /\ UNCHANGED <<web, config, token>> /\ job[r].step = "record"
      /\ Others(r)
      /\ \/ Goes(r, "stop") /\ marker' = "recorded" /\ UNCHANGED lease
         \/ Goes(r, "finish") /\ marker' = "none" /\ lease' = "none"
      /\ UNCHANGED <<runnerLock, manager>>
  BY JobWent, JobLeft DEF QueueInv, RecordPause, At, EndBackup, files, pause
<1>2. JobTypes'
  BY <1>1 DEF QueueInv, JobTypes, Others
<1>3. LockHeld'
  BY <1>1, QueueAssumption DEF QueueInv, LockHeld, Holding, WebHolding, BackupSteps,
     RestoreSteps, Others, Goes, Leaves
<1>4. SettingsRead'
  BY <1>1 DEF QueueInv, SettingsRead, UsesSettings, UsesToken, BackupSteps, Others, Goes,
     Leaves
<1>5. PauseControl'
  <2>1. \A o \in Runners : o # r => ~Holding(o)
    BY <1>1 DEF QueueInv, LockHeld, Holding, BackupSteps
  <2> QED
    BY <1>1, <2>1, QueueAssumption DEF QueueInv, PauseControl, Snapping, Holding, BackupSteps,
     pause, Others, Goes, Leaves
<1> QED BY <1>2, <1>3, <1>4, <1>5 DEF QueueInv

LEMMA StopManagerKeeps ==
    ASSUME QueueInv, NEW r \in Runners, StopManager(r)
    PROVE  QueueInv'
<1>1. /\ UNCHANGED <<web, config, token>> /\ job[r].step = "stop"
      /\ Others(r)
      /\ \/ Goes(r, "collect") /\ manager' = "down"
         \/ Goes(r, "resume") /\ manager' \in {manager, "down"}
      /\ UNCHANGED <<runnerLock, marker, lease>>
  BY JobWent, JobLeft, JobTaken DEF QueueInv, StopManager, At, files, pause
<1>2. JobTypes'
  BY <1>1 DEF QueueInv, JobTypes, Others
<1>3. LockHeld'
  BY <1>1, QueueAssumption DEF QueueInv, LockHeld, Holding, WebHolding, BackupSteps,
     RestoreSteps, Others, Goes, Leaves
<1>4. SettingsRead'
  BY <1>1 DEF QueueInv, SettingsRead, UsesSettings, UsesToken, BackupSteps, Others, Goes,
     Leaves
<1>5. PauseControl'
  <2>1. \A o \in Runners : o # r => ~Holding(o)
    BY <1>1 DEF QueueInv, LockHeld, Holding, BackupSteps
  <2> QED
    BY <1>1, <2>1, QueueAssumption DEF QueueInv, PauseControl, Snapping, Holding, BackupSteps,
     pause, Others, Goes, Leaves
<1> QED BY <1>2, <1>3, <1>4, <1>5 DEF QueueInv

LEMMA CollectKeeps ==
    ASSUME QueueInv, NEW r \in Runners, Collect(r)
    PROVE  QueueInv'
<1>1. /\ UNCHANGED <<web, config, token>> /\ job[r].step = "collect"
      /\ Others(r)
      /\ Goes(r, "resume")
      /\ UNCHANGED <<runnerLock, pause>>
  BY JobWent, JobLeft, JobTaken DEF QueueInv, Collect, At, files, pause
<1>2. JobTypes'
  BY <1>1 DEF QueueInv, JobTypes, Others
<1>3. LockHeld'
  BY <1>1, QueueAssumption DEF QueueInv, LockHeld, Holding, WebHolding, BackupSteps,
     RestoreSteps, Others, Goes, Leaves
<1>4. SettingsRead'
  BY <1>1 DEF QueueInv, SettingsRead, UsesSettings, UsesToken, BackupSteps, Others, Goes,
     Leaves
<1>5. PauseControl'
  BY <1>1, QueueAssumption DEF QueueInv, PauseControl, Snapping, pause, Others, Goes, Leaves
<1> QED BY <1>2, <1>3, <1>4, <1>5 DEF QueueInv

LEMMA ResumeKeeps ==
    ASSUME QueueInv, NEW r \in Runners, Resume(r)
    PROVE  QueueInv'
<1>1. /\ UNCHANGED <<web, config, token>> /\ job[r].step = "resume"
      /\ Others(r)
      /\ \/ Goes(r, "unmark") /\ manager' = "up"
         \/ Goes(r, "finish") /\ manager' \in {manager, "up"}
      /\ UNCHANGED <<runnerLock, marker>> /\ lease' = "none"
  BY JobWent, JobLeft DEF QueueInv, Resume, At, EndBackup, files, pause
<1>2. JobTypes'
  BY <1>1 DEF QueueInv, JobTypes, Others
<1>3. LockHeld'
  BY <1>1, QueueAssumption DEF QueueInv, LockHeld, Holding, WebHolding, BackupSteps,
     RestoreSteps, Others, Goes, Leaves
<1>4. SettingsRead'
  BY <1>1 DEF QueueInv, SettingsRead, UsesSettings, UsesToken, BackupSteps, Others, Goes,
     Leaves
<1>5. PauseControl'
  <2>1. \A o \in Runners : o # r => ~Holding(o)
    BY <1>1 DEF QueueInv, LockHeld, Holding, BackupSteps
  <2> QED
    BY <1>1, <2>1, QueueAssumption DEF QueueInv, PauseControl, Snapping, Holding, BackupSteps,
     pause, Others, Goes, Leaves
<1> QED BY <1>2, <1>3, <1>4, <1>5 DEF QueueInv

LEMMA UnmarkKeeps ==
    ASSUME QueueInv, NEW r \in Runners, Unmark(r)
    PROVE  QueueInv'
<1>1. /\ UNCHANGED <<web, config, token>> /\ job[r].step = "unmark"
      /\ \/ UNCHANGED <<job, lease>> /\ marker' = "empty"
         \/ \E s \in {"upload", "finish"} : Others(r) /\ Goes(r, s) /\ marker' = "none" /\ lease' = "none"
      /\ UNCHANGED <<runnerLock, manager>>
  BY JobWent, JobLeft DEF QueueInv, Unmark, At, files, pause
<1>2. JobTypes'
  BY <1>1 DEF QueueInv, JobTypes, Others
<1>3. LockHeld'
  BY <1>1, QueueAssumption DEF QueueInv, LockHeld, Holding, WebHolding, BackupSteps,
     RestoreSteps, Others, Goes, Leaves
<1>4. SettingsRead'
  BY <1>1 DEF QueueInv, SettingsRead, UsesSettings, UsesToken, BackupSteps, Others, Goes,
     Leaves
<1>5. PauseControl'
  <2>1. \A o \in Runners : o # r => ~Holding(o)
    BY <1>1 DEF QueueInv, LockHeld, Holding, BackupSteps
  <2> QED
    BY <1>1, <2>1, QueueAssumption DEF QueueInv, PauseControl, Snapping, Holding, BackupSteps,
     pause, Others, Goes, Leaves
<1> QED BY <1>2, <1>3, <1>4, <1>5 DEF QueueInv

LEMMA TakeLeaseKeeps ==
    ASSUME QueueInv, NEW r \in Runners, TakeLease(r)
    PROVE  QueueInv'
<1>1. /\ UNCHANGED <<web, config, token>> /\ job[r].step = "recover"
      /\ Others(r)
      /\ \/ Goes(r, "restart") /\ lease = "none" /\ lease' = r
         \/ Leaves(r) /\ UNCHANGED lease
      /\ UNCHANGED <<runnerLock, marker, manager>>
  BY JobWent, JobLeft DEF QueueInv, TakeLease, At, files, pause
<1>2. JobTypes'
  BY <1>1 DEF QueueInv, JobTypes, Others
<1>3. LockHeld'
  BY <1>1, QueueAssumption DEF QueueInv, LockHeld, Holding, WebHolding, BackupSteps,
     RestoreSteps, Others, Goes, Leaves
<1>4. SettingsRead'
  BY <1>1 DEF QueueInv, SettingsRead, UsesSettings, UsesToken, BackupSteps, Others, Goes,
     Leaves
<1>5. PauseControl'
  BY <1>1, QueueAssumption DEF QueueInv, PauseControl, Snapping, pause, Others, Goes, Leaves
<1> QED BY <1>2, <1>3, <1>4, <1>5 DEF QueueInv

LEMMA RestartManagerKeeps ==
    ASSUME QueueInv, NEW r \in Runners, RestartManager(r)
    PROVE  QueueInv'
<1>1. /\ UNCHANGED <<web, config, token>> /\ job[r].step = "restart"
      /\ Others(r)
      /\ \/ Goes(r, "recovered") /\ manager' = "up"
         \/ Leaves(r) /\ manager' \in {manager, "up"}
      /\ UNCHANGED <<runnerLock, marker>> /\ (lease # r => UNCHANGED lease)
  BY JobWent, JobLeft DEF QueueInv, RestartManager, DropLease, At, files, pause
<1>2. JobTypes'
  BY <1>1 DEF QueueInv, JobTypes, Others
<1>3. LockHeld'
  BY <1>1, QueueAssumption DEF QueueInv, LockHeld, Holding, WebHolding, BackupSteps,
     RestoreSteps, Others, Goes, Leaves
<1>4. SettingsRead'
  BY ZenonT(60), <1>1 DEF QueueInv, SettingsRead, UsesSettings, UsesToken, BackupSteps, Others, Goes,
     Leaves
<1>5. PauseControl'
  BY <1>1, QueueAssumption DEF QueueInv, PauseControl, Snapping, pause, Others, Goes, Leaves
<1> QED BY <1>2, <1>3, <1>4, <1>5 DEF QueueInv

LEMMA RecoveredKeeps ==
    ASSUME QueueInv, NEW r \in Runners, Recovered(r)
    PROVE  QueueInv'
<1>1. /\ UNCHANGED <<web, config, token>> /\ job[r].step = "recovered"
      /\ \/ UNCHANGED <<job, lease>> /\ marker' = "empty"
         \/ Others(r) /\ Leaves(r) /\ marker' = "none" /\ lease' = "none"
      /\ UNCHANGED <<runnerLock, manager>>
  BY JobWent, JobLeft DEF QueueInv, Recovered, At, files, pause
<1>2. JobTypes'
  BY <1>1 DEF QueueInv, JobTypes, Others
<1>3. LockHeld'
  BY <1>1, QueueAssumption DEF QueueInv, LockHeld, Holding, WebHolding, BackupSteps,
     RestoreSteps, Others, Goes, Leaves
<1>4. SettingsRead'
  BY <1>1 DEF QueueInv, SettingsRead, UsesSettings, UsesToken, BackupSteps, Others, Goes,
     Leaves
<1>5. PauseControl'
  BY <1>1, QueueAssumption DEF QueueInv, PauseControl, Snapping, pause, Others, Goes, Leaves
<1> QED BY <1>2, <1>3, <1>4, <1>5 DEF QueueInv

LEMMA UploadKeeps ==
    ASSUME QueueInv, NEW r \in Runners, Upload(r)
    PROVE  QueueInv'
<1>1. /\ UNCHANGED <<web, config, token>> /\ job[r].step = "upload"
      /\ Others(r)
      /\ Goes(r, "finish")
      /\ UNCHANGED <<runnerLock, pause>>
  BY JobWent, JobLeft DEF QueueInv, Upload, At, EndBackup, files, pause
<1>2. JobTypes'
  BY <1>1 DEF QueueInv, JobTypes, Others
<1>3. LockHeld'
  BY <1>1, QueueAssumption DEF QueueInv, LockHeld, Holding, WebHolding, BackupSteps,
     RestoreSteps, Others, Goes, Leaves
<1>4. SettingsRead'
  BY <1>1 DEF QueueInv, SettingsRead, UsesSettings, UsesToken, BackupSteps, Others, Goes,
     Leaves
<1>5. PauseControl'
  BY <1>1, QueueAssumption DEF QueueInv, PauseControl, Snapping, pause, Others, Goes, Leaves
<1> QED BY <1>2, <1>3, <1>4, <1>5 DEF QueueInv

LEMMA FinishBackupKeeps ==
    ASSUME QueueInv, NEW r \in Runners, FinishBackup(r)
    PROVE  QueueInv'
<1>1. /\ UNCHANGED <<web, config, token>> /\ job[r].step = "finish"
      /\ Others(r)
      /\ Leaves(r)
      /\ runnerLock' = "free" /\ UNCHANGED pause
  BY JobWent, JobLeft DEF QueueInv, FinishBackup, At, files, pause
<1>2. JobTypes'
  BY <1>1 DEF QueueInv, JobTypes, Others
<1>3. LockHeld'
  BY <1>1, QueueAssumption DEF QueueInv, LockHeld, Holding, WebHolding, BackupSteps,
     RestoreSteps, Others, Goes, Leaves
<1>4. SettingsRead'
  BY <1>1 DEF QueueInv, SettingsRead, UsesSettings, UsesToken, BackupSteps, Others, Goes,
     Leaves
<1>5. PauseControl'
  BY <1>1, QueueAssumption DEF QueueInv, PauseControl, Snapping, pause, Others, Goes, Leaves
<1> QED BY <1>2, <1>3, <1>4, <1>5 DEF QueueInv

LEMMA LockRestoreKeeps ==
    ASSUME QueueInv, NEW r \in Runners, LockRestore(r)
    PROVE  QueueInv'
<1>1. /\ UNCHANGED <<web, config, token>> /\ job[r].step = "restore lock"
      /\ Others(r)
      /\ \/ Goes(r, "restore read") /\ runnerLock = "free" /\ runnerLock' = r /\ UNCHANGED pause
         \/ Leaves(r) /\ UNCHANGED <<runnerLock, pause>>
  BY JobWent, JobLeft DEF QueueInv, LockRestore, TakeRunnerLock, At, files, pause
<1>2. JobTypes'
  BY <1>1 DEF QueueInv, JobTypes, Others
<1>3. LockHeld'
  BY <1>1, QueueAssumption DEF QueueInv, LockHeld, Holding, WebHolding, BackupSteps,
     RestoreSteps, Others, Goes, Leaves
<1>4. SettingsRead'
  BY ZenonT(60), <1>1 DEF QueueInv, SettingsRead, UsesSettings, UsesToken, BackupSteps, Others, Goes,
     Leaves
<1>5. PauseControl'
  BY <1>1, QueueAssumption DEF QueueInv, PauseControl, Snapping, pause, Others, Goes, Leaves
<1> QED BY <1>2, <1>3, <1>4, <1>5 DEF QueueInv

LEMMA ReadRestoreKeeps ==
    ASSUME QueueInv, NEW r \in Runners, ReadRestore(r)
    PROVE  QueueInv'
<1>1. /\ UNCHANGED <<web, config, token>> /\ job[r].step = "restore read"
      /\ Others(r)
      /\ \/ \E s \in {"restore recover", "restore run"} : Goes(r, s) /\ UNCHANGED runnerLock
         \/ Leaves(r) /\ runnerLock' = "free"
      /\ UNCHANGED pause
  BY JobWent, JobLeft DEF QueueInv, ReadRestore, At, files, pause
<1>2. JobTypes'
  BY <1>1 DEF QueueInv, JobTypes, Others
<1>3. LockHeld'
  BY <1>1, QueueAssumption DEF QueueInv, LockHeld, Holding, WebHolding, BackupSteps,
     RestoreSteps, Others, Goes, Leaves
<1>4. SettingsRead'
  BY ZenonT(60), <1>1 DEF QueueInv, SettingsRead, UsesSettings, UsesToken, BackupSteps, Others, Goes,
     Leaves
<1>5. PauseControl'
  BY <1>1, QueueAssumption DEF QueueInv, PauseControl, Snapping, pause, Others, Goes, Leaves
<1> QED BY <1>2, <1>3, <1>4, <1>5 DEF QueueInv

LEMMA RestoreBeginsKeeps ==
    ASSUME QueueInv, NEW r \in Runners, RestoreBegins(r)
    PROVE  QueueInv'
<1>1. /\ UNCHANGED <<web, config, token>> /\ job[r].step = "restore run"
      /\ Others(r)
      /\ \/ Goes(r, "restore end") /\ UNCHANGED runnerLock
         \/ Leaves(r) /\ runnerLock' = "free"
      /\ UNCHANGED pause
  BY JobWent, JobLeft DEF QueueInv, RestoreBegins, At, files, pause
<1>2. JobTypes'
  BY <1>1 DEF QueueInv, JobTypes, Others
<1>3. LockHeld'
  BY <1>1, QueueAssumption DEF QueueInv, LockHeld, Holding, WebHolding, BackupSteps,
     RestoreSteps, Others, Goes, Leaves
<1>4. SettingsRead'
  BY ZenonT(60), <1>1 DEF QueueInv, SettingsRead, UsesSettings, UsesToken, BackupSteps, Others, Goes,
     Leaves
<1>5. PauseControl'
  BY <1>1, QueueAssumption DEF QueueInv, PauseControl, Snapping, pause, Others, Goes, Leaves
<1> QED BY <1>2, <1>3, <1>4, <1>5 DEF QueueInv

LEMMA RestoreEndsKeeps ==
    ASSUME QueueInv, NEW r \in Runners, RestoreEnds(r)
    PROVE  QueueInv'
<1>1. /\ UNCHANGED <<web, config, token>> /\ job[r].step = "restore end"
      /\ Others(r)
      /\ Leaves(r)
      /\ runnerLock' = "free" /\ UNCHANGED pause
  BY JobWent, JobLeft DEF QueueInv, RestoreEnds, At, files, pause
<1>2. JobTypes'
  BY <1>1 DEF QueueInv, JobTypes, Others
<1>3. LockHeld'
  BY <1>1, QueueAssumption DEF QueueInv, LockHeld, Holding, WebHolding, BackupSteps,
     RestoreSteps, Others, Goes, Leaves
<1>4. SettingsRead'
  BY <1>1 DEF QueueInv, SettingsRead, UsesSettings, UsesToken, BackupSteps, Others, Goes,
     Leaves
<1>5. PauseControl'
  BY <1>1, QueueAssumption DEF QueueInv, PauseControl, Snapping, pause, Others, Goes, Leaves
<1> QED BY <1>2, <1>3, <1>4, <1>5 DEF QueueInv

LEMMA RestoreRecoversKeeps ==
    ASSUME QueueInv, NEW r \in Runners, RestoreRecovers(r)
    PROVE  QueueInv'
<1>1. /\ UNCHANGED <<web, config, token>> /\ job[r].step = "restore recover"
      /\ Others(r)
      /\ Leaves(r)
      /\ runnerLock' = "free" /\ UNCHANGED pause
  BY JobWent, JobLeft DEF QueueInv, RestoreRecovers, At, files, pause
<1>2. JobTypes'
  BY <1>1 DEF QueueInv, JobTypes, Others
<1>3. LockHeld'
  BY <1>1, QueueAssumption DEF QueueInv, LockHeld, Holding, WebHolding, BackupSteps,
     RestoreSteps, Others, Goes, Leaves
<1>4. SettingsRead'
  BY <1>1 DEF QueueInv, SettingsRead, UsesSettings, UsesToken, BackupSteps, Others, Goes,
     Leaves
<1>5. PauseControl'
  BY <1>1, QueueAssumption DEF QueueInv, PauseControl, Snapping, pause, Others, Goes, Leaves
<1> QED BY <1>2, <1>3, <1>4, <1>5 DEF QueueInv

LEMMA LockHostKeeps ==
    ASSUME QueueInv, NEW r \in Runners, LockHost(r)
    PROVE  QueueInv'
<1>1. /\ UNCHANGED <<web, config, token>> /\ job[r].step = "host lock"
      /\ Others(r)
      /\ \/ Goes(r, "host") /\ runnerLock = "free" /\ runnerLock' = r /\ UNCHANGED pause
         \/ Leaves(r) /\ UNCHANGED <<runnerLock, pause>>
  BY JobWent, JobLeft DEF QueueInv, LockHost, TakeRunnerLock, At, files, pause
<1>2. JobTypes'
  BY <1>1 DEF QueueInv, JobTypes, Others
<1>3. LockHeld'
  BY <1>1, QueueAssumption DEF QueueInv, LockHeld, Holding, WebHolding, BackupSteps,
     RestoreSteps, Others, Goes, Leaves
<1>4. SettingsRead'
  BY ZenonT(60), <1>1 DEF QueueInv, SettingsRead, UsesSettings, UsesToken, BackupSteps, Others, Goes,
     Leaves
<1>5. PauseControl'
  BY <1>1, QueueAssumption DEF QueueInv, PauseControl, Snapping, pause, Others, Goes, Leaves
<1> QED BY <1>2, <1>3, <1>4, <1>5 DEF QueueInv

LEMMA ResumeHostKeeps ==
    ASSUME QueueInv, NEW r \in Runners, ResumeHost(r)
    PROVE  QueueInv'
<1>1. /\ UNCHANGED <<web, config, token>> /\ job[r].step = "host"
      /\ Others(r)
      /\ Leaves(r)
      /\ runnerLock' = "free" /\ UNCHANGED pause
  BY JobWent, JobLeft DEF QueueInv, ResumeHost, At, files, pause
<1>2. JobTypes'
  BY <1>1 DEF QueueInv, JobTypes, Others
<1>3. LockHeld'
  BY <1>1, QueueAssumption DEF QueueInv, LockHeld, Holding, WebHolding, BackupSteps,
     RestoreSteps, Others, Goes, Leaves
<1>4. SettingsRead'
  BY <1>1 DEF QueueInv, SettingsRead, UsesSettings, UsesToken, BackupSteps, Others, Goes,
     Leaves
<1>5. PauseControl'
  BY <1>1, QueueAssumption DEF QueueInv, PauseControl, Snapping, pause, Others, Goes, Leaves
<1> QED BY <1>2, <1>3, <1>4, <1>5 DEF QueueInv

LEMMA RunnerDiesKeeps ==
    ASSUME QueueInv, NEW r \in Runners, RunnerDies(r)
    PROVE  QueueInv'
<1>1. /\ UNCHANGED <<web, config, token>>
      /\ Others(r)
      /\ Leaves(r)
      /\ runnerLock' = (IF runnerLock = r THEN "stale" ELSE runnerLock)
      /\ (lease # r => UNCHANGED lease) /\ UNCHANGED <<marker, manager>>
  BY JobWent, JobLeft DEF QueueInv, RunnerDies, At, files, pause
<1>2. JobTypes'
  BY <1>1 DEF QueueInv, JobTypes, Others
<1>3. LockHeld'
  BY <1>1, QueueAssumption DEF QueueInv, LockHeld, Holding, WebHolding, BackupSteps,
     RestoreSteps, Others, Goes, Leaves
<1>4. SettingsRead'
  BY <1>1 DEF QueueInv, SettingsRead, UsesSettings, UsesToken, BackupSteps, Others, Goes,
     Leaves
<1>5. PauseControl'
  BY <1>1, QueueAssumption DEF QueueInv, PauseControl, Snapping, pause, Others, Goes, Leaves
<1> QED BY <1>2, <1>3, <1>4, <1>5 DEF QueueInv

\* The forms leave jobs and pause alone, and write only under the lock.

LEMMA RequestBackupKeeps ==
    ASSUME QueueInv, RequestBackup
    PROVE  QueueInv'
<1>1. /\ UNCHANGED <<job, pause>>
      /\ Form(web') /\ web'.step = "publish" /\ UNCHANGED <<runnerLock, config, token>>
  BY DEF QueueInv, JobTypes, Form, RequestBackup, WebAt, WebGoto, WebDone, WebFree, files,
     pause
<1>2. JobTypes'
  BY <1>1 DEF QueueInv, JobTypes
<1>3. LockHeld'
  BY <1>1, QueueAssumption DEF QueueInv, LockHeld, Holding, WebHolding
<1>4. SettingsRead'
  BY <1>1 DEF QueueInv, SettingsRead, UsesSettings, UsesToken
<1>5. PauseControl'
  BY <1>1 DEF QueueInv, PauseControl, Snapping, pause
<1> QED BY <1>2, <1>3, <1>4, <1>5 DEF QueueInv

LEMMA UploadRestoreKeeps ==
    ASSUME QueueInv, UploadRestore
    PROVE  QueueInv'
<1>1. /\ UNCHANGED <<job, pause>>
      /\ Form(web') /\ web'.step = "publish" /\ UNCHANGED <<runnerLock, config, token>>
  BY DEF QueueInv, JobTypes, Form, UploadRestore, WebAt, WebGoto, WebDone, WebFree, files,
     pause
<1>2. JobTypes'
  BY <1>1 DEF QueueInv, JobTypes
<1>3. LockHeld'
  BY <1>1, QueueAssumption DEF QueueInv, LockHeld, Holding, WebHolding
<1>4. SettingsRead'
  BY <1>1 DEF QueueInv, SettingsRead, UsesSettings, UsesToken
<1>5. PauseControl'
  BY <1>1 DEF QueueInv, PauseControl, Snapping, pause
<1> QED BY <1>2, <1>3, <1>4, <1>5 DEF QueueInv

LEMMA OpenSettingsKeeps ==
    ASSUME QueueInv, OpenSettings
    PROVE  QueueInv'
<1>1. /\ UNCHANGED <<job, pause>>
      /\ Form(web') /\ web'.step = "lock" /\ UNCHANGED <<runnerLock, config, token>>
  BY DEF QueueInv, JobTypes, Form, OpenSettings, WebAt, WebGoto, WebDone, WebFree, files,
     pause
<1>2. JobTypes'
  BY <1>1 DEF QueueInv, JobTypes
<1>3. LockHeld'
  BY <1>1, QueueAssumption DEF QueueInv, LockHeld, Holding, WebHolding
<1>4. SettingsRead'
  BY <1>1 DEF QueueInv, SettingsRead, UsesSettings, UsesToken
<1>5. PauseControl'
  BY <1>1 DEF QueueInv, PauseControl, Snapping, pause
<1> QED BY <1>2, <1>3, <1>4, <1>5 DEF QueueInv

LEMMA PublishKeeps ==
    ASSUME QueueInv, Publish
    PROVE  QueueInv'
<1>1. /\ UNCHANGED <<job, pause>>
      /\ Form(web') /\ web'.step = "idle" /\ UNCHANGED <<runnerLock, config, token>>
  BY DEF QueueInv, JobTypes, Form, Publish, PublishRun, PublishRestore, WebAt, WebGoto,
     WebDone, WebFree, files, pause
<1>2. JobTypes'
  BY <1>1 DEF QueueInv, JobTypes
<1>3. LockHeld'
  BY <1>1, QueueAssumption DEF QueueInv, LockHeld, Holding, WebHolding
<1>4. SettingsRead'
  BY <1>1 DEF QueueInv, SettingsRead, UsesSettings, UsesToken
<1>5. PauseControl'
  BY <1>1 DEF QueueInv, PauseControl, Snapping, pause
<1> QED BY <1>2, <1>3, <1>4, <1>5 DEF QueueInv

LEMMA TakeIdleLockKeeps ==
    ASSUME QueueInv, TakeIdleLock
    PROVE  QueueInv'
<1>1. /\ UNCHANGED <<job, pause>>
      /\ Form(web') /\ web.step = "lock" /\ UNCHANGED <<config, token>>
      /\ \/ runnerLock = "free" /\ runnerLock' = "web" /\ web'.step = "check"
         \/ UNCHANGED runnerLock /\ web'.step = "idle"
  BY DEF QueueInv, JobTypes, Form, TakeIdleLock, WebAt, WebGoto, WebDone, WebFree, files,
     pause
<1>2. JobTypes'
  BY <1>1 DEF QueueInv, JobTypes
<1>3. LockHeld'
  BY <1>1, QueueAssumption DEF QueueInv, LockHeld, Holding, WebHolding
<1>4. SettingsRead'
  BY <1>1 DEF QueueInv, SettingsRead, UsesSettings, UsesToken
<1>5. PauseControl'
  BY <1>1 DEF QueueInv, PauseControl, Snapping, pause
<1> QED BY <1>2, <1>3, <1>4, <1>5 DEF QueueInv

LEMMA CheckIdleKeeps ==
    ASSUME QueueInv, CheckIdle
    PROVE  QueueInv'
<1>1. /\ UNCHANGED <<job, pause>>
      /\ Form(web') /\ web.step = "check" /\ UNCHANGED <<config, token>>
      /\ \/ web'.step = "token" /\ UNCHANGED runnerLock
         \/ web'.step = "idle" /\ runnerLock' = "free"
  BY DEF QueueInv, JobTypes, Form, CheckIdle, WebAt, WebGoto, WebDone, WebFree, files, pause
<1>2. JobTypes'
  BY <1>1 DEF QueueInv, JobTypes
<1>3. LockHeld'
  BY <1>1, QueueAssumption DEF QueueInv, LockHeld, Holding, WebHolding
<1>4. SettingsRead'
  BY <1>1 DEF QueueInv, SettingsRead, UsesSettings, UsesToken
<1>5. PauseControl'
  BY <1>1 DEF QueueInv, PauseControl, Snapping, pause
<1> QED BY <1>2, <1>3, <1>4, <1>5 DEF QueueInv

LEMMA SaveTokenKeeps ==
    ASSUME QueueInv, SaveToken
    PROVE  QueueInv'
<1>1. /\ UNCHANGED <<job, pause>>
      /\ Form(web') /\ web.step = "token" /\ UNCHANGED config
      /\ \/ web'.step = "config" /\ UNCHANGED runnerLock
         \/ web'.step = "idle" /\ runnerLock' = "free"
  <2> DEFINE k == [web EXCEPT !.step = "config"]
             l == [web EXCEPT !.step = "config", !.old = token]
  <2>1. k = [step |-> "config", form |-> web.form, repo |-> web.repo, old |-> web.old]
    BY DEF QueueInv, JobTypes, Form
  <2>2. l = [k EXCEPT !.old = token]
    OBVIOUS
  <2> HIDE DEF k
  <2>3. l = [step |-> "config", form |-> web.form, repo |-> web.repo, old |-> token]
    BY <2>1, <2>2
  <2> HIDE DEF l
  <2>4. /\ UNCHANGED <<job, pause, config>> /\ web.step = "token"
        /\ \/ web' = l /\ UNCHANGED runnerLock
           \/ web' = WebFree /\ runnerLock' = "free"
    BY DEF SaveToken, WebAt, WebDone, files, pause, l
  <2> QED BY <2>3, <2>4 DEF Form, WebFree
<1>2. JobTypes'
  BY <1>1 DEF QueueInv, JobTypes
<1>3. LockHeld'
  BY <1>1, QueueAssumption DEF QueueInv, LockHeld, Holding, WebHolding
<1>4. SettingsRead'
  <2>1. \A r \in Runners : ~Holding(r)
    BY <1>1, QueueAssumption DEF QueueInv, LockHeld, WebHolding
  <2> QED
    BY <1>1, <2>1 DEF QueueInv, SettingsRead, UsesSettings, UsesToken, Holding, BackupSteps
<1>5. PauseControl'
  BY <1>1 DEF QueueInv, PauseControl, Snapping, pause
<1> QED BY <1>2, <1>3, <1>4, <1>5 DEF QueueInv

LEMMA SaveConfigKeeps ==
    ASSUME QueueInv, SaveConfig
    PROVE  QueueInv'
<1>1. /\ UNCHANGED <<job, pause>>
      /\ Form(web') /\ web.step = "config" /\ UNCHANGED token
      /\ \/ web'.step = "undo" /\ UNCHANGED runnerLock
         \/ web'.step = "idle" /\ runnerLock' = "free"
  BY DEF QueueInv, JobTypes, Form, SaveConfig, WebAt, WebGoto, WebDone, WebFree, files,
     pause
<1>2. JobTypes'
  BY <1>1 DEF QueueInv, JobTypes
<1>3. LockHeld'
  BY <1>1, QueueAssumption DEF QueueInv, LockHeld, Holding, WebHolding
<1>4. SettingsRead'
  <2>1. \A r \in Runners : ~Holding(r)
    BY <1>1, QueueAssumption DEF QueueInv, LockHeld, WebHolding
  <2> QED
    BY <1>1, <2>1 DEF QueueInv, SettingsRead, UsesSettings, UsesToken, Holding, BackupSteps
<1>5. PauseControl'
  BY <1>1 DEF QueueInv, PauseControl, Snapping, pause
<1> QED BY <1>2, <1>3, <1>4, <1>5 DEF QueueInv

LEMMA UndoTokenKeeps ==
    ASSUME QueueInv, UndoToken
    PROVE  QueueInv'
<1>1. /\ UNCHANGED <<job, pause>>
      /\ Form(web') /\ web.step = "undo" /\ web'.step = "idle" /\ UNCHANGED config
      /\ runnerLock' = "free"
  BY DEF QueueInv, JobTypes, Form, UndoToken, WebAt, WebGoto, WebDone, WebFree, files, pause
<1>2. JobTypes'
  BY <1>1 DEF QueueInv, JobTypes
<1>3. LockHeld'
  BY <1>1, QueueAssumption DEF QueueInv, LockHeld, Holding, WebHolding
<1>4. SettingsRead'
  <2>1. \A r \in Runners : ~Holding(r)
    BY <1>1, QueueAssumption DEF QueueInv, LockHeld, WebHolding
  <2> QED
    BY <1>1, <2>1 DEF QueueInv, SettingsRead, UsesSettings, UsesToken, Holding, BackupSteps
<1>5. PauseControl'
  BY <1>1 DEF QueueInv, PauseControl, Snapping, pause
<1> QED BY <1>2, <1>3, <1>4, <1>5 DEF QueueInv

LEMMA ScheduleComesKeeps ==
    ASSUME QueueInv, ScheduleComes
    PROVE  QueueInv'
<1>1. /\ UNCHANGED <<job, pause>>
      /\ Form(web') /\ UNCHANGED <<web, runnerLock, config, token>>
  BY DEF QueueInv, JobTypes, Form, ScheduleComes, WebAt, WebGoto, WebDone, WebFree, files,
     pause
<1>2. JobTypes'
  BY <1>1 DEF QueueInv, JobTypes
<1>3. LockHeld'
  BY <1>1, QueueAssumption DEF QueueInv, LockHeld, Holding, WebHolding
<1>4. SettingsRead'
  BY <1>1 DEF QueueInv, SettingsRead, UsesSettings, UsesToken
<1>5. PauseControl'
  BY <1>1 DEF QueueInv, PauseControl, Snapping, pause
<1> QED BY <1>2, <1>3, <1>4, <1>5 DEF QueueInv

LEMMA PortalDiesKeeps ==
    ASSUME QueueInv, PortalDies
    PROVE  QueueInv'
<1>1. /\ UNCHANGED <<job, pause>>
      /\ Form(web') /\ web'.step = "idle" /\ UNCHANGED <<config, token>>
      /\ runnerLock' = IF runnerLock = "web" THEN "stale" ELSE runnerLock
  BY DEF QueueInv, JobTypes, Form, PortalDies, WebAt, WebGoto, WebDone, WebFree, files,
     pause
<1>2. JobTypes'
  BY <1>1 DEF QueueInv, JobTypes
<1>3. LockHeld'
  BY <1>1, QueueAssumption DEF QueueInv, LockHeld, Holding, WebHolding
<1>4. SettingsRead'
  BY <1>1 DEF QueueInv, SettingsRead, UsesSettings, UsesToken
<1>5. PauseControl'
  BY <1>1 DEF QueueInv, PauseControl, Snapping, pause
<1> QED BY <1>2, <1>3, <1>4, <1>5 DEF QueueInv

LEMMA OperatorRemovesLockKeeps ==
    ASSUME QueueInv, OperatorRemovesLock
    PROVE  QueueInv'
<1>1. /\ UNCHANGED <<job, pause>>
      /\ Form(web') /\ UNCHANGED <<web, config, token>> /\ runnerLock = "stale"
      /\ runnerLock' = "free"
  BY DEF QueueInv, JobTypes, Form, OperatorRemovesLock, WebAt, WebGoto, WebDone, WebFree,
     files, pause
<1>2. JobTypes'
  BY <1>1 DEF QueueInv, JobTypes
<1>3. LockHeld'
  BY <1>1, QueueAssumption DEF QueueInv, LockHeld, Holding, WebHolding
<1>4. SettingsRead'
  BY <1>1 DEF QueueInv, SettingsRead, UsesSettings, UsesToken
<1>5. PauseControl'
  BY <1>1 DEF QueueInv, PauseControl, Snapping, pause
<1> QED BY <1>2, <1>3, <1>4, <1>5 DEF QueueInv

\* Every step keeps the invariant.
LEMMA QueueStep == QueueInv /\ [QueueNext]_queueVars => QueueInv'
<1> SUFFICES ASSUME QueueInv, [QueueNext]_queueVars PROVE QueueInv'
  OBVIOUS
<1>1. CASE UNCHANGED queueVars
  BY <1>1 DEF queueVars, files, pause, QueueInv, JobTypes, LockHeld, Holding, WebHolding,
     SettingsRead, UsesSettings, UsesToken, PauseControl, Snapping
<1>2. ASSUME NEW r \in Runners, Decide(r) \/ JobStep(r) \/ RunnerDies(r) PROVE QueueInv'
  BY <1>2, DecideKeeps, LockBackupKeeps, ReadAgainKeeps, StartBackupKeeps, PreflightKeeps,
     MakeMarkerKeeps, RecordPauseKeeps, StopManagerKeeps, CollectKeeps, ResumeKeeps,
     UnmarkKeeps, TakeLeaseKeeps, RestartManagerKeeps, RecoveredKeeps, UploadKeeps,
     FinishBackupKeeps, LockRestoreKeeps, ReadRestoreKeeps, RestoreBeginsKeeps,
     RestoreEndsKeeps, RestoreRecoversKeeps, LockHostKeeps, ResumeHostKeeps, RunnerDiesKeeps
     DEF JobStep
<1>3. CASE Forms \/ WebStep \/ ScheduleComes \/ PortalDies \/ OperatorRemovesLock
  BY <1>3, RequestBackupKeeps, UploadRestoreKeeps, OpenSettingsKeeps, PublishKeeps,
     TakeIdleLockKeeps, CheckIdleKeeps, SaveTokenKeeps, SaveConfigKeeps, UndoTokenKeeps,
     ScheduleComesKeeps, PortalDiesKeeps, OperatorRemovesLockKeeps DEF Forms, WebStep
<1> QED BY <1>1, <1>2, <1>3 DEF QueueNext

\* A job works with the settings and the token that are on the disk: the forms
\* change them only while no job runs (tick, WithIdleState, configureToken).
THEOREM SettingsAreCurrent == QueueSpec => []JobUsesCurrentSettings
<1>1. QueueInv => JobUsesCurrentSettings
  BY DEF QueueInv, SettingsRead, UsesSettings, UsesToken, JobUsesCurrentSettings
<1> QED BY <1>1, QueueInitially, QueueStep, PTL DEF QueueSpec

\* CPAMP is never left down without the record that brings it back
\* (withManagerSnapshot, recoverManagerSnapshot).
THEOREM ManagerIsBroughtBack == ASSUME ~SlowRecovery PROVE QueueSpec => []ManagerComesBack
<1>1. QueueInv => ManagerComesBack
  BY DEF QueueInv, PauseControl, ManagerComesBack
<1> QED BY <1>1, QueueInitially, QueueStep, PTL DEF QueueSpec

\* The database of CPAMP is copied while CPAMP is down and under the lease that
\* keeps every recovery away.
THEOREM SnapshotIsUndisturbed == ASSUME ~SlowRecovery PROVE QueueSpec => []SnapshotUndisturbed
<1>1. QueueInv => SnapshotUndisturbed
  BY DEF QueueInv, PauseControl, Snapping, SnapshotUndisturbed, At
<1> QED BY <1>1, QueueInitially, QueueStep, PTL DEF QueueSpec
=============================================================================
