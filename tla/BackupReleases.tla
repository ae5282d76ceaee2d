---------------------------- MODULE BackupReleases ----------------------------
(***************************************************************************)
(* A backup on GitHub: the draft release, the asset, its verification, the *)
(* publication, and the retention of older releases.                       *)
(*                                                                         *)
(* One job runs at a time (BackupQueue).  A request to GitHub may be       *)
(* carried out although its answer is lost; the runner may die between any *)
(* two requests; the clock of the host may be set back.                    *)
(***************************************************************************)
EXTENDS Naturals, FiniteSets

CONSTANTS
    Jobs,        \* numbers of the jobs, 1..n
    Foreign,     \* releases that are not this installation's
    Retains,     \* values of the setting "retain"
    Times,       \* times of the host's clock
    MaxLost      \* bound: requests that fail, answers lost, deaths

ASSUME ReleasesAssumption ==
    /\ Jobs \subseteq Nat /\ Jobs # {} /\ Foreign \cap Jobs = {}
    /\ Retains \subseteq Nat \ {0} /\ Times \subseteq Nat /\ MaxLost \in Nat

VARIABLES
    release,   \* the releases on GitHub
    tags,      \* the tags on GitHub
    private,   \* the repository is private
    backup,    \* the job that runs
    latest,    \* history: the last release that was published, 0 for none
    lost

releaseVars == <<release, tags, private, backup, latest, lost>>

Releases == Jobs \cup Foreign
NoRelease == [state |-> "none", asset |-> "none", time |-> 0]
NoBackup == [step |-> "idle", job |-> 0, retain |-> 1, tries |-> 0, delete |-> {}]
States == {"none", "draft", "published", "deleted"}
Assets == {"none", "starter", "bad", "good"}

ReleasesTypeOK ==
    /\ \A r \in Releases : release[r].state \in States /\ release[r].asset \in Assets
    /\ tags \subseteq Releases /\ private \in BOOLEAN
    /\ backup.job \in Jobs \cup {0} /\ backup.tries \in 0..3
    /\ backup.delete \subseteq Jobs
    /\ latest \in Jobs \cup {0} /\ lost \in 0..MaxLost

ReleasesInit ==
    /\ release = [r \in Releases |->
          IF r \in Foreign THEN [NoRelease EXCEPT !.state = "published", !.asset = "good"] ELSE NoRelease]
    /\ tags = Foreign /\ private \in BOOLEAN
    /\ backup = NoBackup /\ latest = 0 /\ lost = 0

-----------------------------------------------------------------------------
At(step) == backup.step = step
Then(step) == backup' = [backup EXCEPT !.step = step]
JobEnds == backup' = NoBackup
Loses == lost < MaxLost /\ lost' = lost + 1
Keeps == UNCHANGED lost

\* The work before the upload is in BackupQueue and BackupArchive.
BeginUpload(n, keep) ==
    /\ At("idle") /\ release[n] = NoRelease /\ \A m \in Jobs : m < n => release[m] # NoRelease
    /\ backup' = [NoBackup EXCEPT !.step = "check", !.job = n, !.retain = keep]
    /\ UNCHANGED <<release, tags, private, latest, lost>>

\* CheckPrivate, before each of the requests that write.
Checks == [check |-> "create", recheck |-> "send", last |-> "publish", prune |-> "list"]
CheckPrivate(step) ==
    /\ At(step)
    /\ \/ Keeps /\ IF private THEN Then(Checks[step]) ELSE JobEnds
       \/ Loses /\ JobEnds
    /\ UNCHANGED <<release, tags, private, latest>>

\* The draft; the time in its tag is the time the job began.
CreateDraft(time) ==
    /\ At("create")
    /\ release' = [release EXCEPT ![backup.job] = [state |-> "draft", asset |-> "none", time |-> time]]
    /\ tags' = tags \cup {backup.job}
    /\ \/ Keeps /\ Then("recheck")
       \/ Loses /\ JobEnds
    /\ UNCHANGED <<private, latest>>

\* The asset may arrive incomplete or damaged; what GitHub says of it is
\* compared with the file.
SendAsset ==
    /\ At("send")
    /\ \/ \E a \in {"good", "bad"} : /\ release' = [release EXCEPT ![backup.job].asset = a]
                                     /\ backup' = [backup EXCEPT !.step = "verify", !.tries = 1]
                                     /\ Keeps
       \/ \E a \in {"none", "starter", "bad", "good"} :
             release' = [release EXCEPT ![backup.job].asset = a] /\ JobEnds /\ Loses
    /\ UNCHANGED <<tags, private, latest>>

\* Mutant: the answer to the upload is taken for the verification.
VerifyNothing ==
    /\ At("verify") /\ Keeps /\ Then("last")
    /\ UNCHANGED <<release, tags, private, latest>>

\* verifyAsset: up to three downloads; a network failure is tried again, a
\* content that differs is not.
VerifyAsset ==
    /\ At("verify")
    /\ \/ Keeps /\ IF release[backup.job].asset = "good" THEN Then("last") ELSE JobEnds
       \/ Loses /\ backup' = IF backup.tries < 3 THEN [backup EXCEPT !.tries = @ + 1] ELSE NoBackup
    /\ UNCHANGED <<release, tags, private, latest>>

Publish ==
    /\ At("publish")
    /\ release' = [release EXCEPT ![backup.job].state = "published"]
    /\ latest' = backup.job
    /\ \/ Keeps /\ Then("prune")
       \/ Loses /\ JobEnds
    /\ UNCHANGED <<tags, private>>

-----------------------------------------------------------------------------
(* Retain.                                                                 *)

\* Mutant: drafts count as backups.
CompleteOrDraft == {r \in Jobs : release[r].state \in {"draft", "published"}}

\* The releases of this installation that are published with their asset.
Complete == {r \in Jobs : release[r].state = "published" /\ release[r].asset \in {"bad", "good"}}

\* Mutant: the newest is the one with the latest time.
ListedByTime(a, b) == release[a].time > release[b].time \/ (release[a].time = release[b].time /\ a > b)

\* The order of the list: the current release first, then by time, then by tag.
ListedBefore(a, b) ==
    \/ a = backup.job
    \/ /\ b # backup.job
       /\ release[a].time > release[b].time \/ (release[a].time = release[b].time /\ a > b)

\* What is deleted: everything after the first `retain` of the list, in its order.
Before(r, list) == {s \in list \ {r} : ListedBefore(s, r)}
Surplus == {r \in Complete : Cardinality(Before(r, Complete)) >= backup.retain}
FirstListed == CHOOSE r \in backup.delete : Before(r, backup.delete) = {}

\* A listing that is too long, or lacks the current release, deletes nothing.
ListReleases ==
    /\ At("list")
    /\ \/ Keeps /\ backup' = [backup EXCEPT !.step = "delete", !.delete = Surplus]
       \/ Loses /\ JobEnds
    /\ UNCHANGED <<release, tags, private, latest>>

DeleteRelease ==
    /\ At("delete") /\ backup.delete # {}
    /\ \/ /\ release' = [release EXCEPT ![FirstListed].state = "deleted"]
          /\ \/ Keeps /\ Then("tag")
             \/ Loses /\ JobEnds
       \/ Loses /\ JobEnds /\ UNCHANGED release
    /\ UNCHANGED <<tags, private, latest>>

DeleteTag ==
    /\ At("tag")
    /\ \/ /\ tags' = tags \ {FirstListed}
          /\ backup' = [backup EXCEPT !.step = "delete", !.delete = @ \ {FirstListed}] /\ Keeps
       \/ Loses /\ JobEnds /\ UNCHANGED tags
    /\ UNCHANGED <<release, private, latest>>

FinishUpload ==
    /\ At("delete") /\ backup.delete = {} /\ JobEnds
    /\ UNCHANGED <<release, tags, private, latest, lost>>

\* The owner makes the repository public, or private again.
ChangeVisibility ==
    /\ Loses /\ private' = ~private
    /\ UNCHANGED <<release, tags, backup, latest>>

RunnerDies ==
    /\ ~At("idle") /\ Loses /\ JobEnds
    /\ UNCHANGED <<release, tags, private, latest>>

ReleasesNext ==
    \/ \E n \in Jobs, keep \in Retains : BeginUpload(n, keep)
    \/ \E step \in DOMAIN Checks : CheckPrivate(step)
    \/ \E time \in Times : CreateDraft(time)
    \/ SendAsset \/ VerifyAsset \/ Publish \/ ListReleases
    \/ DeleteRelease \/ DeleteTag \/ FinishUpload
    \/ ChangeVisibility \/ RunnerDies

ReleasesSpec == ReleasesInit /\ [][ReleasesNext]_releaseVars

-----------------------------------------------------------------------------
Backups == {r \in Jobs : release[r].state = "published" /\ release[r].asset = "good"}

PublishedIsVerified == \A r \in Jobs : release[r].state = "published" => release[r].asset = "good"
LatestStays == latest # 0 => latest \in Backups
EnoughStay ==
    /\ At("tag") => Cardinality(Backups) >= backup.retain
    /\ \A r \in Foreign : release[r].state = "published"

\* Whatever was damaged, lost or cut off on the way, a published release has an
\* asset that was downloaded again and found equal to the archive (upload).
\* The last one published stays, also when the clock was set back and its time
\* is the earliest; a deletion leaves as many good backups as the setting asks
\* for, whatever drafts failed jobs left, and nothing of anybody else (Retain).
BackupsKept == PublishedIsVerified /\ LatestStays /\ EnoughStay

-----------------------------------------------------------------------------
(* The inductive invariant of the proof.                                   *)

BackupSteps == {"idle"} \cup DOMAIN Checks
               \cup {"create", "send", "verify", "publish", "list", "delete", "tag"}
ReleaseRecords == [state : States, asset : Assets, time : Nat]
BackupRecords == [step : BackupSteps, job : Jobs \cup {0}, retain : Nat \ {0},
                  tries : 0..3, delete : SUBSET Jobs]

\* What the job that runs has done to its release so far.
JobAt(steps) == backup.step \in steps
JobIsHonest ==
    /\ ~At("idle") => backup.job \in Jobs
    /\ JobAt({"check", "create"}) => release[backup.job] = NoRelease
    /\ JobAt({"recheck", "send", "verify", "last", "publish"}) => release[backup.job].state = "draft"
    /\ JobAt({"last", "publish"}) => release[backup.job].asset = "good"
    /\ JobAt({"prune", "list", "delete", "tag"}) => latest = backup.job

\* What is about to be deleted leaves enough behind, whenever it stops.
DeletionIsSafe ==
    /\ JobAt({"delete", "tag"}) =>
           /\ latest \notin backup.delete /\ IsFiniteSet(backup.delete)
           /\ backup.delete # {} => Cardinality(Backups \ backup.delete) >= backup.retain
    /\ At("tag") => backup.delete # {}

ReleasesInv ==
    /\ release \in [Releases -> ReleaseRecords] /\ backup \in BackupRecords
    /\ tags \subseteq Releases /\ private \in BOOLEAN /\ latest \in Jobs \cup {0} /\ lost \in 0..MaxLost
    /\ IsFiniteSet({r \in Jobs : release[r].state # "none"})
    /\ PublishedIsVerified /\ LatestStays
    /\ \A r \in Foreign : release[r].state = "published"
    /\ JobIsHonest /\ DeletionIsSafe
=============================================================================
