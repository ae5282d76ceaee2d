----------------------------- MODULE BackupsProofs -----------------------------
(***************************************************************************)
(* Theorems about the archives of backups and their releases, for any      *)
(* number of jobs, files, frames and failures.                             *)
(***************************************************************************)
EXTENDS BackupReleases, BackupArchive, FiniteSetTheorems, SequenceTheorems, WellFoundedInduction, TLAPS

\* Numbers have a smallest, which is the induction the proofs need.
LEMMA SmallestNat ==
    ASSUME NEW T, T \subseteq Nat, T # {}
    PROVE  \E n \in T : \A m \in T : n <= m
<1> DEFINE R == {ss \in Nat \X Nat : ss[1] < ss[2]}
<1>1. IsWellFoundedOn(R, Nat)
  BY NatLessThanWellFounded, Zenon DEF OpToRel
<1> HIDE DEF R
<1>2. PICK n \in T : \A y \in T : ~(<<y, n>> \in R)
  BY <1>1, WFMin, Zenon
<1>3. \A y \in T : ~(y < n)
  BY <1>2 DEF R
<1> QED BY <1>3

-----------------------------------------------------------------------------
(* Releases.                                                               *)

\* The list is in a strict order.
LEMMA ListIsOrdered ==
    ASSUME \A r \in Jobs : release[r].time \in Nat,
           NEW r \in Jobs, NEW s \in Jobs, NEW t \in Jobs, r # s, s # t,
           ListedBefore(r, s), ListedBefore(s, t)
    PROVE  ListedBefore(r, t) /\ r # t
<1>1. Jobs \subseteq Nat BY ReleasesAssumption
<1>2. r \in Nat /\ s \in Nat /\ t \in Nat BY <1>1
<1>3. release[r].time \in Nat /\ release[s].time \in Nat /\ release[t].time \in Nat OBVIOUS
<1> QED BY <1>2, <1>3 DEF ListedBefore

\* What is before a member of the list comes with less before it.
LEMMA FewerBefore ==
    ASSUME \A r \in Jobs : release[r].time \in Nat, NEW S \in SUBSET Jobs, IsFiniteSet(S),
           NEW r \in S, NEW s \in Before(r, S)
    PROVE  /\ IsFiniteSet(Before(r, S)) /\ IsFiniteSet(Before(s, S))
           /\ Cardinality(Before(s, S)) \in Nat /\ Cardinality(Before(r, S)) \in Nat
           /\ Cardinality(Before(s, S)) < Cardinality(Before(r, S))
<1>1. Before(r, S) \subseteq S /\ Before(s, S) \subseteq S BY DEF Before
<1>2. IsFiniteSet(Before(r, S)) /\ IsFiniteSet(Before(s, S)) BY <1>1, FS_Subset
<1>3. s \in S /\ s # r /\ ListedBefore(s, r) BY DEF Before
<1>4. \A t \in Before(s, S) : t \in Before(r, S)
  <2> TAKE t \in Before(s, S)
  <2>1. t \in S /\ t # s /\ ListedBefore(t, s) BY DEF Before
  <2>2. ListedBefore(t, r) /\ t # r BY <1>3, <2>1, ListIsOrdered
  <2> QED BY <2>1, <2>2 DEF Before
<1>5. s \notin Before(s, S) /\ s \in Before(r, S) BY DEF Before
<1>6. Cardinality(Before(s, S)) <= Cardinality(Before(r, S))
      /\ (Cardinality(Before(s, S)) = Cardinality(Before(r, S)) => Before(s, S) = Before(r, S))
  BY <1>2, <1>4, FS_Subset
<1>7. Cardinality(Before(s, S)) \in Nat /\ Cardinality(Before(r, S)) \in Nat
  BY <1>2, FS_CardinalityType
<1> QED BY <1>2, <1>5, <1>6, <1>7

\* Among the members chosen from a list, one has nothing chosen before it.
LEMMA LeastChosen ==
    ASSUME \A r \in Jobs : release[r].time \in Nat, NEW S \in SUBSET Jobs, IsFiniteSet(S),
           NEW C \in SUBSET S, C # {}
    PROVE  \E r \in C : Before(r, S) \cap C = {}
<1> DEFINE T == {Cardinality(Before(r, S)) : r \in C}
<1>1. \A r \in C : Cardinality(Before(r, S)) \in Nat
  <2> TAKE r \in C
  <2>1. Before(r, S) \subseteq S BY DEF Before
  <2> QED BY <2>1, FS_Subset, FS_CardinalityType
<1>2. T \subseteq Nat /\ T # {} BY <1>1
<1>3. PICK n \in T : \A m \in T : n <= m BY <1>2, SmallestNat
<1>4. PICK r \in C : n = Cardinality(Before(r, S)) BY <1>3
<1>5. ASSUME NEW s \in C, s \in Before(r, S) PROVE FALSE
  <2>1. Cardinality(Before(s, S)) < n BY <1>4, <1>5, FewerBefore
  <2>2. n <= Cardinality(Before(s, S)) BY <1>3
  <2> QED BY <1>1, <1>3, <1>4, <2>1, <2>2
<1> QED BY <1>5

\* What is deleted next is of the list of what is deleted.
LEMMA FirstIsListed ==
    ASSUME ReleasesInv, JobAt({"delete", "tag"}), backup.delete # {}
    PROVE  FirstListed \in backup.delete
<1>1. \A r \in Jobs : release[r].time \in Nat
  BY DEF ReleasesInv, Releases, ReleaseRecords
<1>2. backup.delete \in SUBSET Jobs BY DEF ReleasesInv, BackupRecords
<1>3. IsFiniteSet(backup.delete) BY DEF ReleasesInv, DeletionIsSafe
<1>4. PICK r \in backup.delete : Before(r, backup.delete) \cap backup.delete = {}
  BY <1>1, <1>2, <1>3, LeastChosen
<1>5. Before(r, backup.delete) = {} BY <1>4 DEF Before
<1> QED BY <1>5 DEF FirstListed

\* What is left of the list when its surplus is gone: the newest is never
\* surplus, and there is a surplus only of more than `retain`.
LEMMA SurplusLeavesEnough ==
    ASSUME ReleasesInv, At("list")
    PROVE  /\ Surplus \in SUBSET Jobs /\ IsFiniteSet(Surplus) /\ latest \notin Surplus
           /\ Surplus # {} => Cardinality(Backups \ Surplus) >= backup.retain
<1>1. \A r \in Jobs : release[r].time \in Nat
  BY DEF ReleasesInv, Releases, ReleaseRecords
<1>2. Complete \in SUBSET Jobs /\ Complete \subseteq {r \in Jobs : release[r].state # "none"}
  BY DEF Complete
<1>3. IsFiniteSet(Complete) BY <1>2, FS_Subset DEF ReleasesInv
<1>4. Surplus \in SUBSET Complete BY DEF Surplus
<1>5. Complete = Backups BY DEF Complete, Backups, ReleasesInv, PublishedIsVerified
<1>6. backup.retain \in Nat \ {0} BY DEF ReleasesInv, BackupRecords
<1>7. latest \notin Surplus
  <2>1. latest = backup.job BY DEF ReleasesInv, JobIsHonest, JobAt, At
  <2>2. Before(backup.job, Complete) = {} BY DEF Before, ListedBefore
  <2>3. Cardinality(Before(backup.job, Complete)) = 0 BY <2>2, FS_EmptySet
  <2> QED BY <1>6, <2>1, <2>3 DEF Surplus
<1>8. ASSUME Surplus # {} PROVE Cardinality(Backups \ Surplus) >= backup.retain
  <2>1. PICK r \in Surplus : Before(r, Complete) \cap Surplus = {}
    BY <1>1, <1>2, <1>3, <1>4, <1>8, LeastChosen
  <2>2. Before(r, Complete) \subseteq Backups \ Surplus BY <1>5, <2>1 DEF Before
  <2>3. IsFiniteSet(Backups \ Surplus) BY <1>3, <1>5, FS_Subset
  <2>4. Cardinality(Before(r, Complete)) <= Cardinality(Backups \ Surplus)
        /\ IsFiniteSet(Before(r, Complete))
    BY <2>2, <2>3, FS_Subset
  <2>5. Cardinality(Before(r, Complete)) >= backup.retain BY <2>1 DEF Surplus
  <2>6. Cardinality(Before(r, Complete)) \in Nat /\ Cardinality(Backups \ Surplus) \in Nat
    BY <2>3, <2>4, FS_CardinalityType
  <2> QED BY <1>6, <2>4, <2>5, <2>6
<1> QED BY <1>2, <1>3, <1>4, <1>7, <1>8, FS_Subset

\* What the types say of a job's record, and of releases.
LEMMA JobTyped ==
    ASSUME ReleasesInv
    PROVE  /\ backup = [step |-> backup.step, job |-> backup.job, retain |-> backup.retain,
                        tries |-> backup.tries, delete |-> backup.delete]
           /\ backup.step \in BackupSteps /\ backup.job \in Jobs \cup {0}
           /\ backup.retain \in Nat \ {0} /\ backup.tries \in 0..3 /\ backup.delete \in SUBSET Jobs
           /\ \A step \in BackupSteps : [backup EXCEPT !.step = step] \in BackupRecords
           /\ NoBackup \in BackupRecords
<1>1. backup \in BackupRecords BY DEF ReleasesInv
<1>2. NoBackup \in BackupRecords BY DEF NoBackup, BackupRecords, BackupSteps
<1> QED BY <1>1, <1>2 DEF BackupRecords

\* A mishap is counted within its bound.
LEMMA LostTyped ==
    ASSUME ReleasesInv, Keeps \/ Loses
    PROVE  lost' \in 0..MaxLost
BY ReleasesAssumption DEF ReleasesInv, Keeps, Loses

\* A step that leaves the releases alone.
LEMMA ReleasesStay ==
    ASSUME ReleasesInv, UNCHANGED <<release, latest>>, tags' \subseteq Releases,
           private' \in BOOLEAN, lost' \in 0..MaxLost, backup' \in BackupRecords,
           JobIsHonest', DeletionIsSafe'
    PROVE  ReleasesInv'
<1>1. PublishedIsVerified' BY DEF ReleasesInv, PublishedIsVerified
<1>2. LatestStays' BY DEF ReleasesInv, LatestStays, Backups
<1>3. IsFiniteSet({r \in Jobs : release'[r].state # "none"}) BY DEF ReleasesInv
<1> QED BY <1>1, <1>2, <1>3 DEF ReleasesInv

\* A job that ends leaves everything as it is.
LEMMA JobEndsSafely ==
    ASSUME JobEnds
    PROVE  JobIsHonest' /\ DeletionIsSafe'
BY DEF JobEnds, NoBackup, JobIsHonest, DeletionIsSafe, JobAt, At

\* A job that goes on to a step whose conditions hold.
LEMMA JobGoesOn ==
    ASSUME ReleasesInv, NEW step \in BackupSteps, Then(step), UNCHANGED <<release, latest>>,
           tags' \subseteq Releases, private' \in BOOLEAN, lost' \in 0..MaxLost,
           backup.job \in Jobs,
           step \in {"check", "create"} => release[backup.job] = NoRelease,
           step \in {"recheck", "send", "verify", "last", "publish"} =>
               release[backup.job].state = "draft",
           step \in {"last", "publish"} => release[backup.job].asset = "good",
           step \in {"prune", "list", "delete", "tag"} => latest = backup.job,
           step \notin {"delete", "tag"}
    PROVE  ReleasesInv'
<1>1. backup' \in BackupRecords BY JobTyped DEF Then
<1>2. backup'.step = step /\ backup'.job = backup.job BY JobTyped DEF Then
<1>3. JobIsHonest' BY <1>2 DEF JobIsHonest, JobAt, At
<1>4. DeletionIsSafe' BY <1>2 DEF DeletionIsSafe, JobAt, At
<1> QED BY <1>1, <1>3, <1>4, ReleasesStay

\* The release of one job changes, as the step of this job may change it.
LEMMA OneReleaseChanges ==
    ASSUME ReleasesInv, NEW n \in ReleaseRecords, backup.job \in Jobs,
           release' = [release EXCEPT ![backup.job] = n],
           release[backup.job].state \in {"none", "draft"}, n.state # "none",
           n.state = "published" => n.asset = "good",
           latest' = latest \/ (latest' = backup.job /\ n.state = "published"),
           tags' \subseteq Releases, private' \in BOOLEAN, lost' \in 0..MaxLost,
           backup' \in BackupRecords, JobIsHonest', DeletionIsSafe'
    PROVE  ReleasesInv'
<1>1. backup.job \in Releases /\ release \in [Releases -> ReleaseRecords]
  BY DEF ReleasesInv, Releases
<1>2. release' \in [Releases -> ReleaseRecords] BY <1>1
<1>3. release'[backup.job] = n /\ \A r \in Releases \ {backup.job} : release'[r] = release[r]
  BY <1>1
<1>4. PublishedIsVerified' BY <1>3 DEF ReleasesInv, PublishedIsVerified, Releases
<1>5. LatestStays'
  <2>1. CASE latest' = backup.job /\ n.state = "published"
    BY <1>3, <2>1 DEF LatestStays, Backups
  <2>2. CASE latest' = latest /\ latest # 0
    <3>1. latest \in Jobs /\ release[latest].state = "published" /\ release[latest].asset = "good"
      BY <2>2 DEF ReleasesInv, LatestStays, Backups
    <3>2. latest # backup.job BY <3>1
    <3>3. release'[latest] = release[latest] BY <1>3, <3>1, <3>2 DEF Releases
    <3> QED BY <2>2, <3>1, <3>3 DEF LatestStays, Backups
  <2>3. CASE latest' = latest /\ latest = 0
    BY <2>3 DEF LatestStays
  <2> QED BY <2>1, <2>2, <2>3
<1>6. \A r \in Foreign : release'[r].state = "published"
  <2>1. \A r \in Foreign : r # backup.job BY ReleasesAssumption
  <2> QED BY <1>3, <2>1 DEF ReleasesInv, Releases
<1>7. IsFiniteSet({r \in Jobs : release'[r].state # "none"})
  <2> DEFINE S == {r \in Jobs : release[r].state # "none"}
             T == {r \in Jobs : release'[r].state # "none"}
  <2>1. T = S \cup {backup.job} BY <1>3 DEF Releases
  <2>2. IsFiniteSet(S) BY DEF ReleasesInv
  <2> HIDE DEF S, T
  <2>3. IsFiniteSet(T) BY <2>1, <2>2, FS_AddElement
  <2> QED BY <2>3 DEF T
<1>8. latest' \in Jobs \cup {0} BY DEF ReleasesInv
<1> QED BY <1>2, <1>4, <1>5, <1>6, <1>7, <1>8 DEF ReleasesInv

\* The next job begins with a release that does not exist.
LEMMA BeginUploadInv ==
    ASSUME ReleasesInv, NEW n \in Jobs, NEW keep \in Retains, BeginUpload(n, keep)
    PROVE  ReleasesInv'
<1> DEFINE b == [step |-> "check", job |-> n, retain |-> keep, tries |-> 0, delete |-> {}]
<1>1. backup' = b BY DEF BeginUpload, NoBackup
<1>2. keep \in Nat \ {0} BY ReleasesAssumption
<1>3. b \in BackupRecords BY <1>2 DEF BackupRecords, BackupSteps, Checks
<1>4. release[n] = NoRelease /\ UNCHANGED <<release, tags, private, latest, lost>>
  BY DEF BeginUpload
<1>5. JobIsHonest' BY <1>1, <1>4 DEF JobIsHonest, JobAt, At
<1>6. DeletionIsSafe' BY <1>1 DEF DeletionIsSafe, JobAt, At
<1> HIDE DEF b
<1>7. tags' \subseteq Releases /\ private' \in BOOLEAN /\ lost' \in 0..MaxLost
  BY <1>4 DEF ReleasesInv
<1> QED BY <1>1, <1>3, <1>4, <1>5, <1>6, <1>7, ReleasesStay

\* Each check of the repository's visibility goes on or ends the job.
LEMMA CheckPrivateInv ==
    ASSUME ReleasesInv, NEW step \in DOMAIN Checks, CheckPrivate(step)
    PROVE  ReleasesInv'
<1>1. /\ backup.step = step /\ UNCHANGED <<release, tags, private, latest>>
      /\ Then(Checks[step]) \/ JobEnds
      /\ Keeps \/ Loses
  BY DEF CheckPrivate, At
<1>2. tags' \subseteq Releases /\ private' \in BOOLEAN BY <1>1 DEF ReleasesInv
<1>3. lost' \in 0..MaxLost BY <1>1, LostTyped
<1>4. CASE JobEnds
  BY <1>1, <1>2, <1>3, <1>4, JobTyped, JobEndsSafely, ReleasesStay DEF JobEnds
<1>5. CASE Then(Checks[step])
  <2>1. step \in {"check", "recheck", "last", "prune"} BY DEF Checks
  <2>2. /\ step = "check" => Checks[step] = "create"
        /\ step = "recheck" => Checks[step] = "send"
        /\ step = "last" => Checks[step] = "publish"
        /\ step = "prune" => Checks[step] = "list"
    BY DEF Checks
  <2>3. Checks[step] \in BackupSteps BY <2>1, <2>2 DEF BackupSteps
  <2>4. JobIsHonest BY DEF ReleasesInv
  <2>5. backup.job \in Jobs BY <1>1, <2>1, <2>4 DEF JobIsHonest, At
  <2>6. /\ Checks[step] = "create" => release[backup.job] = NoRelease
        /\ Checks[step] \in {"send", "publish"} => release[backup.job].state = "draft"
        /\ Checks[step] = "publish" => release[backup.job].asset = "good"
        /\ Checks[step] = "list" => latest = backup.job
        /\ Checks[step] \in {"create", "send", "publish", "list"}
    BY <1>1, <2>1, <2>2, <2>4 DEF JobIsHonest, JobAt
  <2>7. /\ Checks[step] \in {"check", "create"} => release[backup.job] = NoRelease
        /\ Checks[step] \in {"recheck", "send", "verify", "last", "publish"} =>
               release[backup.job].state = "draft"
        /\ Checks[step] \in {"last", "publish"} => release[backup.job].asset = "good"
        /\ Checks[step] \in {"prune", "list", "delete", "tag"} => latest = backup.job
        /\ Checks[step] \notin {"delete", "tag"}
    BY <2>6
  <2> QED BY <1>1, <1>2, <1>3, <1>5, <2>3, <2>5, <2>7, JobGoesOn
<1> QED BY <1>1, <1>4, <1>5

\* The draft is new: the release did not exist.
LEMMA CreateDraftInv ==
    ASSUME ReleasesInv, NEW time \in Times, CreateDraft(time)
    PROVE  ReleasesInv'
<1> DEFINE n == [state |-> "draft", asset |-> "none", time |-> time]
<1>1. /\ backup.step = "create" /\ release' = [release EXCEPT ![backup.job] = n]
      /\ tags' = tags \cup {backup.job} /\ UNCHANGED <<private, latest>>
      /\ Then("recheck") \/ JobEnds
      /\ Keeps \/ Loses
  BY DEF CreateDraft, At
<1>2. n \in ReleaseRecords BY ReleasesAssumption DEF ReleaseRecords, States, Assets
<1>3. backup.job \in Jobs /\ release[backup.job] = NoRelease
  BY <1>1 DEF ReleasesInv, JobIsHonest, JobAt, At
<1>4. release[backup.job].state = "none" /\ n.state = "draft" BY <1>3 DEF NoRelease
<1> HIDE DEF n
<1>5. tags' \subseteq Releases /\ private' \in BOOLEAN BY <1>1, <1>3 DEF ReleasesInv, Releases
<1>6. lost' \in 0..MaxLost BY <1>1, LostTyped
<1>7. CASE JobEnds
  BY <1>1, <1>2, <1>3, <1>4, <1>5, <1>6, <1>7, JobTyped, JobEndsSafely, OneReleaseChanges DEF JobEnds
<1>8. CASE Then("recheck")
  <2>1. backup' \in BackupRecords /\ backup'.step = "recheck" /\ backup'.job = backup.job
    BY <1>8, JobTyped DEF Then, BackupSteps, Checks
  <2>2. release'[backup.job].state = "draft"
    BY <1>1, <1>3, <1>4 DEF ReleasesInv, Releases
  <2>3. JobIsHonest' BY <1>3, <2>1, <2>2 DEF JobIsHonest, JobAt, At
  <2>4. DeletionIsSafe' BY <2>1 DEF DeletionIsSafe, JobAt, At
  <2> QED BY <1>1, <1>2, <1>3, <1>4, <1>5, <1>6, <2>1, <2>3, <2>4, OneReleaseChanges
<1> QED BY <1>1, <1>7, <1>8

\* Whatever arrives of the asset, it belongs to a draft.
LEMMA SendAssetInv ==
    ASSUME ReleasesInv, SendAsset
    PROVE  ReleasesInv'
<1>1. PICK a \in Assets : release' = [release EXCEPT ![backup.job].asset = a]
  BY DEF SendAsset, Assets
<1>2. /\ backup.step = "send" /\ UNCHANGED <<tags, private, latest>>
      /\ \/ backup' = [backup EXCEPT !.step = "verify", !.tries = 1]
         \/ JobEnds
      /\ Keeps \/ Loses
  BY DEF SendAsset, At
<1>3. backup.job \in Jobs /\ release[backup.job].state = "draft"
  BY <1>2 DEF ReleasesInv, JobIsHonest, JobAt, At
<1> DEFINE n == [release[backup.job] EXCEPT !.asset = a]
<1>4. release[backup.job] \in ReleaseRecords BY <1>3 DEF ReleasesInv, Releases
<1>5. n \in ReleaseRecords /\ n.state = "draft" BY <1>3, <1>4 DEF ReleaseRecords
<1>6. release' = [release EXCEPT ![backup.job] = n] BY <1>1
<1> HIDE DEF n
<1>7. tags' \subseteq Releases /\ private' \in BOOLEAN BY <1>2 DEF ReleasesInv
<1>8. lost' \in 0..MaxLost BY <1>2, LostTyped
<1>9. CASE JobEnds
  BY <1>2, <1>3, <1>5, <1>6, <1>7, <1>8, <1>9, JobTyped, JobEndsSafely, OneReleaseChanges DEF JobEnds
<1>10. CASE backup' = [backup EXCEPT !.step = "verify", !.tries = 1]
  <2>1. backup \in BackupRecords BY DEF ReleasesInv
  <2>0. "verify" \in BackupSteps /\ 1 \in 0..3 BY DEF BackupSteps
  <2>2. backup' \in BackupRecords /\ backup'.step = "verify" /\ backup'.job = backup.job
    BY <1>10, <2>0, <2>1 DEF BackupRecords
  <2>3. release'[backup.job].state = "draft" BY <1>3, <1>5, <1>6 DEF ReleasesInv, Releases
  <2>4. JobIsHonest' BY <1>3, <2>2, <2>3 DEF JobIsHonest, JobAt, At
  <2>5. DeletionIsSafe' BY <2>2 DEF DeletionIsSafe, JobAt, At
  <2> QED BY <1>2, <1>3, <1>5, <1>6, <1>7, <1>8, <2>2, <2>4, <2>5, OneReleaseChanges
<1> QED BY <1>2, <1>9, <1>10

\* Only a good asset passes the verification, which is tried three times at most.
LEMMA VerifyAssetInv ==
    ASSUME ReleasesInv, VerifyAsset
    PROVE  ReleasesInv'
<1>1. /\ backup.step = "verify" /\ UNCHANGED <<release, tags, private, latest>>
      /\ \/ release[backup.job].asset = "good" /\ Then("last")
         \/ JobEnds
         \/ backup.tries < 3 /\ backup' = [backup EXCEPT !.tries = @ + 1]
      /\ Keeps \/ Loses
  BY DEF VerifyAsset, At, JobEnds
<1>2. backup.job \in Jobs /\ release[backup.job].state = "draft"
  BY <1>1 DEF ReleasesInv, JobIsHonest, JobAt, At
<1>3. tags' \subseteq Releases /\ private' \in BOOLEAN BY <1>1 DEF ReleasesInv
<1>4. lost' \in 0..MaxLost BY <1>1, LostTyped
<1>5. CASE JobEnds
  BY <1>1, <1>3, <1>4, <1>5, JobTyped, JobEndsSafely, ReleasesStay DEF JobEnds
<1>6. CASE release[backup.job].asset = "good" /\ Then("last")
  <2>1. "last" \in BackupSteps BY DEF BackupSteps, Checks
  <2> QED BY <1>1, <1>2, <1>3, <1>4, <1>6, <2>1, JobGoesOn
<1>7. CASE backup.tries < 3 /\ backup' = [backup EXCEPT !.tries = @ + 1]
  <2>1. backup \in BackupRecords BY DEF ReleasesInv
  <2>2. backup.tries + 1 \in 0..3 BY <1>7, <2>1 DEF BackupRecords
  <2>3. backup' \in BackupRecords /\ backup'.step = "verify" /\ backup'.job = backup.job
    BY <1>1, <1>7, <2>1, <2>2 DEF BackupRecords
  <2>4. JobIsHonest' BY <1>1, <1>2, <2>3 DEF JobIsHonest, JobAt, At
  <2>5. DeletionIsSafe' BY <2>3 DEF DeletionIsSafe, JobAt, At
  <2> QED BY <1>1, <1>3, <1>4, <2>3, <2>4, <2>5, ReleasesStay
<1> QED BY <1>1, <1>5, <1>6, <1>7

\* What is published was verified, and is the latest from now on.
LEMMA PublishInv ==
    ASSUME ReleasesInv, Publish
    PROVE  ReleasesInv'
<1>1. /\ backup.step = "publish" /\ release' = [release EXCEPT ![backup.job].state = "published"]
      /\ latest' = backup.job /\ UNCHANGED <<tags, private>>
      /\ Then("prune") \/ JobEnds
      /\ Keeps \/ Loses
  BY DEF Publish, At
<1>2. backup.job \in Jobs /\ release[backup.job].state = "draft" /\ release[backup.job].asset = "good"
  BY <1>1 DEF ReleasesInv, JobIsHonest, JobAt, At
<1> DEFINE n == [release[backup.job] EXCEPT !.state = "published"]
<1>3. release[backup.job] \in ReleaseRecords BY <1>2 DEF ReleasesInv, Releases
<1>4. n \in ReleaseRecords /\ n.state = "published" /\ n.asset = "good"
  BY <1>2, <1>3 DEF ReleaseRecords, States
<1>5. release' = [release EXCEPT ![backup.job] = n] BY <1>1
<1> HIDE DEF n
<1>6. tags' \subseteq Releases /\ private' \in BOOLEAN BY <1>1 DEF ReleasesInv
<1>7. lost' \in 0..MaxLost BY <1>1, LostTyped
<1>8. CASE JobEnds
  BY <1>1, <1>2, <1>4, <1>5, <1>6, <1>7, <1>8, JobTyped, JobEndsSafely, OneReleaseChanges DEF JobEnds
<1>9. CASE Then("prune")
  <2>1. backup' \in BackupRecords /\ backup'.step = "prune" /\ backup'.job = backup.job
    BY <1>9, JobTyped DEF Then, BackupSteps, Checks
  <2>2. JobIsHonest' BY <1>1, <1>2, <2>1 DEF JobIsHonest, JobAt, At
  <2>3. DeletionIsSafe' BY <2>1 DEF DeletionIsSafe, JobAt, At
  <2> QED BY <1>1, <1>2, <1>4, <1>5, <1>6, <1>7, <2>1, <2>2, <2>3, OneReleaseChanges
<1> QED BY <1>1, <1>8, <1>9

\* The list says what is surplus.
LEMMA ListReleasesInv ==
    ASSUME ReleasesInv, ListReleases
    PROVE  ReleasesInv'
<1>1. /\ backup.step = "list" /\ UNCHANGED <<release, tags, private, latest>>
      /\ JobEnds \/ backup' = [backup EXCEPT !.step = "delete", !.delete = Surplus]
      /\ Keeps \/ Loses
  BY DEF ListReleases, At
<1>2. backup.job \in Jobs /\ latest = backup.job
  BY <1>1 DEF ReleasesInv, JobIsHonest, JobAt, At
<1>3. tags' \subseteq Releases /\ private' \in BOOLEAN BY <1>1 DEF ReleasesInv
<1>4. lost' \in 0..MaxLost BY <1>1, LostTyped
<1>5. CASE JobEnds
  BY <1>1, <1>3, <1>4, <1>5, JobTyped, JobEndsSafely, ReleasesStay DEF JobEnds
<1>6. CASE backup' = [backup EXCEPT !.step = "delete", !.delete = Surplus]
  <2>1. /\ Surplus \in SUBSET Jobs /\ IsFiniteSet(Surplus) /\ latest \notin Surplus
        /\ Surplus # {} => Cardinality(Backups \ Surplus) >= backup.retain
    BY <1>1, SurplusLeavesEnough DEF At
  <2>2. backup \in BackupRecords BY DEF ReleasesInv
  <2>3. /\ backup' \in BackupRecords /\ backup'.step = "delete" /\ backup'.job = backup.job
        /\ backup'.retain = backup.retain /\ backup'.delete = Surplus
    BY <1>6, <2>1, <2>2 DEF BackupRecords, BackupSteps
  <2>4. JobIsHonest' BY <1>1, <1>2, <2>3 DEF JobIsHonest, JobAt, At
  <2>5. Backups' = Backups BY <1>1 DEF Backups
  <2>6. DeletionIsSafe' BY <1>1, <2>1, <2>3, <2>5 DEF DeletionIsSafe, JobAt, At
  <2> QED BY <1>1, <1>3, <1>4, <2>3, <2>4, <2>6, ReleasesStay
<1> QED BY <1>1, <1>5, <1>6

\* A release that is deleted is neither the latest nor anybody else's, and
\* what it leaves is what was to be left.
LEMMA DeleteReleaseInv ==
    ASSUME ReleasesInv, DeleteRelease
    PROVE  ReleasesInv'
<1> DEFINE r == FirstListed
<1>1. /\ backup.step = "delete" /\ backup.delete # {} /\ UNCHANGED <<tags, private, latest>>
      /\ JobEnds \/ Then("tag")
      /\ release' = [release EXCEPT ![r].state = "deleted"] \/ (JobEnds /\ UNCHANGED release)
      /\ Keeps \/ Loses
  BY DEF DeleteRelease, At
<1>2. r \in backup.delete BY <1>1, FirstIsListed DEF JobAt
<1>3. tags' \subseteq Releases /\ private' \in BOOLEAN BY <1>1 DEF ReleasesInv
<1>4. lost' \in 0..MaxLost BY <1>1, LostTyped
<1>5. CASE JobEnds /\ UNCHANGED release
  BY <1>1, <1>3, <1>4, <1>5, JobTyped, JobEndsSafely, ReleasesStay DEF JobEnds
<1>6. CASE release' = [release EXCEPT ![r].state = "deleted"]
  <2>1. r \in Jobs BY <1>2, JobTyped
  <2>2. /\ latest = backup.job /\ backup.job \in Jobs
        /\ latest \notin backup.delete /\ IsFiniteSet(backup.delete)
        /\ Cardinality(Backups \ backup.delete) >= backup.retain
    BY <1>1 DEF ReleasesInv, JobIsHonest, DeletionIsSafe, JobAt, At
  <2>3. r # latest BY <1>2, <2>2
  <2>4. release \in [Releases -> ReleaseRecords] /\ r \in Releases BY <2>1 DEF ReleasesInv, Releases
  <2>5. release[r] \in ReleaseRecords BY <2>4
  <2>6. [release[r] EXCEPT !.state = "deleted"] \in ReleaseRecords
    BY <2>5 DEF ReleaseRecords, States
  <2>7. release' \in [Releases -> ReleaseRecords] BY <1>6, <2>4, <2>6
  <2>8. release'[r].state = "deleted" /\ \A q \in Releases \ {r} : release'[q] = release[q]
    BY <1>6, <2>4, <2>5 DEF ReleaseRecords
  <2> HIDE DEF r
  <2>9. PublishedIsVerified'
    BY <2>8 DEF ReleasesInv, PublishedIsVerified, Releases
  <2>10. LatestStays'
    BY <1>1, <2>2, <2>3, <2>8 DEF ReleasesInv, LatestStays, Backups, Releases
  <2>11. \A q \in Foreign : release'[q].state = "published"
    <3>1. r \notin Foreign BY <2>1, ReleasesAssumption
    <3> QED BY <2>8, <3>1 DEF ReleasesInv, Releases
  <2>12. IsFiniteSet({q \in Jobs : release'[q].state # "none"})
    <3> DEFINE S == {q \in Jobs : release[q].state # "none"}
               T == {q \in Jobs : release'[q].state # "none"}
    <3>1. T = S \cup {r} BY <2>1, <2>8 DEF Releases
    <3>2. IsFiniteSet(S) BY DEF ReleasesInv
    <3> HIDE DEF S, T
    <3>3. IsFiniteSet(T) BY <3>1, <3>2, FS_AddElement
    <3> QED BY <3>3 DEF T
  <2>13. backup' \in BackupRecords BY <1>1, JobTyped DEF JobEnds, Then, BackupSteps
  <2>14. JobIsHonest' /\ DeletionIsSafe'
    <3>1. CASE JobEnds BY <3>1, JobEndsSafely
    <3>2. CASE Then("tag")
      <4>1. /\ backup'.step = "tag" /\ backup'.job = backup.job
            /\ backup'.retain = backup.retain /\ backup'.delete = backup.delete
        BY <3>2, JobTyped DEF Then
      <4>2. Backups' \ backup.delete = Backups \ backup.delete
        BY <1>2, <2>8 DEF Backups, Releases
      <4>3. JobIsHonest' BY <1>1, <2>2, <4>1 DEF JobIsHonest, JobAt, At
      <4>4. DeletionIsSafe' BY <1>1, <2>2, <4>1, <4>2 DEF DeletionIsSafe, JobAt, At
      <4> QED BY <4>3, <4>4
    <3> QED BY <1>1, <3>1, <3>2
  <2> QED BY <1>1, <1>3, <1>4, <2>7, <2>9, <2>10, <2>11, <2>12, <2>13, <2>14 DEF ReleasesInv
<1> QED BY <1>1, <1>5, <1>6

\* The tag goes after its release; one less is left to delete.
LEMMA DeleteTagInv ==
    ASSUME ReleasesInv, DeleteTag
    PROVE  ReleasesInv'
<1>1. /\ backup.step = "tag" /\ UNCHANGED <<release, private, latest>>
      /\ tags' \subseteq tags
      /\ JobEnds \/ backup' = [backup EXCEPT !.step = "delete", !.delete = @ \ {FirstListed}]
      /\ Keeps \/ Loses
  BY DEF DeleteTag, At
<1>2. tags' \subseteq Releases /\ private' \in BOOLEAN BY <1>1 DEF ReleasesInv
<1>3. lost' \in 0..MaxLost BY <1>1, LostTyped
<1>4. CASE JobEnds
  BY <1>1, <1>2, <1>3, <1>4, JobTyped, JobEndsSafely, ReleasesStay DEF JobEnds
<1>5. CASE backup' = [backup EXCEPT !.step = "delete", !.delete = @ \ {FirstListed}]
  <2> DEFINE less == backup.delete \ {FirstListed}
  <2>1. /\ latest = backup.job /\ backup.job \in Jobs /\ backup.delete # {}
        /\ latest \notin backup.delete /\ IsFiniteSet(backup.delete)
        /\ Cardinality(Backups \ backup.delete) >= backup.retain
    BY <1>1 DEF ReleasesInv, JobIsHonest, DeletionIsSafe, JobAt, At
  <2>2. backup \in BackupRecords BY DEF ReleasesInv
  <2>3. /\ backup' \in BackupRecords /\ backup'.step = "delete" /\ backup'.job = backup.job
        /\ backup'.retain = backup.retain /\ backup'.delete = less
    BY <1>5, <2>2 DEF BackupRecords, BackupSteps
  <2>4. JobIsHonest' BY <1>1, <2>1, <2>3 DEF JobIsHonest, JobAt, At
  <2>5. less \subseteq backup.delete BY DEF less
  <2>6. IsFiniteSet(less) BY <2>1, <2>5, FS_Subset
  <2>7. Cardinality(Backups \ less) >= backup.retain
    <3>1. Backups \subseteq {r \in Jobs : release[r].state # "none"} BY DEF Backups
    <3>2. IsFiniteSet(Backups) BY <3>1, FS_Subset DEF ReleasesInv
    <3>3. IsFiniteSet(Backups \ less) BY <3>2, FS_Subset
    <3>4. Backups \ backup.delete \subseteq Backups \ less BY <2>5
    <3> HIDE DEF less
    <3>5. Cardinality(Backups \ backup.delete) <= Cardinality(Backups \ less)
          /\ IsFiniteSet(Backups \ backup.delete)
      BY <3>3, <3>4, FS_Subset
    <3>6. Cardinality(Backups \ backup.delete) \in Nat /\ Cardinality(Backups \ less) \in Nat
      BY <3>3, <3>5, FS_CardinalityType
    <3>7. backup.retain \in Nat BY JobTyped
    <3> QED BY <2>1, <3>5, <3>6, <3>7
  <2> HIDE DEF less
  <2>8. Backups' = Backups BY <1>1 DEF Backups
  <2>9. DeletionIsSafe' BY <1>1, <2>1, <2>3, <2>5, <2>6, <2>7, <2>8 DEF DeletionIsSafe, JobAt, At
  <2> QED BY <1>1, <1>2, <1>3, <2>3, <2>4, <2>9, ReleasesStay
<1> QED BY <1>1, <1>4, <1>5

\* The other ends of a job, and the owner's choice, touch no release.
LEMMA OtherReleaseSteps ==
    ASSUME ReleasesInv, FinishUpload \/ ChangeVisibility \/ RunnerDies \/ UNCHANGED releaseVars
    PROVE  ReleasesInv'
<1>1. CASE FinishUpload \/ RunnerDies
  <2>1. /\ UNCHANGED <<release, tags, private, latest>> /\ JobEnds
        /\ Loses \/ UNCHANGED lost
    BY <1>1 DEF FinishUpload, RunnerDies
  <2>2. lost' \in 0..MaxLost BY <2>1, LostTyped DEF Keeps
  <2>3. tags' \subseteq Releases /\ private' \in BOOLEAN BY <2>1 DEF ReleasesInv
  <2> QED BY <2>1, <2>2, <2>3, JobTyped, JobEndsSafely, ReleasesStay DEF JobEnds
<1>2. CASE ChangeVisibility \/ UNCHANGED releaseVars
  <2>1. /\ UNCHANGED <<release, tags, backup, latest>>
        /\ Loses \/ UNCHANGED lost
        /\ private' \in BOOLEAN
    BY <1>2 DEF ChangeVisibility, releaseVars, ReleasesInv
  <2>2. lost' \in 0..MaxLost BY <2>1, LostTyped DEF Keeps
  <2>3. Backups' = Backups BY <2>1 DEF Backups
  <2>4. JobIsHonest' BY <2>1 DEF ReleasesInv, JobIsHonest, JobAt, At
  <2>5. DeletionIsSafe' BY <2>1, <2>3 DEF ReleasesInv, DeletionIsSafe, JobAt, At
  <2>6. tags' \subseteq Releases /\ backup' \in BackupRecords BY <2>1 DEF ReleasesInv
  <2> QED BY <2>1, <2>2, <2>4, <2>5, <2>6, ReleasesStay
<1> QED BY <1>1, <1>2

\* Nothing of this installation is there at the start.
LEMMA ReleasesInitially == ReleasesInit => ReleasesInv
<1> SUFFICES ASSUME ReleasesInit PROVE ReleasesInv
  OBVIOUS
<1>1. /\ release = [r \in Releases |->
             IF r \in Foreign THEN [NoRelease EXCEPT !.state = "published", !.asset = "good"] ELSE NoRelease]
      /\ tags = Foreign /\ private \in BOOLEAN /\ backup = NoBackup /\ latest = 0 /\ lost = 0
  BY DEF ReleasesInit
<1>2. /\ [NoRelease EXCEPT !.state = "published", !.asset = "good"] \in ReleaseRecords
      /\ NoRelease \in ReleaseRecords
  BY DEF NoRelease, ReleaseRecords, States, Assets
<1>3. release \in [Releases -> ReleaseRecords] BY <1>1, <1>2
<1>4. NoBackup \in BackupRecords BY DEF NoBackup, BackupRecords, BackupSteps
<1>5. \A r \in Jobs : release[r].state = "none"
  <2>1. \A r \in Jobs : r \in Releases /\ r \notin Foreign BY ReleasesAssumption DEF Releases
  <2> QED BY <1>1, <2>1 DEF NoRelease
<1>6. {r \in Jobs : release[r].state # "none"} = {} BY <1>5
<1>7. IsFiniteSet({r \in Jobs : release[r].state # "none"}) BY <1>6, FS_EmptySet
<1>8. PublishedIsVerified /\ LatestStays BY <1>1, <1>5 DEF PublishedIsVerified, LatestStays
<1>9. \A r \in Foreign : release[r].state = "published"
  BY <1>1 DEF Releases, NoRelease
<1>10. JobIsHonest /\ DeletionIsSafe
  BY <1>1 DEF NoBackup, JobIsHonest, DeletionIsSafe, JobAt, At
<1>11. tags \subseteq Releases /\ lost \in 0..MaxLost
  BY <1>1, ReleasesAssumption DEF Releases
<1> QED BY <1>1, <1>3, <1>4, <1>7, <1>8, <1>9, <1>10, <1>11 DEF ReleasesInv

\* Every step of a job keeps the invariant.
LEMMA ReleasesStep == ReleasesInv /\ [ReleasesNext]_releaseVars => ReleasesInv'
<1> SUFFICES ASSUME ReleasesInv, [ReleasesNext]_releaseVars PROVE ReleasesInv'
  OBVIOUS
<1>1. ASSUME NEW n \in Jobs, NEW keep \in Retains, BeginUpload(n, keep) PROVE ReleasesInv'
  BY <1>1, BeginUploadInv
<1>2. ASSUME NEW step \in DOMAIN Checks, CheckPrivate(step) PROVE ReleasesInv'
  BY <1>2, CheckPrivateInv
<1>3. ASSUME NEW time \in Times, CreateDraft(time) PROVE ReleasesInv'
  BY <1>3, CreateDraftInv
<1>4. CASE SendAsset \/ VerifyAsset \/ Publish \/ ListReleases \/ DeleteRelease \/ DeleteTag
  BY <1>4, SendAssetInv, VerifyAssetInv, PublishInv, ListReleasesInv, DeleteReleaseInv, DeleteTagInv
<1>5. CASE FinishUpload \/ ChangeVisibility \/ RunnerDies \/ UNCHANGED releaseVars
  BY <1>5, OtherReleaseSteps
<1> QED BY <1>1, <1>2, <1>3, <1>4, <1>5 DEF ReleasesNext

\* The invariant says more than the property and the types.
LEMMA ReleasesInvSuffices == ReleasesInv => BackupsKept /\ ReleasesTypeOK
<1> SUFFICES ASSUME ReleasesInv PROVE BackupsKept /\ ReleasesTypeOK
  OBVIOUS
<1>1. EnoughStay
  <2>1. ASSUME At("tag") PROVE Cardinality(Backups) >= backup.retain
    <3>1. Cardinality(Backups \ backup.delete) >= backup.retain
      BY <2>1 DEF ReleasesInv, DeletionIsSafe, JobAt, At
    <3>2. Backups \subseteq {r \in Jobs : release[r].state # "none"} BY DEF Backups
    <3>3. IsFiniteSet(Backups) BY <3>2, FS_Subset DEF ReleasesInv
    <3>4. Cardinality(Backups \ backup.delete) <= Cardinality(Backups)
          /\ IsFiniteSet(Backups \ backup.delete)
      BY <3>3, FS_Subset
    <3>5. Cardinality(Backups \ backup.delete) \in Nat /\ Cardinality(Backups) \in Nat
      BY <3>3, <3>4, FS_CardinalityType
    <3>6. backup.retain \in Nat BY JobTyped
    <3> QED BY <3>1, <3>4, <3>5, <3>6
  <2> QED BY <2>1 DEF EnoughStay, ReleasesInv
<1>2. BackupsKept BY <1>1 DEF BackupsKept, ReleasesInv
<1>3. \A r \in Releases : release[r].state \in States /\ release[r].asset \in Assets
  BY DEF ReleasesInv, ReleaseRecords
<1>4. ReleasesTypeOK BY <1>3, JobTyped DEF ReleasesTypeOK, ReleasesInv
<1> QED BY <1>2, <1>4

\* However requests fail, answers are lost, the runner dies or the clock is set
\* back: what is published was verified, the last one published stays, and a
\* deletion leaves as many backups as the setting asks for (upload, Retain).
THEOREM ReleasesKeepBackups == ReleasesSpec => []BackupsKept
<1> QED BY ReleasesInitially, ReleasesStep, ReleasesInvSuffices, PTL DEF ReleasesSpec

\* The types of what GitHub holds and of the job that runs.
THEOREM ReleasesTypes == ReleasesSpec => []ReleasesTypeOK
<1> QED BY ReleasesInitially, ReleasesStep, ReleasesInvSuffices, PTL DEF ReleasesSpec

-----------------------------------------------------------------------------
(* Archives.                                                               *)

\* The files of an archive: their names are not those of the other frames.
LEMMA FileNames ==
    /\ IsFiniteSet(Files) /\ {"db", "mgr", "mkey", TemplateFile, AuthFile} \subseteq Files
    /\ "manifest" \notin Files /\ "end" \notin Files
    /\ Manager \subseteq Files /\ Databases \subseteq Files /\ Core \subseteq Files
    /\ ConfigFiles \subseteq Files /\ ConfigFiles \cap Manager = {} /\ ConfigFiles \cap Databases = {}
    /\ "db" # "mgr" /\ "db" # "mkey" /\ "mgr" # "mkey"
<1>1. Files = {"db", "mgr", "mkey"} \cup ConfigFiles BY DEF Files, Databases
<1>2. Files = ((ConfigFiles \cup {"db"}) \cup {"mgr"}) \cup {"mkey"} BY <1>1
<1>3. IsFiniteSet(Files) BY <1>2, FS_AddElement, ArchiveAssumption
<1> QED BY <1>1, <1>3, ArchiveAssumption DEF Manager, Databases, Core

\* A finite set is a sequence without repetitions.
LEMMA SetAsSeq ==
    ASSUME NEW S, IsFiniteSet(S)
    PROVE  /\ SetToSeq(S) \in Seq(S) /\ SetToSeq(S) \in [1..Cardinality(S) -> S]
           /\ Cardinality(S) \in Nat /\ Len(SetToSeq(S)) = Cardinality(S)
<1>1. Cardinality(S) \in Nat /\ ExistsBijection(1..Cardinality(S), S) BY FS_CardinalityType
<1>2. PICK f \in [1..Cardinality(S) -> S] : IsInjective(f)
  BY <1>1 DEF ExistsBijection, Bijection, Injection
<1>3. SetToSeq(S) \in [1..Cardinality(S) -> S] BY <1>2 DEF SetToSeq
<1> QED BY <1>1, <1>3

\* What an archive made of staged files is: frames of its own number, in order, the end
\* only last, the manifest of what was staged before it, and nothing not staged.
SealsUp(a, id, staged) ==
    LET n == Len(a.frames) IN
    /\ a \in Archives /\ a.id = id /\ n \in Nat /\ n >= 2
    /\ \A i \in 1..n : /\ a.frames[i].id = id /\ a.frames[i].seq = i
                       /\ a.frames[i].data.name = "end" <=> i = n
    /\ a.frames[n - 1].data.list = staged
    /\ \A i \in 1..n :
           a.frames[i].data.at = Absent \/ \E f \in Files : a.frames[i].data.at = staged[f]

\* Encrypt makes such an archive, whatever was staged.
LEMMA EncryptSeals ==
    ASSUME NEW id \in Nat, NEW staged \in Contents, NEW policy \in Nat
    PROVE  SealsUp(Encrypt(id, staged, policy), id, staged)
<1> DEFINE S == {f \in Files : staged[f] # Absent}
           present == SetToSeq(S)
           N == Len(present)
           D == [name : Files \cup {"manifest", "end"}, at : Nat \X Nat, list : Contents, policy : Nat]
           named == [i \in 1..N |-> Data(present[i], staged[present[i]], Nothing, 0)]
           last == << Data("manifest", Absent, staged, policy), Data("end", Absent, Nothing, 0) >>
           data == named \o last
           frames == [i \in 1..Len(data) |-> [id |-> id, seq |-> i, data |-> data[i]]]
<1>1. IsFiniteSet(S) BY FileNames, FS_Subset
<1>2. present \in Seq(S) /\ N \in Nat /\ \A i \in 1..N : present[i] \in Files
  <2>1. present \in Seq(S) /\ present \in [1..Cardinality(S) -> S] /\ Cardinality(S) \in Nat
        /\ N = Cardinality(S)
    BY <1>1, SetAsSeq
  <2> QED BY <2>1
<1>3. Absent \in Nat \X Nat /\ Nothing \in Contents BY DEF Absent, Nothing, Contents
<1>4. \A i \in 1..N : Data(present[i], staged[present[i]], Nothing, 0) \in D
  BY <1>2, <1>3 DEF Data, Contents
<1>5. /\ named \in Seq(D) /\ Len(named) = N
      /\ \A i \in 1..N : named[i].name \in Files /\ \E f \in Files : named[i].at = staged[f]
  <2>1. named \in [1..N -> D] BY <1>4
  <2>2. \A i \in 1..N : named[i].name = present[i] /\ named[i].at = staged[present[i]] BY DEF Data
  <2> HIDE DEF named, D, N, present
  <2> QED BY <1>2, <2>1, <2>2
<1>6. last \in Seq(D) /\ Len(last) = 2 /\ last[1].name = "manifest" /\ last[2].name = "end"
      /\ last[1].list = staged /\ last[1].at = Absent /\ last[2].at = Absent
  <2>1. Data("manifest", Absent, staged, policy) \in D /\ Data("end", Absent, Nothing, 0) \in D
    BY <1>3 DEF Data
  <2>2. /\ Data("manifest", Absent, staged, policy).name = "manifest"
        /\ Data("manifest", Absent, staged, policy).list = staged
        /\ Data("manifest", Absent, staged, policy).at = Absent
        /\ Data("end", Absent, Nothing, 0).name = "end"
        /\ Data("end", Absent, Nothing, 0).at = Absent
    BY DEF Data
  <2> HIDE DEF D
  <2> QED BY <2>1, <2>2
<1> HIDE DEF named, last, D, N, present
<1>7. data \in Seq(D) /\ Len(data) = N + 2
      /\ \A i \in 1..(N + 2) : data[i] = IF i <= N THEN named[i] ELSE last[i - N]
  <2>1. /\ named \o last \in Seq(D) /\ Len(named \o last) = Len(named) + Len(last)
        /\ \A i \in 1..(Len(named) + Len(last)) :
               (named \o last)[i] = IF i <= Len(named) THEN named[i] ELSE last[i - Len(named)]
    BY <1>5, <1>6, ConcatProperties
  <2>2. data = named \o last OBVIOUS
  <2> HIDE DEF data
  <2> QED BY <1>5, <1>6, <2>1, <2>2
<1> HIDE DEF data
<1>8. \A i \in 1..(N + 2) : data[i].name = "end" <=> i = N + 2
  <2> TAKE i \in 1..(N + 2)
  <2>1. CASE i <= N
    BY <1>2, <1>5, <1>7, <2>1, FileNames
  <2>2. CASE i = N + 1
    <3>1. data[i] = last[1] BY <1>2, <1>7, <2>2
    <3> QED BY <1>2, <1>6, <2>2, <3>1
  <2>3. CASE i = N + 2
    <3>1. data[i] = last[2] BY <1>2, <1>7, <2>3
    <3> QED BY <1>6, <2>3, <3>1
  <2> QED BY <1>2, <2>1, <2>2, <2>3
<1>9. data[N + 1].list = staged
  <2>1. data[N + 1] = last[1] BY <1>2, <1>7
  <2> QED BY <1>6, <2>1
<1>10. \A i \in 1..(N + 2) : data[i] \in D BY <1>2, <1>7
<1>14. \A i \in 1..(N + 2) : data[i].at = Absent \/ \E f \in Files : data[i].at = staged[f]
  <2> TAKE i \in 1..(N + 2)
  <2>1. CASE i <= N BY <1>2, <1>5, <1>7, <2>1
  <2>2. CASE i > N
    <3>1. data[i] \in {last[1], last[2]} BY <1>2, <1>7, <2>2
    <3> QED BY <1>6, <3>1
  <2> QED BY <1>2, <2>1, <2>2
<1>11. frames \in Seq(FrameRecords) /\ Len(frames) = N + 2
       /\ \A i \in 1..(N + 2) : frames[i] = [id |-> id, seq |-> i, data |-> data[i]]
  <2>1. \A i \in 1..(N + 2) : [id |-> id, seq |-> i, data |-> data[i]] \in FrameRecords
    BY <1>2, <1>10 DEF FrameRecords, D
  <2>2. frames \in [1..(N + 2) -> FrameRecords] BY <1>7, <2>1
  <2> QED BY <1>2, <1>7, <2>2
<1>12. Encrypt(id, staged, policy) = [id |-> id, frames |-> frames]
  BY DEF Encrypt, frames, data, named, last, N, present
<1> HIDE DEF frames
<1>13. [id |-> id, frames |-> frames] \in Archives BY <1>11 DEF Archives
<1> QED BY SMTT(20), <1>2, <1>8, <1>9, <1>11, <1>12, <1>13, <1>14 DEF SealsUp

\* What is read of the archives does not depend on the files.
LEMMA ArchivesStay ==
    ASSUME ArchiveInv, UNCHANGED <<made, stored, reader, output>>
    PROVE  MadeInv' /\ ReadInv' /\ RestoredIsWhole'
<1>1. MadeInv' BY DEF ArchiveInv, MadeInv, Sealed
<1>2. ReadInv' BY DEF ArchiveInv, ReadInv, OfMade, FramesMade
<1>3. RestoredIsWhole' BY DEF ArchiveInv, RestoredIsWhole
<1> QED BY <1>1, <1>2, <1>3

\* What the types say of createArchive.
LEMMA MakerTyped ==
    ASSUME ArchiveInv
    PROVE  /\ maker \in Makers /\ maker.staged \in Contents /\ maker.left \in Seq(Files)
           /\ maker.copy.before \in Nat /\ maker.copy.now \in Nat /\ maker.copy.half \in Nat
           /\ maker.policy \in Nat /\ writes \in Nat /\ approved \in Nat
           /\ live \in [Files -> 0..writes] /\ live["mgr"] = live["mkey"]
BY DEF ArchiveInv, LiveInv, StageInv, Makers

\* A file is written while CPAMP's stay as they are, or both of CPAMP's are.
LEMMA LiveMoves ==
    ASSUME ArchiveInv, NEW fs \in SUBSET Files, Written(fs), UNCHANGED approved,
           fs = Manager \/ fs \cap Manager = {}
    PROVE  /\ LiveInv' /\ writes' = writes + 1
           /\ fs \cap Manager = {} => \A f \in Manager : live'[f] = live[f]
<1>1. /\ writes' = writes + 1
      /\ live' = [f \in Files |-> IF f \in fs THEN writes + 1 ELSE live[f]]
  BY DEF Written
<1>2. writes \in Nat /\ live \in [Files -> 0..writes] /\ live["mgr"] = live["mkey"] /\ approved \in Nat
  BY MakerTyped
<1>3. live' \in [Files -> 0..writes'] BY <1>1, <1>2
<1>4. "mgr" \in Files /\ "mkey" \in Files BY FileNames
<1>5. live'["mgr"] = live'["mkey"] BY <1>1, <1>2, <1>4 DEF Manager
<1>6. fs \cap Manager = {} => \A f \in Manager : live'[f] = live[f]
  BY <1>1, FileNames
<1> QED BY <1>1, <1>2, <1>3, <1>5, <1>6 DEF LiveInv

\* Whatever the copy has open, it was opened before.
LEMMA StageStays ==
    ASSUME ArchiveInv, NEW copy \in [before : Nat, now : Nat, attached : BOOLEAN, half : Nat],
           maker' = [maker EXCEPT !.copy = copy], writes' \in Nat, writes <= writes',
           copy.before = maker.copy.before, copy.half = maker.copy.half,
           maker.step \in {"copy", "half"} => maker.copy.now <= copy.now /\ copy.now <= writes',
           ~Frozen \/ \A f \in Manager : live'[f] = live[f]
    PROVE  StageInv'
<1>1. maker \in Makers BY MakerTyped
<1>2. /\ maker' \in Makers /\ maker'.step = maker.step /\ maker'.left = maker.left
      /\ maker'.staged = maker.staged /\ maker'.copy = copy
  BY <1>1 DEF Makers
<1>3. CurrentFile' = CurrentFile /\ Frozen' = Frozen BY <1>2 DEF CurrentFile, Frozen
<1>4. StageInv BY DEF ArchiveInv
<1>5. maker.step \in {"copy", "half"} => Frozen BY DEF Frozen
<1>6. maker'.step \in {"copy", "half"} =>
          /\ maker'.copy.before <= maker'.copy.now /\ maker'.copy.now <= writes'
          /\ CurrentFile' \in Manager => maker'.copy.before = live'[CurrentFile']
  <2> SUFFICES ASSUME maker.step \in {"copy", "half"}
               PROVE  /\ copy.before <= copy.now /\ copy.now <= writes'
                      /\ CurrentFile \in Manager => copy.before = live'[CurrentFile]
    BY <1>2, <1>3
  <2>1. /\ maker.copy.before <= maker.copy.now
        /\ CurrentFile \in Manager => maker.copy.before = live[CurrentFile]
    BY <1>4 DEF StageInv
  <2>2. /\ maker.copy.before \in Nat /\ maker.copy.now \in Nat /\ copy.now \in Nat
    BY MakerTyped
  <2> QED BY <1>5, <2>1, <2>2
<1>7. maker'.step = "half" =>
          maker'.copy.before <= maker'.copy.half /\ maker'.copy.half <= maker'.copy.now
  <2> SUFFICES ASSUME maker.step = "half" PROVE copy.before <= copy.half /\ copy.half <= copy.now
    BY <1>2
  <2>1. maker.copy.before <= maker.copy.half /\ maker.copy.half <= maker.copy.now
    BY <1>4 DEF StageInv
  <2>2. maker.copy.half \in Nat /\ maker.copy.now \in Nat /\ copy.now \in Nat BY MakerTyped
  <2> QED BY <2>1, <2>2
<1>8. Frozen' => \A f \in Manager : maker'.staged[f] # Absent => maker'.staged[f][1] = live'[f]
  BY <1>2, <1>3, <1>4 DEF StageInv
<1> QED BY <1>2, <1>4, <1>6, <1>7, <1>8 DEF StageInv

\* An open file that is written in place is read as it is then.
LEMMA WriteInPlaceInv ==
    ASSUME ArchiveInv, NEW f \in ConfigFiles, WriteInPlace(f)
    PROVE  ArchiveInv'
<1>1. /\ Written({f}) /\ UNCHANGED <<approved, made, stored, reader, output>>
      /\ \/ maker' = [maker EXCEPT !.copy.now = writes + 1]
         \/ maker' = maker
  BY DEF WriteInPlace, ReaderKeeps
<1>2. {f} \in SUBSET Files /\ {f} \cap Manager = {} BY FileNames
<1>3. /\ LiveInv' /\ writes' = writes + 1 /\ \A g \in Manager : live'[g] = live[g]
  BY <1>1, <1>2, LiveMoves
<1>4. maker \in Makers /\ writes \in Nat BY MakerTyped
<1>5. maker.copy \in [before : Nat, now : Nat, attached : BOOLEAN, half : Nat] BY <1>4 DEF Makers
<1>6. maker.step \in {"copy", "half"} => maker.copy.now <= writes BY DEF ArchiveInv, StageInv
<1>7. StageInv'
  <2>1. CASE maker' = maker
    <3>1. maker' = [maker EXCEPT !.copy = maker.copy] BY <1>4, <2>1 DEF Makers
    <3>2. maker.copy.now \in Nat BY MakerTyped
    <3> QED BY <1>3, <1>4, <1>5, <1>6, <3>1, <3>2, StageStays
  <2>2. CASE maker' = [maker EXCEPT !.copy.now = writes + 1]
    <3> DEFINE copy == [maker.copy EXCEPT !.now = writes + 1]
    <3>1. copy \in [before : Nat, now : Nat, attached : BOOLEAN, half : Nat] BY <1>4, <1>5
    <3>2. copy.before = maker.copy.before /\ copy.half = maker.copy.half /\ copy.now = writes + 1
      BY <1>5
    <3>3. maker' = [maker EXCEPT !.copy = copy] BY <2>2
    <3>4. maker.copy.now \in Nat BY MakerTyped
    <3> HIDE DEF copy
    <3> QED BY <1>3, <1>4, <1>6, <3>1, <3>2, <3>3, <3>4, StageStays
  <2> QED BY <1>1, <2>1, <2>2
<1> QED BY <1>1, <1>3, <1>7, ArchivesStay DEF ArchiveInv

\* An open file that is replaced is read as it was.
LEMMA ReplaceFileInv ==
    ASSUME ArchiveInv, NEW f \in ConfigFiles, ReplaceFile(f)
    PROVE  ArchiveInv'
<1>1. /\ Written({f}) /\ UNCHANGED <<approved, made, stored, reader, output>>
      /\ \/ maker' = [maker EXCEPT !.copy.attached = FALSE]
         \/ maker' = maker
  BY DEF ReplaceFile, ReaderKeeps
<1>2. {f} \in SUBSET Files /\ {f} \cap Manager = {} BY FileNames
<1>3. /\ LiveInv' /\ writes' = writes + 1 /\ \A g \in Manager : live'[g] = live[g]
  BY <1>1, <1>2, LiveMoves
<1>4. maker \in Makers /\ writes \in Nat BY MakerTyped
<1>5. maker.copy \in [before : Nat, now : Nat, attached : BOOLEAN, half : Nat] BY <1>4 DEF Makers
<1>6. maker.step \in {"copy", "half"} => maker.copy.now <= writes BY DEF ArchiveInv, StageInv
<1>7. PICK copy \in [before : Nat, now : Nat, attached : BOOLEAN, half : Nat] :
          /\ maker' = [maker EXCEPT !.copy = copy] /\ copy.now = maker.copy.now
          /\ copy.before = maker.copy.before /\ copy.half = maker.copy.half
  <2>1. CASE maker' = maker
    <3>1. maker' = [maker EXCEPT !.copy = maker.copy] BY <1>4, <2>1 DEF Makers
    <3> QED BY <1>5, <3>1
  <2>2. CASE maker' = [maker EXCEPT !.copy.attached = FALSE]
    <3> DEFINE copy == [maker.copy EXCEPT !.attached = FALSE]
    <3>1. copy \in [before : Nat, now : Nat, attached : BOOLEAN, half : Nat] BY <1>5
    <3>2. copy.before = maker.copy.before /\ copy.half = maker.copy.half /\ copy.now = maker.copy.now
      BY <1>5
    <3>3. maker' = [maker EXCEPT !.copy = copy] BY <2>2
    <3> HIDE DEF copy
    <3> QED BY <3>1, <3>2, <3>3
  <2> QED BY <1>1, <2>1, <2>2
<1>8. maker.copy.now \in Nat BY MakerTyped
<1>9. StageInv' BY <1>3, <1>4, <1>6, <1>7, <1>8, StageStays
<1> QED BY <1>1, <1>3, <1>9, ArchivesStay DEF ArchiveInv

\* The other changes of the files leave createArchive as it is.
LEMMA FilesMove ==
    ASSUME ArchiveInv, RemoveFile \/ ManagerWrites \/ ApproveTemplate
    PROVE  ArchiveInv'
<1>1. UNCHANGED <<maker, made, stored, reader, output>>
  BY DEF RemoveFile, ManagerWrites, ApproveTemplate, MakerKeeps, ReaderKeeps
<1>2. /\ LiveInv' /\ writes' \in Nat /\ writes <= writes'
      /\ ~Frozen \/ \A f \in Manager : live'[f] = live[f]
  <2>1. CASE RemoveFile
    <3>1. /\ live' = [live EXCEPT ![AuthFile] = 0] /\ UNCHANGED <<writes, approved>>
      BY <2>1 DEF RemoveFile
    <3>2. writes \in Nat /\ live \in [Files -> 0..writes] /\ live["mgr"] = live["mkey"] /\ approved \in Nat
      BY MakerTyped
    <3>3. AuthFile \in ConfigFiles /\ AuthFile \notin Manager /\ Manager \subseteq Files
      BY FileNames, ArchiveAssumption
    <3>4. \A f \in Manager : live'[f] = live[f] BY <3>1, <3>2, <3>3
    <3>0. 0 \in 0..writes BY <3>2
    <3>5. live' \in [Files -> 0..writes]
      <4> DEFINE W == 0..writes
      <4>1. 0 \in W /\ live \in [Files -> W] BY <3>0, <3>2
      <4> HIDE DEF W
      <4>2. live' \in [Files -> W] BY <3>1, <4>1
      <4> QED BY <4>2 DEF W
    <3>6. live'["mgr"] = live'["mkey"] BY <3>2, <3>4 DEF Manager
    <3> QED BY <3>1, <3>2, <3>4, <3>5, <3>6 DEF LiveInv
  <2>2. CASE ManagerWrites
    <3>1. Written(Manager) /\ UNCHANGED approved /\ ~Frozen BY <2>2 DEF ManagerWrites
    <3>2. Manager \in SUBSET Files BY FileNames
    <3>3. writes \in Nat BY MakerTyped
    <3> QED BY <3>1, <3>2, <3>3, LiveMoves
  <2>3. CASE ApproveTemplate
    <3>1. approved' = live[TemplateFile] /\ UNCHANGED <<live, writes>> BY <2>3 DEF ApproveTemplate
    <3>2. writes \in Nat /\ live \in [Files -> 0..writes] /\ live["mgr"] = live["mkey"] BY MakerTyped
    <3>3. TemplateFile \in Files BY FileNames
    <3> QED BY <3>1, <3>2, <3>3 DEF LiveInv
  <2> QED BY <2>1, <2>2, <2>3
<1>3. maker \in Makers BY MakerTyped
<1>4. maker.copy \in [before : Nat, now : Nat, attached : BOOLEAN, half : Nat] BY <1>3 DEF Makers
<1>5. maker' = [maker EXCEPT !.copy = maker.copy] BY <1>1, <1>3 DEF Makers
<1>6. maker.step \in {"copy", "half"} => maker.copy.now <= writes BY DEF ArchiveInv, StageInv
<1>7. maker.copy.now \in Nat /\ writes \in Nat BY MakerTyped
<1>8. StageInv' BY <1>2, <1>4, <1>5, <1>6, <1>7, StageStays
<1> QED BY <1>1, <1>2, <1>8, ArchivesStay DEF ArchiveInv

\* A step of createArchive that keeps what is staged in order.
LEMMA MakerMoves ==
    ASSUME ArchiveInv, StageInv', FilesKeep, ReaderKeeps, UNCHANGED made
    PROVE  ArchiveInv'
<1>1. UNCHANGED <<live, writes, approved, made, stored, reader, output>> BY DEF FilesKeep, ReaderKeeps
<1>2. LiveInv' BY <1>1 DEF ArchiveInv, LiveInv
<1> QED BY <1>1, <1>2, ArchivesStay DEF ArchiveInv

\* One more file is staged.
LEMMA StagedOne ==
    ASSUME ArchiveInv, FilesKeep, Frozen, maker.left # << >>, CurrentFile \in Files,
           NEW halves \in Nat \X Nat, maker' = Stage(halves), halves[1] = halves[2],
           CurrentFile \in Manager /\ halves # Absent => halves[1] = live[CurrentFile]
    PROVE  StageInv'
<1>1. maker \in Makers /\ maker.left \in Seq(Files) /\ maker.staged \in Contents BY MakerTyped
<1> DEFINE c == CurrentFile
           dir == [maker.staged EXCEPT ![c] = halves]
<1>2. maker' = [maker EXCEPT !.step = "collect", !.left = Tail(@), !.copy = NoCopy, !.staged = dir]
  BY DEF Stage
<1>3. Tail(maker.left) \in Seq(Files) BY <1>1, HeadTailProperties
<1>4. dir \in Contents /\ dir[c] = halves /\ \A f \in Files : f # c => dir[f] = maker.staged[f]
  BY <1>1 DEF Contents
<1>5. NoCopy \in [before : Nat, now : Nat, attached : BOOLEAN, half : Nat] BY DEF NoCopy
<1> HIDE DEF dir, c
<1>6. maker' \in Makers /\ maker'.step = "collect" /\ maker'.staged = dir
  BY ZenonT(60), <1>1, <1>2, <1>3, <1>4, <1>5 DEF Makers
<1>7. StageInv /\ UNCHANGED live BY DEF ArchiveInv, FilesKeep
<1>8. \A f \in Files : dir[f][1] = dir[f][2]
  <2> TAKE f \in Files
  <2>1. maker.staged[f][1] = maker.staged[f][2] BY <1>7 DEF StageInv
  <2> QED BY <1>4, <2>1
<1>9. \A f \in Manager : dir[f] # Absent => dir[f][1] = live'[f]
  <2> TAKE f \in Manager
  <2>1. maker.staged[f] # Absent => maker.staged[f][1] = live[f] BY <1>7 DEF StageInv
  <2>2. f \in Files BY FileNames
  <2> QED BY <1>4, <1>7, <2>1, <2>2 DEF c
<1> QED BY <1>6, <1>8, <1>9 DEF StageInv

\* A failure throws away what was staged.
LEMMA MakerRests ==
    ASSUME maker' = Maker("idle")
    PROVE  StageInv'
<1>1. Maker("idle").step = "idle" /\ Maker("idle").staged = Nothing BY DEF Maker
<1>2. \A f \in Files : Nothing[f] = <<0, 0>> /\ Nothing[f][1] = Nothing[f][2]
  BY DEF Nothing, Absent
<1>3. Maker("idle") \in Makers
  <2>1. Nothing \in Contents /\ NoCopy \in [before : Nat, now : Nat, attached : BOOLEAN, half : Nat]
    BY DEF Nothing, Absent, Contents, NoCopy
  <2>2. << >> \in Seq(Files) BY EmptySeq
  <2> QED BY <2>1, <2>2 DEF Maker, Makers
<1> QED BY <1>1, <1>2, <1>3 DEF StageInv, Frozen

\* The archive begins with nothing staged.
LEMMA BeginArchiveInv ==
    ASSUME ArchiveInv, BeginArchive
    PROVE  ArchiveInv'
<1> DEFINE left == <<"db", "mgr", "mkey">> \o SetToSeq(ConfigFiles)
<1>1. maker' = [Maker("collect") EXCEPT !.left = left, !.policy = approved]
      /\ UNCHANGED made /\ FilesKeep /\ ReaderKeeps
  BY DEF BeginArchive
<1>2. left \in Seq(Files)
  <2>1. SetToSeq(ConfigFiles) \in Seq(ConfigFiles) BY SetAsSeq, ArchiveAssumption
  <2>2. SetToSeq(ConfigFiles) \in Seq(Files) BY <2>1, FileNames, SeqMonotonic
  <2>3. <<"db", "mgr", "mkey">> \in Seq(Files) BY FileNames
  <2> QED BY <2>2, <2>3, ConcatProperties
<1> HIDE DEF left
<1>3. Nothing \in Contents /\ NoCopy \in [before : Nat, now : Nat, attached : BOOLEAN, half : Nat]
  BY DEF Nothing, Absent, Contents, NoCopy
<1>4. approved \in Nat BY MakerTyped
<1>5. maker' = [step |-> "collect", left |-> left, copy |-> NoCopy, staged |-> Nothing, policy |-> approved]
  BY <1>1 DEF Maker
<1>6. maker' \in Makers /\ maker'.step = "collect" /\ maker'.staged = Nothing
  BY <1>2, <1>3, <1>4, <1>5 DEF Makers
<1>7. \A f \in Files : Nothing[f] = Absent /\ Nothing[f][1] = Nothing[f][2]
  BY DEF Nothing, Absent
<1>8. StageInv' BY <1>6, <1>7, FileNames DEF StageInv
<1> QED BY <1>1, <1>8, MakerMoves

\* A database is read at once, and CPAMP's stands still.
LEMMA SnapshotDatabaseInv ==
    ASSUME ArchiveInv, SnapshotDatabase
    PROVE  ArchiveInv'
<1>1. /\ maker.step = "collect" /\ CurrentFile \in Databases
      /\ maker' = Stage(<<live[CurrentFile], live[CurrentFile]>>)
      /\ UNCHANGED made /\ FilesKeep /\ ReaderKeeps
  BY DEF SnapshotDatabase, MakerAt
<1>2. CurrentFile \in Files /\ CurrentFile # "none" BY <1>1, FileNames DEF Databases
<1>3. maker.left # << >> BY <1>2 DEF CurrentFile
<1>4. live[CurrentFile] \in Nat BY <1>2, MakerTyped
<1>5. StageInv' BY <1>1, <1>2, <1>3, <1>4, StagedOne DEF Frozen
<1> QED BY <1>1, <1>5, MakerMoves

\* A credential that is absent when the directory is listed is left out.
LEMMA ListDirectoryInv ==
    ASSUME ArchiveInv, ListDirectory
    PROVE  ArchiveInv'
<1>1. /\ maker.step = "collect" /\ CurrentFile = AuthFile
      /\ maker' = Stage(Absent) \/ maker' = [maker EXCEPT !.step = "listed"]
      /\ UNCHANGED made /\ FilesKeep /\ ReaderKeeps
  BY DEF ListDirectory, MakerAt
<1>2. CurrentFile \in Files BY <1>1, FileNames
<1>3. maker.left # << >> BY <1>1, ArchiveAssumption DEF CurrentFile
<1>4. CASE maker' = Stage(Absent)
  <2>1. StageInv' BY <1>1, <1>2, <1>3, <1>4, StagedOne DEF Frozen, Absent
  <2> QED BY <1>1, <2>1, MakerMoves
<1>5. CASE maker' = [maker EXCEPT !.step = "listed"]
  <2>1. maker \in Makers /\ StageInv /\ UNCHANGED live BY <1>1, MakerTyped DEF ArchiveInv, FilesKeep
  <2>2. /\ maker' \in Makers /\ maker'.step = "listed" /\ maker'.left = maker.left
        /\ maker'.staged = maker.staged
    BY <1>5, <2>1 DEF Makers
  <2>3. StageInv' BY <1>1, <1>3, <2>1, <2>2 DEF StageInv, Frozen
  <2> QED BY <1>1, <2>3, MakerMoves
<1> QED BY <1>1, <1>4, <1>5

\* The copy begins with the version that is there.
LEMMA OpenFileInv ==
    ASSUME ArchiveInv, OpenFile
    PROVE  ArchiveInv'
<1>1. /\ maker.step = "listed" \/ (maker.step = "collect" /\ CurrentFile \in Files \ {"none"})
      /\ maker' = [maker EXCEPT !.step = "copy",
             !.copy = [before |-> live[CurrentFile], now |-> live[CurrentFile], attached |-> TRUE, half |-> 0]]
      /\ UNCHANGED made /\ FilesKeep /\ ReaderKeeps
  BY DEF OpenFile, MakerAt
<1>2. maker \in Makers /\ StageInv /\ UNCHANGED <<live, writes>>
  BY <1>1, MakerTyped DEF ArchiveInv, FilesKeep
<1>3. maker.left # << >> BY <1>1, <1>2 DEF CurrentFile, StageInv
<1>4. CurrentFile \in Files
  <2>1. maker.left \in Seq(Files) BY MakerTyped
  <2> QED BY <1>3, <2>1, HeadTailProperties DEF CurrentFile
<1>5. live[CurrentFile] \in Nat /\ live[CurrentFile] <= writes BY <1>4, MakerTyped
<1> DEFINE copy == [before |-> live[CurrentFile], now |-> live[CurrentFile], attached |-> TRUE, half |-> 0]
<1>6. copy \in [before : Nat, now : Nat, attached : BOOLEAN, half : Nat]
      /\ copy.before = live[CurrentFile] /\ copy.now = live[CurrentFile]
  BY <1>5
<1>7. maker' = [maker EXCEPT !.step = "copy", !.copy = copy] BY <1>1
<1> HIDE DEF copy
<1>8. /\ maker' \in Makers /\ maker'.step = "copy" /\ maker'.left = maker.left
      /\ maker'.staged = maker.staged /\ maker'.copy = copy
  BY <1>2, <1>6, <1>7 DEF Makers
<1>9. CurrentFile' = CurrentFile BY <1>8 DEF CurrentFile
<1>10. StageInv' BY <1>1, <1>2, <1>3, <1>5, <1>6, <1>8, <1>9 DEF StageInv, Frozen
<1> QED BY <1>1, <1>10, MakerMoves

\* Half of the file is read.
LEMMA CopyHalfInv ==
    ASSUME ArchiveInv, CopyHalf
    PROVE  ArchiveInv'
<1>1. /\ maker.step = "copy"
      /\ maker' = [maker EXCEPT !.step = "half", !.copy.half = maker.copy.now]
      /\ UNCHANGED made /\ FilesKeep /\ ReaderKeeps
  BY DEF CopyHalf, MakerAt
<1>2. maker \in Makers /\ StageInv /\ UNCHANGED <<live, writes>>
  BY <1>1, MakerTyped DEF ArchiveInv, FilesKeep
<1> DEFINE copy == [maker.copy EXCEPT !.half = maker.copy.now]
<1>3. maker.copy \in [before : Nat, now : Nat, attached : BOOLEAN, half : Nat] BY <1>2 DEF Makers
<1>4. copy \in [before : Nat, now : Nat, attached : BOOLEAN, half : Nat]
      /\ copy.before = maker.copy.before /\ copy.now = maker.copy.now /\ copy.half = maker.copy.now
  BY <1>3
<1>5. maker' = [maker EXCEPT !.step = "half", !.copy = copy] BY <1>1
<1> HIDE DEF copy
<1>6. /\ maker' \in Makers /\ maker'.step = "half" /\ maker'.left = maker.left
      /\ maker'.staged = maker.staged /\ maker'.copy = copy
  BY <1>2, <1>4, <1>5 DEF Makers
<1>7. CurrentFile' = CurrentFile BY <1>6 DEF CurrentFile
<1>8. copy.now \in Nat /\ copy.before \in Nat /\ copy.half \in Nat BY <1>4
<1>9. StageInv' BY <1>1, <1>2, <1>4, <1>6, <1>7, <1>8 DEF StageInv, Frozen
<1> QED BY <1>1, <1>9, MakerMoves

\* The other half is of the same version: the file is what it was before.
LEMMA CopyRestInv ==
    ASSUME ArchiveInv, CopyRest
    PROVE  ArchiveInv'
<1>1. /\ maker.step = "half" /\ maker.copy.now = maker.copy.before
      /\ maker' = Stage(<<maker.copy.half, maker.copy.now>>)
      /\ UNCHANGED made /\ FilesKeep /\ ReaderKeeps
  BY DEF CopyRest, MakerAt
<1>2. StageInv BY DEF ArchiveInv
<1>3. /\ maker.left # << >> /\ maker.copy.before <= maker.copy.half /\ maker.copy.half <= maker.copy.now
      /\ CurrentFile \in Manager => maker.copy.before = live[CurrentFile]
  BY <1>1, <1>2 DEF StageInv
<1>4. maker.copy.before \in Nat /\ maker.copy.half \in Nat /\ maker.copy.now \in Nat BY MakerTyped
<1>5. maker.copy.half = maker.copy.now BY <1>1, <1>3, <1>4
<1>6. CurrentFile \in Files
  <2>1. maker.left \in Seq(Files) BY MakerTyped
  <2> QED BY <1>3, <2>1, HeadTailProperties DEF CurrentFile
<1>7. StageInv' BY <1>1, <1>3, <1>4, <1>5, <1>6, StagedOne DEF Frozen
<1> QED BY <1>1, <1>7, MakerMoves

\* The pair of CPAMP that was staged is of one write.
LEMMA EndCollectionInv ==
    ASSUME ArchiveInv, EndCollection
    PROVE  ArchiveInv'
<1>1. /\ maker.step = "collect" /\ maker' = [maker EXCEPT !.step = "check"]
      /\ UNCHANGED made /\ FilesKeep /\ ReaderKeeps
  BY DEF EndCollection, MakerAt
<1>2. maker \in Makers /\ StageInv BY MakerTyped DEF ArchiveInv
<1>3. /\ maker' \in Makers /\ maker'.step = "check" /\ maker'.left = maker.left
      /\ maker'.staged = maker.staged
  BY <1>1, <1>2 DEF Makers
<1>4. ASSUME PairPresent(maker.staged) PROVE Paired(maker.staged)
  <2>1. \A f \in Manager : maker.staged[f] # Absent /\ maker.staged[f][1] = live[f]
    BY <1>1, <1>2, <1>4 DEF StageInv, Frozen, PairPresent
  <2>2. maker.staged["mgr"][1] = live["mgr"] /\ maker.staged["mkey"][1] = live["mkey"]
    BY <2>1 DEF Manager
  <2>3. live["mgr"] = live["mkey"] /\ live["mgr"] \in Nat BY MakerTyped, FileNames
  <2> QED BY <2>2, <2>3 DEF Paired
<1>5. StageInv' BY <1>2, <1>3, <1>4 DEF StageInv, Frozen
<1> QED BY <1>1, <1>5, MakerMoves

\* The check before the archive is written.
LEMMA CheckStageInv ==
    ASSUME ArchiveInv, CheckStage
    PROVE  ArchiveInv'
<1>1. /\ maker.step = "check" /\ maker' = [maker EXCEPT !.step = "write"]
      /\ CorePresent(maker.staged) /\ PairPresent(maker.staged)
      /\ UNCHANGED made /\ FilesKeep /\ ReaderKeeps
  BY DEF CheckStage, MakerAt
<1>2. maker \in Makers /\ StageInv BY MakerTyped DEF ArchiveInv
<1>3. /\ maker' \in Makers /\ maker'.step = "write" /\ maker'.left = maker.left
      /\ maker'.staged = maker.staged
  BY <1>1, <1>2 DEF Makers
<1>4. StageInv' BY <1>1, <1>2, <1>3 DEF StageInv, Frozen
<1> QED BY <1>1, <1>4, MakerMoves

\* What was staged at the end is a whole backup.
LEMMA StagedIsWhole ==
    ASSUME ArchiveInv, maker.step = "write"
    PROVE  Whole(maker.staged)
BY DEF ArchiveInv, StageInv, Whole

\* One more archive is made, under a number of its own.
LEMMA WriteArchiveInv ==
    ASSUME ArchiveInv, WriteArchive
    PROVE  ArchiveInv'
<1>0. PICK id, a, n : /\ id = Cardinality(made) + 1 /\ n = Len(a.frames)
                      /\ a = Encrypt(id, maker.staged, maker.policy)
  OBVIOUS
<1>1. /\ maker.step = "write" /\ made' = made \cup {a} /\ maker' = Maker("idle")
      /\ UNCHANGED <<live, writes, approved, stored, reader, output>>
  BY <1>0 DEF WriteArchive, MakerAt, FilesKeep, ReaderKeeps
<1>2. MadeInv /\ ReadInv /\ RestoredIsWhole BY DEF ArchiveInv
<1>3. IsFiniteSet(made) /\ Cardinality(made) \in Nat BY <1>2, FS_CardinalityType DEF MadeInv
<1>4. maker.staged \in Contents /\ maker.policy \in Nat BY MakerTyped
<1>5. /\ a \in Archives /\ a.id = id /\ n \in Nat /\ n >= 2
      /\ \A i \in 1..n : /\ a.frames[i].id = id /\ a.frames[i].seq = i
                         /\ a.frames[i].data.name = "end" <=> i = n
      /\ a.frames[n - 1].data.list = maker.staged
  <2>1. id \in Nat BY <1>0, <1>3
  <2>2. SealsUp(a, id, maker.staged) BY ZenonT(60), <1>0, <1>4, <2>1, EncryptSeals
  <2> QED BY <1>0, <2>2 DEF SealsUp
<1>6. \A b \in made : b.id \in 1..Cardinality(made) BY <1>2 DEF MadeInv, Sealed
<1>7. a \notin made BY <1>0, <1>3, <1>5, <1>6
<1>8. IsFiniteSet(made') /\ Cardinality(made') = Cardinality(made) + 1
  BY <1>1, <1>3, <1>7, FS_AddElement
<1>9. Sealed(a)'
  <2>1. Whole(maker.staged) BY <1>1, StagedIsWhole
  <2>2. a.id \in 1..Cardinality(made') BY <1>0, <1>3, <1>5, <1>8
  <2> QED BY <1>0, <1>5, <2>1, <2>2 DEF Sealed
<1>10. \A b \in made : Sealed(b)'
  <2> TAKE b \in made
  <2>1. Sealed(b) BY <1>2 DEF MadeInv
  <2>2. b.id \in 1..Cardinality(made') BY <1>3, <1>6, <1>8
  <2> QED BY <2>1, <2>2 DEF Sealed
<1>11. \A b, c \in made' : b.id = c.id => b = c
  <2>1. \A b \in made : b.id # a.id BY <1>0, <1>3, <1>5, <1>6
  <2>2. \A b, c \in made : b.id = c.id => b = c BY <1>2 DEF MadeInv
  <2> QED BY <1>1, <2>1, <2>2
<1>12. MadeInv' BY <1>1, <1>8, <1>9, <1>10, <1>11 DEF MadeInv
<1>13. made \subseteq made' /\ FramesMade \subseteq FramesMade' BY <1>1 DEF FramesMade
<1>14. ReadInv' BY <1>1, <1>2, <1>13 DEF ReadInv, OfMade
<1>15. RestoredIsWhole' BY <1>1, <1>2, <1>13 DEF RestoredIsWhole
<1>16. StageInv' BY <1>1, MakerRests
<1>17. LiveInv' BY <1>1 DEF ArchiveInv, LiveInv
<1> QED BY <1>12, <1>14, <1>15, <1>16, <1>17 DEF ArchiveInv

\* What is made of sealed frames, in any order, is a file of sealed frames.
LEMMA SealedFrames ==
    ASSUME ArchiveInv
    PROVE  /\ FramesMade \subseteq FrameRecords
           /\ \A a \in Archives : OfMade(a) <=> a.frames \in Seq(FramesMade)
           /\ \A id \in Nat, fs \in Seq(FramesMade) : OfMade([id |-> id, frames |-> fs])
           /\ \A a \in made : OfMade(a) /\ a.id \in Nat
<1>1. FramesMade \subseteq FrameRecords
  <2>1. ASSUME NEW a \in made, NEW i \in 1..Len(a.frames) PROVE a.frames[i] \in FrameRecords
    <3>1. a.frames \in Seq(FrameRecords) BY DEF ArchiveInv, MadeInv, Sealed, Archives
    <3> QED BY <3>1, ElementOfSeq
  <2> QED BY <2>1 DEF FramesMade
<1>2. ASSUME NEW a \in Archives PROVE OfMade(a) <=> a.frames \in Seq(FramesMade)
  <2>1. a.frames \in Seq(FrameRecords) BY DEF Archives
  <2>2. Len(a.frames) \in Nat /\ a.frames \in [1..Len(a.frames) -> FrameRecords] BY <2>1, LenProperties
  <2>3. ASSUME OfMade(a) PROVE a.frames \in Seq(FramesMade)
    <3>1. a.frames \in [1..Len(a.frames) -> FramesMade] BY <2>2, <2>3 DEF OfMade
    <3> QED BY <2>2, <3>1
  <2>4. ASSUME a.frames \in Seq(FramesMade) PROVE OfMade(a)
    BY <2>4, ElementOfSeq DEF OfMade
  <2> QED BY <2>3, <2>4
<1>3. ASSUME NEW id \in Nat, NEW fs \in Seq(FramesMade) PROVE OfMade([id |-> id, frames |-> fs])
  <2>1. fs \in Seq(FrameRecords) BY <1>1, SeqMonotonic
  <2>2. [id |-> id, frames |-> fs] \in Archives BY <2>1 DEF Archives
  <2> QED BY <1>2, <2>2
<1>4. ASSUME NEW a \in made PROVE OfMade(a) /\ a.id \in Nat
  BY DEF ArchiveInv, MadeInv, Sealed, OfMade, FramesMade, Archives
<1> QED BY <1>1, <1>2, <1>3, <1>4

\* The file a restore is given changes.
LEMMA StoredMoves ==
    ASSUME ArchiveInv, UNCHANGED <<maker, made, reader, output>>, FilesKeep, OfMade(stored'),
           reader.step = "idle"
    PROVE  ArchiveInv'
<1>1. OfMade(stored)' BY DEF OfMade, FramesMade
<1>2. ReadInv' BY <1>1 DEF ArchiveInv, ReadInv
<1>3. LiveInv' /\ StageInv'
  BY DEF ArchiveInv, LiveInv, StageInv, FilesKeep, Frozen, CurrentFile
<1>4. MadeInv' /\ RestoredIsWhole' BY DEF ArchiveInv, MadeInv, Sealed, RestoredIsWhole
<1> QED BY <1>2, <1>3, <1>4 DEF ArchiveInv

\* An archive is fetched as it was made.
LEMMA FetchArchiveInv ==
    ASSUME ArchiveInv, NEW a \in made, FetchArchive(a)
    PROVE  ArchiveInv'
BY SealedFrames, StoredMoves DEF FetchArchive, MakerKeeps

\* Damage and exchange cannot make a frame, only move, repeat or drop one.
LEMMA AlteredIsOfMade ==
    ASSUME stored.frames \in Seq(FramesMade), AlterFrames
    PROVE  \E g \in Seq(FramesMade) : stored' = [stored EXCEPT !.frames = g]
<1> DEFINE fs == stored.frames
           n == Len(fs)
<1>1. n \in Nat /\ DOMAIN fs = 1..n /\ \A i \in 1..n : fs[i] \in FramesMade
  BY LenProperties, ElementOfSeq
<1>2. PICK i \in 1..n :
       \/ FramesBecome(SubSeq(fs, 1, i - 1))
       \/ FramesBecome(RemoveAt(fs, i))
       \/ FramesBecome(Append(fs, fs[i]))
       \/ \E j \in 1..n : FramesBecome([fs EXCEPT ![i] = fs[j], ![j] = fs[i]])
       \/ \E b \in made : Len(b.frames) = n /\ FramesBecome([fs EXCEPT ![i] = b.frames[i]])
  <2> HIDE DEF FramesBecome
  <2> QED BY <1>1 DEF AlterFrames
<1>f. fs \in Seq(FramesMade) OBVIOUS
<1> HIDE DEF n, fs
<1>3. SubSeq(fs, 1, i - 1) \in Seq(FramesMade)
  <2>1. \A j \in 1..(i - 1) : fs[j] \in FramesMade BY <1>1
  <2> QED BY <1>1, <1>f, <2>1, SubSeqProperties
<1>4. RemoveAt(fs, i) \in Seq(FramesMade)
  <2>1. \A j \in (i + 1)..n : fs[j] \in FramesMade BY <1>1
  <2>2. i - 1 \in Int /\ i + 1 \in Int /\ n \in Int /\ 1 \in Int BY <1>1
  <2>3. SubSeq(fs, i + 1, n) \in Seq(FramesMade) BY <1>f, <2>1, <2>2, SubSeqProperties
  <2>4. SubSeq(fs, 1, i - 1) \o SubSeq(fs, i + 1, n) \in Seq(FramesMade)
    BY <1>3, <2>3, ConcatProperties
  <2> QED BY <2>4 DEF RemoveAt, n
<1>5. Append(fs, fs[i]) \in Seq(FramesMade) BY <1>1, <1>f, AppendProperties
<1>6. ASSUME NEW j \in 1..n PROVE [fs EXCEPT ![i] = fs[j], ![j] = fs[i]] \in Seq(FramesMade)
  <2> DEFINE y == [fs EXCEPT ![i] = fs[j]]
  <2>2. y \in Seq(FramesMade) /\ Len(y) = n BY <1>1, <1>f, ExceptSeq DEF n
  <2>3. [fs EXCEPT ![i] = fs[j], ![j] = fs[i]] = [y EXCEPT ![j] = fs[i]] OBVIOUS
  <2> HIDE DEF y
  <2> QED BY <1>1, <2>2, <2>3, ExceptSeq
<1>7. ASSUME NEW b \in made, Len(b.frames) = n PROVE [fs EXCEPT ![i] = b.frames[i]] \in Seq(FramesMade)
  <2>1. b.frames[i] \in FramesMade BY <1>7 DEF FramesMade
  <2> QED BY <1>f, <2>1, ExceptSeq DEF n
<1> QED BY <1>2, <1>3, <1>4, <1>5, <1>6, <1>7 DEF FramesBecome

\* An archive is altered on its way.
LEMMA AlterArchiveInv ==
    ASSUME ArchiveInv, AlterArchive
    PROVE  ArchiveInv'
<1>1. OfMade(stored) BY DEF ArchiveInv, ReadInv
<1>2. /\ stored \in Archives /\ stored = [id |-> stored.id, frames |-> stored.frames]
      /\ stored.id \in Nat /\ stored.frames \in Seq(FramesMade)
  <2>1. stored \in Archives BY <1>1 DEF OfMade
  <2> QED BY <1>1, <2>1, SealedFrames DEF Archives
<1>3. OfMade(stored')
  <2>1. ASSUME AlterFrames PROVE OfMade(stored')
    <3>1. PICK fs \in Seq(FramesMade) : stored' = [stored EXCEPT !.frames = fs]
      BY <1>2, <2>1, AlteredIsOfMade
    <3>2. stored' = [id |-> stored.id, frames |-> fs] BY <1>2, <3>1
    <3>3. OfMade([id |-> stored.id, frames |-> fs]) BY <1>2, SealedFrames
    <3> QED BY <3>2, <3>3
  <2>2. ASSUME NEW b \in made, stored' = [stored EXCEPT !.id = b.id] PROVE OfMade(stored')
    <3>1. stored' = [id |-> b.id, frames |-> stored.frames] BY <1>2, <2>2
    <3>2. b.id \in Nat BY SealedFrames
    <3>3. OfMade([id |-> b.id, frames |-> stored.frames]) BY <1>2, <3>2, SealedFrames
    <3> QED BY <3>1, <3>3
  <2> QED BY <2>1, <2>2 DEF AlterArchive
<1> QED BY <1>3, StoredMoves DEF AlterArchive, MakerKeeps

\* A restore moves on; while it runs nothing has been promoted.
LEMMA ReadMoves ==
    ASSUME ArchiveInv, NEW r, Reads(r), ReadInv', output = Nothing
    PROVE  ArchiveInv'
<1>1. UNCHANGED <<live, writes, approved, maker, made, stored, output>>
  BY DEF Reads, FilesKeep, MakerKeeps
<1>2. LiveInv' /\ StageInv' BY <1>1 DEF ArchiveInv, LiveInv, StageInv, Frozen, CurrentFile
<1>3. MadeInv' BY <1>1 DEF ArchiveInv, MadeInv, Sealed
<1>4. RestoredIsWhole' BY <1>1 DEF RestoredIsWhole, Nothing, Absent
<1> QED BY <1>2, <1>3, <1>4 DEF ArchiveInv

\* The first state of a restore, and of none.
LEMMA ReaderBegins ==
    ASSUME NEW step \in {"idle", "read"}, NEW source \in Archives
    PROVE  /\ Reader(step) \in Readers /\ Reader(step).step = step
           /\ [Reader(step) EXCEPT !.source = source]
                  = [step |-> step, at |-> 1, dir |-> Nothing, list |-> Nothing, source |-> source]
           /\ [Reader(step) EXCEPT !.source = source] \in Readers
<1>1. Nothing \in Contents BY DEF Contents, Nothing, Absent
<1>2. NoFile \in Archives
  <2>1. << >> \in Seq(FrameRecords) BY EmptySeq
  <2> QED BY <2>1 DEF NoFile, Archives
<1>3. Reader(step) = [step |-> step, at |-> 1, dir |-> Nothing, list |-> Nothing, source |-> NoFile]
  BY DEF Reader
<1> QED BY <1>1, <1>2, <1>3 DEF Readers

\* A restore that fails leaves nothing.
LEMMA RestoreFailsInv ==
    ASSUME ArchiveInv, RestoreFails
    PROVE  ArchiveInv'
<1>1. reader.step # "idle" /\ Reads(Reader("idle")) BY DEF RestoreFails
<1>2. ReadInv BY DEF ArchiveInv
<1>3. output = Nothing /\ stored \in Archives BY <1>1, <1>2 DEF ReadInv, OfMade
<1>4. reader' = Reader("idle") /\ UNCHANGED <<made, stored, output>> BY <1>1 DEF Reads, MakerKeeps
<1>5. reader' \in Readers /\ reader'.step = "idle" BY <1>3, <1>4, ReaderBegins
<1>6. ReadInv' BY <1>2, <1>4, <1>5 DEF ReadInv, OfMade, FramesMade
<1> QED BY <1>1, <1>3, <1>6, ReadMoves

\* Nothing is opened yet.
LEMMA BeginRestoreInv ==
    ASSUME ArchiveInv, BeginRestore
    PROVE  ArchiveInv'
<1>0. PICK r : r = [Reader("read") EXCEPT !.source = stored] OBVIOUS
<1>1. output = Nothing /\ Reads(r) BY <1>0 DEF BeginRestore
<1>2. ReadInv BY DEF ArchiveInv
<1>3. OfMade(stored) /\ stored \in Archives BY <1>2 DEF ReadInv, OfMade
<1>4. r \in Readers /\ r.step = "read" /\ r.at = 1 /\ r.source = stored
  BY <1>0, <1>3, ReaderBegins
<1>5. reader' = r /\ UNCHANGED <<made, stored, output>> BY <1>1 DEF Reads, MakerKeeps
<1>6. Len(stored.frames) \in Nat BY <1>3, LenProperties DEF Archives
<1>7. OfMade(stored)' BY <1>3, <1>5 DEF OfMade, FramesMade
<1>8. ReadInv'
  <2>1. r.at \in 1..(Len(r.source.frames) + 1) BY <1>4, <1>6
  <2>2. 1..(r.at - 1) = {} BY <1>4
  <2> QED BY <1>1, <1>2, <1>4, <1>5, <1>7, <2>1, <2>2 DEF ReadInv
<1> QED BY <1>1, <1>8, ReadMoves

\* One more frame is opened: it was sealed, for this archive and this position.
LEMMA OpenedNext ==
    ASSUME ArchiveInv, reader.step \in {"read", "finish"}, HasFrame, Opens(Frame)
    PROVE  LET source == reader.source IN
           /\ OfMade(source) /\ output = Nothing /\ reader \in Readers
           /\ Frame \in FrameRecords /\ reader.at \in Nat /\ Len(source.frames) \in Nat
           /\ reader.at + 1 \in 1..(Len(source.frames) + 1)
           /\ \A i \in 1..reader.at : source.frames[i].id = source.id /\ source.frames[i].seq = i
<1>1. ReadInv BY DEF ArchiveInv
<1> DEFINE source == reader.source
<1>2. OfMade(source) /\ output = Nothing /\ reader \in Readers /\ source \in Archives
  BY <1>1 DEF ReadInv, OfMade
<1>3. reader.at \in Nat /\ reader.at >= 1
      /\ \A i \in 1..(reader.at - 1) : source.frames[i].id = source.id /\ source.frames[i].seq = i
  <2>1. Len(source.frames) \in Nat BY <1>2, LenProperties DEF Archives
  <2> QED BY <1>1, <2>1 DEF ReadInv
<1>4. source.frames \in Seq(FrameRecords) /\ Len(source.frames) \in Nat
  BY <1>2, LenProperties DEF Archives
<1>5. reader.at <= Len(source.frames) BY DEF HasFrame
<1>6. Frame \in FrameRecords BY <1>3, <1>4, <1>5, ElementOfSeq DEF Frame
<1>7. source.frames[reader.at].id = source.id /\ source.frames[reader.at].seq = reader.at
  BY DEF Opens, Frame
<1> QED BY <1>2, <1>3, <1>4, <1>5, <1>6, <1>7

\* A file is staged.
LEMMA ExtractFileInv ==
    ASSUME ArchiveInv, ExtractFile
    PROVE  ArchiveInv'
<1>0. PICK r, name, at : /\ name = Frame.data.name /\ at = reader.at + 1
                         /\ r = [reader EXCEPT !.at = at, !.dir[name] = Frame.data.at]
  OBVIOUS
<1>1. reader.step = "read" /\ HasFrame /\ Opens(Frame) /\ name \in Files /\ Reads(r)
  BY <1>0 DEF ExtractFile
<1>2. /\ OfMade(reader.source) /\ output = Nothing /\ reader \in Readers
      /\ Frame \in FrameRecords /\ reader.at \in Nat /\ Len(reader.source.frames) \in Nat
      /\ reader.at + 1 \in 1..(Len(reader.source.frames) + 1)
      /\ \A i \in 1..reader.at : /\ reader.source.frames[i].id = reader.source.id
                                 /\ reader.source.frames[i].seq = i
  BY <1>1, OpenedNext
<1>3. Frame.data.at \in Nat \X Nat BY <1>2 DEF FrameRecords
<1>4. r \in Readers /\ r.step = "read" /\ r.at = reader.at + 1 /\ r.source = reader.source
  <2> DEFINE dir == [reader.dir EXCEPT ![name] = Frame.data.at]
  <2>1. dir \in Contents BY <1>1, <1>2, <1>3 DEF Readers, Contents
  <2>2. r = [reader EXCEPT !.at = at, !.dir = dir] BY <1>0
  <2>3. at \in Nat BY <1>0, <1>2
  <2>4. reader \in Readers BY <1>2
  <2> HIDE DEF dir
  <2>5. /\ r \in Readers /\ r.step = reader.step /\ r.at = at /\ r.source = reader.source
    BY <2>1, <2>2, <2>3, <2>4 DEF Readers
  <2> QED BY <1>0, <1>1, <2>5
<1>5. reader' = r /\ UNCHANGED <<made, stored, output>> BY <1>1 DEF Reads, MakerKeeps
<1>6. ReadInv BY DEF ArchiveInv
<1>7. OfMade(stored)' /\ OfMade(r.source)' BY <1>2, <1>4, <1>5, <1>6 DEF ReadInv, OfMade, FramesMade
<1>8. r.at - 1 = reader.at BY <1>2, <1>4
<1>9. ReadInv' BY ZenonT(60), <1>2, <1>4, <1>5, <1>6, <1>7, <1>8 DEF ReadInv
<1> QED BY <1>1, <1>2, <1>9, ReadMoves

\* The manifest is read.
LEMMA ReadManifestInv ==
    ASSUME ArchiveInv, ReadManifest
    PROVE  ArchiveInv'
<1>0. PICK r, at, list : /\ at = reader.at + 1 /\ list = Frame.data.list
                         /\ r = [reader EXCEPT !.at = at, !.list = list, !.step = "finish"]
  OBVIOUS
<1>1. reader.step = "read" /\ HasFrame /\ Opens(Frame) /\ Reads(r)
  BY <1>0 DEF ReadManifest
<1>2. /\ OfMade(reader.source) /\ output = Nothing /\ reader \in Readers
      /\ Frame \in FrameRecords /\ reader.at \in Nat /\ Len(reader.source.frames) \in Nat
      /\ reader.at + 1 \in 1..(Len(reader.source.frames) + 1)
      /\ \A i \in 1..reader.at : /\ reader.source.frames[i].id = reader.source.id
                                 /\ reader.source.frames[i].seq = i
  BY <1>1, OpenedNext
<1>3. Frame.data.list \in Contents BY <1>2 DEF FrameRecords
<1>4. /\ r \in Readers /\ r.step = "finish" /\ r.at = reader.at + 1 /\ r.source = reader.source
      /\ r.list = Frame.data.list
  <2>1. reader \in Readers /\ at \in Nat /\ list \in Contents BY <1>0, <1>2, <1>3
  <2>2. /\ r \in Readers /\ r.step = "finish" /\ r.at = at /\ r.source = reader.source
        /\ r.list = list
    BY <1>0, <2>1 DEF Readers
  <2> QED BY <1>0, <2>2
<1>5. reader' = r /\ UNCHANGED <<made, stored, output>> BY <1>1 DEF Reads, MakerKeeps
<1>6. ReadInv BY DEF ArchiveInv
<1>7. OfMade(stored)' /\ OfMade(r.source)' BY <1>2, <1>4, <1>5, <1>6 DEF ReadInv, OfMade, FramesMade
<1>8. r.at - 1 = reader.at /\ r.at >= 2
  <2>1. reader.at \in Nat /\ reader.at >= 1
    <3>1. reader.at >= 1 BY <1>1, <1>6 DEF ReadInv
    <3> QED BY <1>2, <3>1
  <2> QED BY <1>4, <2>1
<1>9. r.list = r.source.frames[r.at - 1].data.list BY <1>4, <1>8 DEF Frame
<1>10. ReadInv' BY ZenonT(60), <1>2, <1>4, <1>5, <1>6, <1>7, <1>8, <1>9 DEF ReadInv
<1> QED BY <1>1, <1>2, <1>10, ReadMoves

\* A file whose frames all open, down to the one that ends it, is an archive
\* as it was made: one number is one archive, and the end is where it was.
LEMMA OpenedIsMade ==
    ASSUME ArchiveInv, NEW s, OfMade(s), Len(s.frames) >= 1,
           \A i \in 1..Len(s.frames) : s.frames[i].id = s.id /\ s.frames[i].seq = i,
           s.frames[Len(s.frames)].data.name = "end"
    PROVE  s \in made
<1> DEFINE n == Len(s.frames)
<1>1. s \in Archives /\ s.frames \in Seq(FrameRecords) /\ n \in Nat BY LenProperties DEF OfMade, Archives
<1>2. MadeInv BY DEF ArchiveInv
<1>3. ASSUME NEW i \in 1..n
      PROVE  \E a \in made : a.id = s.id /\ i \in 1..Len(a.frames) /\ s.frames[i] = a.frames[i]
  <2>1. PICK a \in made : \E j \in 1..Len(a.frames) : s.frames[i] = a.frames[j]
    BY DEF OfMade, FramesMade
  <2>2. PICK j \in 1..Len(a.frames) : s.frames[i] = a.frames[j] BY <2>1
  <2>3. a.frames[j].id = a.id /\ a.frames[j].seq = j BY <1>2 DEF MadeInv, Sealed
  <2>4. j = i BY <2>2, <2>3
  <2> QED BY <2>2, <2>3, <2>4
<1>4. n \in 1..n BY <1>1
<1>5. PICK a \in made : a.id = s.id /\ n \in 1..Len(a.frames) /\ s.frames[n] = a.frames[n]
  BY <1>3, <1>4
<1>6. a \in Archives /\ a.frames \in Seq(FrameRecords) BY <1>2 DEF MadeInv, Sealed, Archives
<1>7. Len(a.frames) = n
  <2>1. a.frames[n].data.name = "end" BY <1>5
  <2> QED BY <1>2, <1>5, <2>1 DEF MadeInv, Sealed
<1>8. \A i \in 1..n : s.frames[i] = a.frames[i]
  <2> TAKE i \in 1..n
  <2>1. PICK b \in made : b.id = s.id /\ s.frames[i] = b.frames[i] BY <1>3
  <2>2. b = a BY <1>2, <1>5, <2>1 DEF MadeInv
  <2> QED BY <2>1, <2>2
<1>9. s.frames = a.frames BY <1>1, <1>6, <1>7, <1>8, SeqEqual
<1>10. s = [id |-> s.id, frames |-> s.frames] /\ a = [id |-> a.id, frames |-> a.frames]
  BY <1>1, <1>6 DEF Archives
<1> QED BY <1>5, <1>9, <1>10

\* The end of the frames is reached: the file is an archive as it was made.
LEMMA FinishStreamInv ==
    ASSUME ArchiveInv, FinishStream
    PROVE  ArchiveInv'
<1>0. PICK r : r = [reader EXCEPT !.step = "verify"] OBVIOUS
<1>1. /\ reader.step = "finish" /\ HasFrame /\ Opens(Frame) /\ Frame.data.name = "end"
      /\ reader.at = Len(reader.source.frames) /\ Reads(r)
  BY <1>0 DEF FinishStream
<1>2. /\ OfMade(reader.source) /\ output = Nothing /\ reader \in Readers /\ reader.at \in Nat
      /\ \A i \in 1..reader.at : /\ reader.source.frames[i].id = reader.source.id
                                 /\ reader.source.frames[i].seq = i
  BY <1>1, OpenedNext
<1>3. ReadInv BY DEF ArchiveInv
<1>4. reader.at >= 2 /\ reader.list = reader.source.frames[reader.at - 1].data.list
  BY <1>1, <1>3 DEF ReadInv
<1>5. reader.source \in made BY <1>1, <1>2, <1>4, OpenedIsMade DEF Frame
<1>6. /\ r \in Readers /\ r.step = "verify" /\ r.source = reader.source /\ r.list = reader.list
  BY <1>0, <1>2 DEF Readers
<1>7. reader' = r /\ UNCHANGED <<made, stored, output>> BY <1>1 DEF Reads, MakerKeeps
<1>8. OfMade(stored)' /\ OfMade(r.source)' BY <1>2, <1>3, <1>6, <1>7 DEF ReadInv, OfMade, FramesMade
<1>9. ReadInv' BY <1>1, <1>2, <1>3, <1>4, <1>5, <1>6, <1>7, <1>8 DEF ReadInv
<1> QED BY <1>1, <1>2, <1>9, ReadMoves

\* The files are compared with the manifest.
LEMMA VerifyExtractedInv ==
    ASSUME ArchiveInv, VerifyExtracted
    PROVE  ArchiveInv'
<1>0. PICK r : r = [reader EXCEPT !.step = "promote"] OBVIOUS
<1>1. reader.step = "verify" /\ reader.dir = reader.list /\ Reads(r) BY <1>0 DEF VerifyExtracted
<1>2. ReadInv BY DEF ArchiveInv
<1>3. reader \in Readers /\ OfMade(reader.source) /\ output = Nothing BY <1>1, <1>2 DEF ReadInv
<1>4. /\ r \in Readers /\ r.step = "promote" /\ r.source = reader.source /\ r.list = reader.list
      /\ r.dir = reader.dir
  BY <1>0, <1>3 DEF Readers
<1>5. reader' = r /\ UNCHANGED <<made, stored, output>> BY <1>1 DEF Reads, MakerKeeps
<1>6. OfMade(stored)' /\ OfMade(r.source)' BY <1>2, <1>3, <1>4, <1>5 DEF ReadInv, OfMade, FramesMade
<1>7. ReadInv' BY <1>1, <1>2, <1>3, <1>4, <1>5, <1>6 DEF ReadInv
<1> QED BY <1>1, <1>3, <1>7, ReadMoves

\* What is promoted is what the archive held when it was made.
LEMMA PromoteOutputInv ==
    ASSUME ArchiveInv, PromoteOutput
    PROVE  ArchiveInv'
<1>0. PICK s : s = reader.source OBVIOUS
<1>1. /\ reader.step = "promote" /\ output' = reader.dir
      /\ reader' = [Reader("idle") EXCEPT !.source = s]
      /\ UNCHANGED <<live, writes, approved, maker, made, stored>>
  BY <1>0 DEF PromoteOutput, FilesKeep, MakerKeeps
<1>2. ReadInv /\ MadeInv BY DEF ArchiveInv
<1>3. /\ s \in made /\ reader \in Readers
      /\ reader.dir = s.frames[Len(s.frames) - 1].data.list
  BY <1>0, <1>1, <1>2 DEF ReadInv
<1>4. s \in Archives /\ Whole(s.frames[Len(s.frames) - 1].data.list) BY <1>2, <1>3 DEF MadeInv, Sealed
<1>5. reader' \in Readers /\ reader'.step = "idle" /\ reader'.source = s
  BY <1>1, <1>4, ReaderBegins
<1>6. output' \in Contents BY <1>1, <1>3 DEF Readers
<1>7. ReadInv' BY <1>1, <1>2, <1>5, <1>6 DEF ReadInv, OfMade, FramesMade
<1>8. RestoredIsWhole'
  <2>1. output' = [f \in Files |-> s.frames[Len(s.frames) - 1].data.list[f]]
    BY <1>1, <1>3, <1>6 DEF Contents
  <2>2. Whole(output') BY <1>1, <1>3, <1>4
  <2>3. Whole(output)' BY <2>2 DEF Whole, CorePresent, PairPresent, Paired
  <2> QED BY <1>1, <1>3, <1>5, <2>1, <2>3 DEF RestoredIsWhole
<1>9. LiveInv' /\ StageInv' BY <1>1 DEF ArchiveInv, LiveInv, StageInv, Frozen, CurrentFile
<1>10. MadeInv' BY <1>1, <1>2 DEF MadeInv, Sealed
<1> QED BY <1>7, <1>8, <1>9, <1>10 DEF ArchiveInv

\* createArchive fails.
LEMMA MakerFailsInv ==
    ASSUME ArchiveInv, MakerFails
    PROVE  ArchiveInv'
<1>1. maker' = Maker("idle") /\ UNCHANGED made /\ FilesKeep /\ ReaderKeeps BY DEF MakerFails
<1> QED BY <1>1, MakerRests, MakerMoves

\* Nothing is made or read at the start.
LEMMA ArchiveInitially == ArchiveInit => ArchiveInv
<1> SUFFICES ASSUME ArchiveInit PROVE ArchiveInv OBVIOUS
<1>1. /\ writes = 1 /\ live = [f \in Files |-> 1] /\ approved = 1 /\ maker = Maker("idle")
      /\ made = {} /\ stored = NoFile /\ reader = Reader("idle") /\ output = Nothing
  BY DEF ArchiveInit
<1>2. LiveInv BY <1>1, FileNames DEF LiveInv
<1>3. Nothing \in Contents BY DEF Contents, Nothing, Absent
<1>4. NoFile \in Archives /\ NoFile.frames = << >>
  <2>1. << >> \in Seq(FrameRecords) BY EmptySeq
  <2> QED BY <2>1 DEF NoFile, Archives
<1>5. MadeInv BY <1>1, FS_EmptySet DEF MadeInv
<1>6. OfMade(stored)
  <2>1. 1..Len(<< >>) = {} BY EmptySeq
  <2> QED BY <1>1, <1>4, <2>1 DEF OfMade
<1>7. reader \in Readers /\ reader.step = "idle" BY <1>1, <1>4, ReaderBegins
<1>8. ReadInv BY <1>1, <1>3, <1>6, <1>7 DEF ReadInv
<1>9. RestoredIsWhole BY <1>1 DEF RestoredIsWhole
<1>10. StageInv
  <2>1. /\ maker.step = "idle" /\ maker.left = << >> /\ maker.copy = NoCopy
        /\ maker.staged = Nothing /\ maker.policy = 0
    BY <1>1 DEF Maker
  <2>2. maker \in Makers BY <1>1, <1>3 DEF Maker, Makers, NoCopy
  <2>3. \A f \in Files : maker.staged[f][1] = maker.staged[f][2] BY <2>1 DEF Nothing, Absent
  <2> QED BY <2>1, <2>2, <2>3 DEF StageInv, Frozen
<1> QED BY <1>2, <1>5, <1>8, <1>9, <1>10 DEF ArchiveInv

\* Every step keeps the invariant.
LEMMA ArchiveStep == ArchiveInv /\ [ArchiveNext]_archiveVars => ArchiveInv'
<1> SUFFICES ASSUME ArchiveInv, [ArchiveNext]_archiveVars PROVE ArchiveInv' OBVIOUS
<1>1. CASE UNCHANGED archiveVars
  <2>1. UNCHANGED <<live, writes, approved, maker, made, stored, reader, output>>
    BY <1>1 DEF archiveVars
  <2>2. LiveInv' BY <2>1 DEF ArchiveInv, LiveInv
  <2>3. StageInv' BY <2>1 DEF ArchiveInv, StageInv, Frozen, CurrentFile
  <2> QED BY <2>1, <2>2, <2>3, ArchivesStay DEF ArchiveInv
<1>2. CASE ArchiveNext
  BY <1>2, WriteInPlaceInv, ReplaceFileInv, FilesMove, MakerFailsInv, BeginArchiveInv,
     SnapshotDatabaseInv, ListDirectoryInv, OpenFileInv, CopyHalfInv, CopyRestInv,
     EndCollectionInv, CheckStageInv, WriteArchiveInv, FetchArchiveInv, AlterArchiveInv,
     BeginRestoreInv, ExtractFileInv, ReadManifestInv, FinishStreamInv, VerifyExtractedInv,
     PromoteOutputInv, RestoreFailsInv
  DEF ArchiveNext
<1> QED BY <1>1, <1>2

\* What a restore promotes is one archive as it was made, of files that were
\* each of one version, for any files, writes, archives and alterations.
THEOREM RestoresAreWhole == ArchiveSpec => []RestoredIsWhole
<1>1. ArchiveInv => RestoredIsWhole BY DEF ArchiveInv
<1> QED BY <1>1, ArchiveInitially, ArchiveStep, PTL DEF ArchiveSpec

\* The pairs of numbers of writes that have happened.
Pairs == (0..writes) \X (0..writes)

\* What is staged, extracted or sealed is of a write that happened, and there is
\* room for the archive that is being made.
ArchiveBounds ==
    /\ writes <= MaxWrites /\ approved <= writes
    /\ \A f \in Files : maker.staged[f] \in Pairs
    /\ \A f \in Files : reader.dir[f] \in Pairs
    /\ \A frame \in FramesMade : frame.data.at \in Pairs
    /\ Cardinality(made) <= MaxArchives
    /\ maker.step # "idle" => Cardinality(made) < MaxArchives

\* The files change under a maker that goes on, and no restore runs.
LEMMA BoundsOfFiles ==
    ASSUME ArchiveInv, ArchiveBounds, writes' \in Nat, writes <= writes', writes' <= MaxWrites,
           approved' <= writes', UNCHANGED <<made, reader>>,
           maker'.staged = maker.staged, maker'.step = maker.step
    PROVE  ArchiveBounds'
<1>1. writes \in Nat BY MakerTyped
<1>2. Pairs \subseteq Pairs' BY <1>1 DEF Pairs
<1>3. FramesMade' = FramesMade BY DEF FramesMade
<1> QED BY <1>2, <1>3 DEF ArchiveBounds

\* The maker goes on.
LEMMA BoundsOfMaker ==
    ASSUME ArchiveInv, ArchiveBounds, FilesKeep, ReaderKeeps, UNCHANGED made,
           \A f \in Files : maker'.staged[f] \in Pairs,
           maker'.step # "idle" => Cardinality(made) < MaxArchives
    PROVE  ArchiveBounds'
<1>1. UNCHANGED <<writes, approved, reader>> BY DEF FilesKeep, ReaderKeeps
<1>2. Pairs' = Pairs BY <1>1 DEF Pairs
<1>3. FramesMade' = FramesMade BY DEF FramesMade
<1> QED BY <1>1, <1>2, <1>3 DEF ArchiveBounds

\* The restore goes on, or an archive is fetched or altered.
LEMMA BoundsOfReader ==
    ASSUME ArchiveInv, ArchiveBounds, FilesKeep, MakerKeeps,
           \A f \in Files : reader'.dir[f] \in Pairs
    PROVE  ArchiveBounds'
<1>1. UNCHANGED <<writes, approved, maker, made>> BY DEF FilesKeep, MakerKeeps
<1>2. Pairs' = Pairs BY <1>1 DEF Pairs
<1>3. FramesMade' = FramesMade BY <1>1 DEF FramesMade
<1> QED BY <1>1, <1>2, <1>3 DEF ArchiveBounds

\* The files of the portal and of CPAMP are written, removed or approved.
LEMMA FilesWithinBounds ==
    ASSUME ArchiveInv, ArchiveBounds,
           \/ \E f \in ConfigFiles : WriteInPlace(f) \/ ReplaceFile(f)
           \/ RemoveFile \/ ManagerWrites \/ ApproveTemplate
    PROVE  ArchiveBounds'
<1>1. maker \in Makers /\ writes \in Nat /\ approved \in Nat /\ live \in [Files -> 0..writes]
  BY MakerTyped
<1>2. /\ writes' = writes \/ (writes < MaxWrites /\ writes' = writes + 1)
      /\ approved' = approved \/ (approved' = live[TemplateFile] /\ writes' = writes)
  BY DEF WriteInPlace, ReplaceFile, RemoveFile, ManagerWrites, ApproveTemplate, Written
<1>3. live[TemplateFile] \in 0..writes BY <1>1, FileNames
<1>4. writes' \in Nat /\ writes <= writes' /\ writes' <= MaxWrites /\ approved' <= writes'
  BY <1>1, <1>2, <1>3, ArchiveAssumption DEF ArchiveBounds
<1>5. UNCHANGED <<made, reader>>
  BY DEF WriteInPlace, ReplaceFile, RemoveFile, ManagerWrites, ApproveTemplate, MakerKeeps, ReaderKeeps
<1>6. maker'.staged = maker.staged /\ maker'.step = maker.step
  <2>1. \/ maker' = maker \/ maker' = [maker EXCEPT !.copy.now = writes + 1]
        \/ maker' = [maker EXCEPT !.copy.attached = FALSE]
    BY DEF WriteInPlace, ReplaceFile, RemoveFile, ManagerWrites, ApproveTemplate, MakerKeeps
  <2> QED BY <1>1, <2>1 DEF Makers
<1> QED BY <1>4, <1>5, <1>6, BoundsOfFiles

\* What is read of a file is a version of it that was written.
LEMMA StagedWithinBounds ==
    ASSUME ArchiveInv, ArchiveBounds, maker.step # "idle", FilesKeep, ReaderKeeps, UNCHANGED made,
           NEW halves \in Pairs, maker' = Stage(halves)
    PROVE  ArchiveBounds'
<1>1. maker \in Makers /\ maker.staged \in Contents BY MakerTyped
<1> DEFINE c == CurrentFile
           dir == [maker.staged EXCEPT ![c] = halves]
<1>2. maker' = [maker EXCEPT !.step = "collect", !.left = Tail(@), !.copy = NoCopy, !.staged = dir]
  BY DEF Stage
<1>3. maker'.staged = dir /\ maker'.step = "collect"
  <2> HIDE DEF dir
  <2> QED BY <1>1, <1>2 DEF Makers
<1>4. \A f \in Files : dir[f] \in Pairs BY <1>1 DEF ArchiveBounds, Contents
<1> HIDE DEF dir
<1>5. \A f \in Files : maker'.staged[f] \in Pairs BY <1>3, <1>4
<1> QED BY <1>5, BoundsOfMaker DEF ArchiveBounds

\* createArchive, until it writes.
LEMMA MakerWithinBounds ==
    ASSUME ArchiveInv, ArchiveBounds,
           \/ MakerFails \/ BeginArchive \/ SnapshotDatabase \/ ListDirectory \/ OpenFile
           \/ CopyHalf \/ CopyRest \/ EndCollection \/ CheckStage
    PROVE  ArchiveBounds'
<1>0. /\ maker \in Makers /\ writes \in Nat /\ live \in [Files -> 0..writes]
      /\ maker.copy.now \in Nat /\ maker.copy.half \in Nat /\ maker.copy.before \in Nat
      /\ maker.left \in Seq(Files)
  BY MakerTyped
<1>1. FilesKeep /\ ReaderKeeps /\ UNCHANGED made
  BY DEF MakerFails, BeginArchive, SnapshotDatabase, ListDirectory, OpenFile, CopyHalf, CopyRest,
         EndCollection, CheckStage
<1>2. \A f \in Files : Nothing[f] \in Pairs BY <1>0 DEF Nothing, Absent, Pairs
<1>3. CASE MakerFails
  <2>1. maker'.staged = Nothing /\ maker'.step = "idle" BY <1>3 DEF MakerFails, Maker
  <2> QED BY <1>1, <1>2, <2>1, BoundsOfMaker
<1>4. CASE BeginArchive
  <2>1. maker'.staged = Nothing /\ Cardinality(made) < MaxArchives BY <1>4 DEF BeginArchive, Maker
  <2> QED BY <1>1, <1>2, <2>1, BoundsOfMaker
<1>5. CASE SnapshotDatabase
  <2>1. /\ CurrentFile \in Files /\ maker.step # "idle"
        /\ maker' = Stage(<<live[CurrentFile], live[CurrentFile]>>)
    BY <1>5, FileNames DEF SnapshotDatabase, MakerAt
  <2>2. <<live[CurrentFile], live[CurrentFile]>> \in Pairs BY <1>0, <2>1 DEF Pairs
  <2> QED BY <1>1, <2>1, <2>2, StagedWithinBounds
<1>6. CASE ListDirectory
  <2>1. maker.step # "idle" BY <1>6 DEF ListDirectory, MakerAt
  <2>2. CASE live[AuthFile] = 0
    <3>1. maker' = Stage(Absent) BY <1>6, <2>2 DEF ListDirectory
    <3>2. Absent \in Pairs BY <1>0 DEF Pairs, Absent
    <3> QED BY <1>1, <2>1, <3>1, <3>2, StagedWithinBounds
  <2>3. CASE live[AuthFile] # 0
    <3>1. maker' = [maker EXCEPT !.step = "listed"] BY <1>6, <2>3 DEF ListDirectory
    <3>2. maker'.staged = maker.staged BY <1>0, <3>1 DEF Makers
    <3> QED BY <1>1, <2>1, <3>2, BoundsOfMaker DEF ArchiveBounds
  <2> QED BY <2>2, <2>3
<1>7. CASE OpenFile \/ CopyHalf \/ EndCollection \/ CheckStage
  <2>1. maker.step # "idle" BY <1>7 DEF OpenFile, CopyHalf, EndCollection, CheckStage, MakerAt
  <2>2. maker'.staged = maker.staged
    <3>1. CASE OpenFile BY <1>0, <3>1 DEF OpenFile, Makers
    <3>2. CASE CopyHalf BY <1>0, <3>2 DEF CopyHalf, Makers
    <3>3. CASE EndCollection \/ CheckStage BY <1>0, <3>3 DEF EndCollection, CheckStage, Makers
    <3> QED BY <1>7, <3>1, <3>2, <3>3
  <2> QED BY <1>1, <2>1, <2>2, BoundsOfMaker DEF ArchiveBounds
<1>8. CASE CopyRest
  <2>1. maker.step = "half" /\ maker' = Stage(<<maker.copy.half, maker.copy.now>>)
    BY <1>8 DEF CopyRest, MakerAt
  <2>2. maker.copy.half <= maker.copy.now /\ maker.copy.now <= writes
    BY <2>1 DEF ArchiveInv, StageInv
  <2>3. <<maker.copy.half, maker.copy.now>> \in Pairs BY <1>0, <2>2 DEF Pairs
  <2> QED BY <1>1, <2>1, <2>3, StagedWithinBounds
<1> QED BY <1>3, <1>4, <1>5, <1>6, <1>7, <1>8

\* The archive that is written holds what was staged.
LEMMA WriteWithinBounds ==
    ASSUME ArchiveInv, ArchiveBounds, WriteArchive
    PROVE  ArchiveBounds'
<1>0. PICK id, a : id = Cardinality(made) + 1 /\ a = Encrypt(id, maker.staged, maker.policy)
  OBVIOUS
<1>1. /\ maker.step # "idle" /\ made' = made \cup {a} /\ maker' = Maker("idle")
      /\ UNCHANGED <<writes, approved, reader>>
  BY <1>0 DEF WriteArchive, MakerAt, FilesKeep, ReaderKeeps
<1>2. IsFiniteSet(made) /\ Cardinality(made) \in Nat
  BY FS_CardinalityType DEF ArchiveInv, MadeInv
<1>3. maker.staged \in Contents /\ maker.policy \in Nat /\ writes \in Nat BY MakerTyped
<1>4. /\ Len(a.frames) \in Nat
      /\ \A i \in 1..Len(a.frames) :
              a.frames[i].data.at = Absent \/ \E f \in Files : a.frames[i].data.at = maker.staged[f]
  <2>1. id \in Nat BY <1>0, <1>2
  <2>2. SealsUp(a, id, maker.staged) BY ZenonT(60), <1>0, <1>3, <2>1, EncryptSeals
  <2> QED BY ZenonT(60), <2>2 DEF SealsUp
<1>5. Absent \in Pairs BY <1>3 DEF Absent, Pairs
<1>6. \A i \in 1..Len(a.frames) : a.frames[i].data.at \in Pairs BY <1>4, <1>5 DEF ArchiveBounds
<1>7. FramesMade' = FramesMade \cup {a.frames[i] : i \in 1..Len(a.frames)} BY <1>1 DEF FramesMade
<1>8. Pairs' = Pairs BY <1>1 DEF Pairs
<1>9. Cardinality(made') <= MaxArchives
  <2>1. Cardinality(made) + 1 <= MaxArchives BY <1>1, <1>2, ArchiveAssumption DEF ArchiveBounds
  <2>2. Cardinality(made \cup {a}) \in {Cardinality(made), Cardinality(made) + 1}
    BY <1>2, FS_AddElement
  <2> QED BY <1>1, <1>2, <2>1, <2>2, ArchiveAssumption
<1>10. maker'.step = "idle" /\ \A f \in Files : maker'.staged[f] \in Pairs
  BY <1>1, <1>5 DEF Maker, Nothing
<1> QED BY <1>1, <1>6, <1>7, <1>8, <1>9, <1>10 DEF ArchiveBounds

\* What is extracted was sealed.
LEMMA ReaderWithinBounds ==
    ASSUME ArchiveInv, ArchiveBounds,
           \/ \E a \in made : FetchArchive(a)
           \/ AlterArchive \/ BeginRestore \/ ExtractFile \/ ReadManifest \/ FinishStream
           \/ VerifyExtracted \/ PromoteOutput \/ RestoreFails
    PROVE  ArchiveBounds'
<1>0. writes \in Nat /\ reader \in Readers BY MakerTyped DEF ArchiveInv, ReadInv
<1>1. FilesKeep /\ MakerKeeps
  BY DEF FetchArchive, AlterArchive, BeginRestore, ExtractFile, ReadManifest, FinishStream,
         VerifyExtracted, PromoteOutput, RestoreFails, Reads
<1>2. \A f \in Files : Nothing[f] \in Pairs BY <1>0 DEF Nothing, Absent, Pairs
<1>3. CASE (\E a \in made : FetchArchive(a)) \/ AlterArchive
  <2>1. UNCHANGED reader BY <1>3 DEF FetchArchive, AlterArchive
  <2> QED BY <1>1, <2>1, BoundsOfReader DEF ArchiveBounds
<1>4. CASE BeginRestore \/ PromoteOutput \/ RestoreFails
  <2>1. reader'.dir = Nothing BY <1>4 DEF BeginRestore, PromoteOutput, RestoreFails, Reads, Reader
  <2> QED BY <1>1, <1>2, <2>1, BoundsOfReader
<1>5. CASE ReadManifest \/ FinishStream \/ VerifyExtracted
  <2>1. reader'.dir = reader.dir
    <3>1. CASE ReadManifest
      <4>1. reader' = [reader EXCEPT !.at = @ + 1, !.list = Frame.data.list, !.step = "finish"]
        BY <3>1 DEF ReadManifest, Reads
      <4> QED BY <1>0, <4>1 DEF Readers
    <3>2. CASE FinishStream \/ VerifyExtracted
      <4>1. \/ reader' = [reader EXCEPT !.step = "verify"] \/ reader' = [reader EXCEPT !.step = "promote"]
        BY <3>2 DEF FinishStream, VerifyExtracted, Reads
      <4> QED BY <1>0, <4>1 DEF Readers
    <3> QED BY <1>5, <3>1, <3>2
  <2> QED BY <1>1, <2>1, BoundsOfReader DEF ArchiveBounds
<1>6. CASE ExtractFile
  <2> DEFINE name == Frame.data.name
             dir == [reader.dir EXCEPT ![name] = Frame.data.at]
  <2>1. reader.step = "read" /\ HasFrame /\ Opens(Frame)
        /\ reader' = [reader EXCEPT !.at = @ + 1, !.dir = dir]
    BY <1>6 DEF ExtractFile, Reads
  <2>2. /\ OfMade(reader.source) /\ reader.at \in Nat /\ Len(reader.source.frames) \in Nat
        /\ reader.at + 1 \in 1..(Len(reader.source.frames) + 1)
    BY <2>1, OpenedNext
  <2>3. reader.at \in 1..Len(reader.source.frames)
    <3>1. reader.at >= 1 BY <2>1, <2>2 DEF ArchiveInv, ReadInv
    <3> QED BY <2>2, <3>1
  <2>4. Frame \in FramesMade BY <2>2, <2>3 DEF OfMade, Frame
  <2>5. reader.dir \in Contents /\ Frame.data.at \in Pairs BY <1>0, <2>4 DEF Readers, ArchiveBounds
  <2>6. \A f \in Files : dir[f] \in Pairs BY <2>5 DEF Contents, ArchiveBounds
  <2>7. reader'.dir = dir
    <3> HIDE DEF dir
    <3> QED BY <1>0, <2>1 DEF Readers
  <2> HIDE DEF dir
  <2> QED BY <1>1, <2>6, <2>7, BoundsOfReader
<1> QED BY <1>3, <1>4, <1>5, <1>6

\* Every variable keeps its type: no file, copy or sealed frame is of a write that
\* never happened, and no archive is made beyond the bound.
THEOREM ArchiveTypes == ArchiveSpec => []ArchiveTypeOK
<1>1. ArchiveInit => ArchiveBounds
  <2> SUFFICES ASSUME ArchiveInit PROVE ArchiveBounds OBVIOUS
  <2>1. writes = 1 /\ approved = 1 /\ made = {} /\ maker = Maker("idle") /\ reader = Reader("idle")
    BY DEF ArchiveInit
  <2>2. FramesMade = {} BY <2>1 DEF FramesMade
  <2>3. maker.staged = Nothing /\ reader.dir = Nothing /\ maker.step = "idle" BY <2>1 DEF Maker, Reader
  <2>4. \A f \in Files : Nothing[f] \in Pairs BY <2>1 DEF Nothing, Absent, Pairs
  <2>5. MaxWrites >= 1 BY ArchiveAssumption
  <2> QED BY <2>1, <2>2, <2>3, <2>4, <2>5, FS_EmptySet, ArchiveAssumption DEF ArchiveBounds
<1>2. ArchiveInv /\ ArchiveBounds /\ [ArchiveNext]_archiveVars => ArchiveBounds'
  <2> SUFFICES ASSUME ArchiveInv, ArchiveBounds, [ArchiveNext]_archiveVars PROVE ArchiveBounds'
    OBVIOUS
  <2>1. CASE UNCHANGED archiveVars BY <2>1 DEF archiveVars, ArchiveBounds, Pairs, FramesMade
  <2>2. CASE ArchiveNext
    BY <2>2, FilesWithinBounds, MakerWithinBounds, WriteWithinBounds, ReaderWithinBounds DEF ArchiveNext
  <2> QED BY <2>1, <2>2
<1>3. ArchiveInv /\ ArchiveBounds => ArchiveTypeOK
  <2> SUFFICES ASSUME ArchiveInv, ArchiveBounds PROVE ArchiveTypeOK OBVIOUS
  <2>1. /\ maker \in Makers /\ maker.staged \in Contents /\ maker.left \in Seq(Files)
        /\ writes \in Nat /\ approved \in Nat /\ live \in [Files -> 0..writes]
    BY MakerTyped
  <2>2. reader \in Readers BY DEF ArchiveInv, ReadInv
  <2>3. maker.staged \in [Files -> Pairs] BY <2>1 DEF Contents, ArchiveBounds
  <2>4. reader.dir \in [Files -> Pairs] BY <2>2 DEF Contents, ArchiveBounds, Readers
  <2>5. \A a \in made : a.id \in 1..MaxArchives
    <3>1. Cardinality(made) \in Nat BY FS_CardinalityType DEF ArchiveInv, MadeInv
    <3>2. \A a \in made : a.id \in 1..Cardinality(made) BY DEF ArchiveInv, MadeInv, Sealed
    <3> QED BY <3>1, <3>2, ArchiveAssumption DEF ArchiveBounds
  <2>6. maker.step \in {"idle", "collect", "listed", "copy", "half", "check", "write"}
        /\ reader.step \in {"idle", "read", "finish", "verify", "promote"}
    BY <2>1, <2>2 DEF Makers, Readers
  <2>7. writes \in 0..MaxWrites /\ approved \in 0..writes
    BY <2>1, ArchiveAssumption DEF ArchiveBounds
  <2> QED BY <2>1, <2>3, <2>4, <2>5, <2>6, <2>7 DEF ArchiveTypeOK, Pairs
<1> QED BY <1>1, <1>2, <1>3, ArchiveInitially, ArchiveStep, PTL DEF ArchiveSpec
=============================================================================
