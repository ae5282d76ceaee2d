----------------------------- MODULE ServicesProofs -----------------------------
(***************************************************************************)
(* Theorems about components that share no state with the others: the      *)
(* forms of the policy, the capture vault, the quotas of the upstream      *)
(* accounts, the routing of the OAuth channels, the pause of the           *)
(* admission, the messages of a websocket and the accounts, for any number *)
(* of administrators, requests, accounts, channels, failures, samples,     *)
(* frames, sessions and codes.                                             *)
(***************************************************************************)
EXTENDS Accounts, PolicyForms, CaptureVault, QuotaRefresh, OAuthRouting, ResourcePause,
        ResourceWebsocket, FiniteSetTheorems, NaturalsInduction, WellFoundedInduction, TLAPS

-----------------------------------------------------------------------------
(* The forms of the policy.                                                *)

Saving(a) == form[a].step \in {"saved", "read"}

\* PolicyFollowsRow is not inductive: that no second save begins rests on what
\* open forms know.  They carry the revision of the copy, which is behind the
\* row while a save is under way and after one that was not read back.
PolicyInv ==
    /\ PolicyTypeOK
    /\ \A a \in FormAdmins : FormAt(a, "open") => form[a].revision <= inForce
    /\ \A a \in FormAdmins : FormAt(a, "read") => form[a].revision = row
    /\ \A a \in FormAdmins : Saving(a) => inForce < row
    /\ \A a, b \in FormAdmins : Saving(a) /\ Saving(b) => a = b
    /\ inForce <= row
    /\ inForce # row => unread \/ \E a \in FormAdmins : Saving(a)
    /\ unread => inForce < row /\ \A a \in FormAdmins : ~Saving(a)

\* No form is open at the start.
LEMMA PolicyInitially == PolicyInit => PolicyInv
<1> SUFFICES ASSUME PolicyInit PROVE PolicyInv
  OBVIOUS
<1>1. 1 \in 1..MaxRevision /\ 0 \in 0..MaxPolicyFaults
  BY PolicyAssumption
<1>2. PolicyTypeOK
  BY <1>1 DEF PolicyInit, PolicyTypeOK, NoForm
<1>3. \A a \in FormAdmins : form[a].step = "none"
  BY DEF PolicyInit, NoForm
<1> QED BY <1>2, <1>3 DEF PolicyInit, PolicyInv, FormAt, Saving

\* What a step does to the forms: one of them changes.
LEMMA OneForm ==
    ASSUME PolicyTypeOK, NEW a \in FormAdmins, NEW step \in {"none", "open", "saved", "read"},
           NEW revision \in 1..MaxRevision, FillIn(a, step, revision)
    PROVE  /\ form' \in [FormAdmins -> [step : {"none", "open", "saved", "read"},
                                        revision : 1..MaxRevision]]
           /\ form'[a].step = step /\ form'[a].revision = revision
           /\ \A b \in FormAdmins : b # a => form'[b] = form[b]
BY DEF PolicyTypeOK, FillIn

\* Each step of a form, and the restart, keeps the invariant.
LEMMA PolicyStep == PolicyInv /\ [PolicyNext]_policyVars => PolicyInv'
<1> SUFFICES ASSUME PolicyInv, [PolicyNext]_policyVars PROVE PolicyInv'
  OBVIOUS
<1>0. /\ PolicyTypeOK
      /\ row \in Nat /\ inForce \in Nat
      /\ \A a \in FormAdmins : form[a].revision \in 1..MaxRevision
      /\ 1 \in 1..MaxRevision
  BY PolicyAssumption DEF PolicyInv, PolicyTypeOK
<1>1. ASSUME NEW a \in FormAdmins, OpenForm(a) PROVE PolicyInv'
  <2>1. FillIn(a, "open", inForce) /\ UNCHANGED <<row, inForce, unread, faults>> /\ form[a].step = "none"
    BY <1>1 DEF OpenForm, CallWorks, FormAt
  <2>2. inForce \in 1..MaxRevision
    BY <1>0 DEF PolicyTypeOK
  <2> HIDE <1>1
  <2> QED BY <1>0, <2>1, <2>2, OneForm DEF PolicyInv, PolicyTypeOK, FormAt, Saving
<1>2. ASSUME NEW a \in FormAdmins, SavePolicy(a) PROVE PolicyInv'
  <2>0. form[a].step = "open" /\ row < MaxRevision /\ UNCHANGED <<inForce, unread>>
    BY <1>2 DEF SavePolicy, FormAt
  <2>1. CASE form[a].revision = row /\ row' = row + 1 /\ FillIn(a, "saved", row) /\ CallWorks
    <3>1. row = inForce /\ \A b \in FormAdmins : ~Saving(b)
      BY <1>0, <2>0, <2>1 DEF PolicyInv, FormAt, Saving
    <3>2. row \in 1..MaxRevision /\ row + 1 \in 1..MaxRevision
      BY <1>0, <2>0, PolicyAssumption DEF PolicyTypeOK
    <3>3. /\ form' \in [FormAdmins -> [step : {"none", "open", "saved", "read"},
                                       revision : 1..MaxRevision]]
          /\ form'[a].step = "saved" /\ form'[a].revision = row
          /\ \A b \in FormAdmins : b # a => form'[b] = form[b]
      BY <1>0, <2>1, <3>2, OneForm
    <3> QED BY <1>0, <2>0, <2>1, <3>1, <3>2, <3>3 DEF PolicyInv, PolicyTypeOK, FormAt, Saving, CallWorks
  <2>2. CASE FillIn(a, "none", 1) /\ UNCHANGED row /\ (CallWorks \/ CallFails)
    <3>1. /\ form' \in [FormAdmins -> [step : {"none", "open", "saved", "read"},
                                       revision : 1..MaxRevision]]
          /\ form'[a].step = "none" /\ form'[a].revision = 1
          /\ \A b \in FormAdmins : b # a => form'[b] = form[b]
      BY <1>0, <2>2, OneForm
    <3>2. faults' \in 0..MaxPolicyFaults
      BY <1>0, <2>2, PolicyAssumption DEF PolicyTypeOK, CallWorks, CallFails
    <3> QED BY <1>0, <2>0, <2>2, <3>1, <3>2 DEF PolicyInv, PolicyTypeOK, FormAt, Saving
  <2> QED BY <1>2, <2>1, <2>2 DEF SavePolicy
<1>3. ASSUME NEW a \in FormAdmins, ReadBack(a) PROVE PolicyInv'
  <2>0. form[a].step = "saved" /\ UNCHANGED <<row, inForce>> /\ Saving(a) /\ inForce < row
    BY <1>3, <1>0 DEF ReadBack, FormAt, PolicyInv, Saving
  <2>1. CASE FillIn(a, "read", row) /\ UNCHANGED unread /\ CallWorks
    <3>1. /\ form' \in [FormAdmins -> [step : {"none", "open", "saved", "read"},
                                       revision : 1..MaxRevision]]
          /\ form'[a].step = "read" /\ form'[a].revision = row
          /\ \A b \in FormAdmins : b # a => form'[b] = form[b]
      <4>1. row \in 1..MaxRevision
        BY <1>0 DEF PolicyTypeOK
      <4> QED BY <1>0, <2>1, <4>1, OneForm
    <3> QED BY <1>0, <2>0, <2>1, <3>1 DEF PolicyInv, PolicyTypeOK, FormAt, Saving, CallWorks
  <2>2. CASE FillIn(a, "none", 1) /\ unread' = TRUE /\ CallFails
    <3>1. /\ form' \in [FormAdmins -> [step : {"none", "open", "saved", "read"},
                                       revision : 1..MaxRevision]]
          /\ form'[a].step = "none" /\ form'[a].revision = 1
          /\ \A b \in FormAdmins : b # a => form'[b] = form[b]
      BY <1>0, <2>2, OneForm
    <3>2. faults' \in 0..MaxPolicyFaults
      BY <1>0, <2>2, PolicyAssumption DEF PolicyTypeOK, CallFails
    <3> QED BY <1>0, <2>0, <2>2, <3>1, <3>2 DEF PolicyInv, PolicyTypeOK, FormAt, Saving
  <2> QED BY <1>3, <2>1, <2>2 DEF ReadBack
<1>4. ASSUME NEW a \in FormAdmins, Install(a) PROVE PolicyInv'
  <2>1. /\ form[a].step = "read" /\ form[a].revision = row /\ inForce' = row /\ inForce < row
        /\ FillIn(a, "none", 1) /\ UNCHANGED <<row, unread, faults>>
    BY <1>4, <1>0 DEF Install, CallWorks, FormAt, PolicyInv, Saving
  <2>2. /\ form' \in [FormAdmins -> [step : {"none", "open", "saved", "read"},
                                     revision : 1..MaxRevision]]
        /\ form'[a].step = "none" /\ form'[a].revision = 1
        /\ \A b \in FormAdmins : b # a => form'[b] = form[b]
    BY <1>0, <2>1, OneForm
  <2>3. ~unread
    BY <2>1 DEF PolicyInv, Saving
  <2> QED BY <1>0, <2>1, <2>2, <2>3 DEF PolicyInv, PolicyTypeOK, FormAt, Saving
<1>5. CASE RestartPortal
  <2>1. inForce' = row /\ row' = row /\ unread' = FALSE
    BY <1>5 DEF RestartPortal
  <2>2. form' \in [FormAdmins -> [step : {"none", "open", "saved", "read"},
                                  revision : 1..MaxRevision]]
    BY <1>5, <1>0 DEF RestartPortal, PolicyTypeOK, NoForm
  <2>3. \A a \in FormAdmins : /\ form'[a].step \in {"none", "open"}
                              /\ form'[a].step = "open" => form[a].step = "open" /\ form'[a] = form[a]
    BY <1>5 DEF RestartPortal, FormAt, NoForm
  <2>4. faults' \in 0..MaxPolicyFaults
    BY <1>5, <1>0, PolicyAssumption DEF RestartPortal, PolicyTypeOK, CallFails
  <2>5. PolicyTypeOK'
    BY <1>0, <2>1, <2>2, <2>4 DEF PolicyTypeOK
  <2>6. \A a \in FormAdmins : form'[a].step = "open" => form'[a].revision <= row
    <3> TAKE a \in FormAdmins
    <3> HAVE form'[a].step = "open"
    <3>1. form'[a].revision = form[a].revision /\ form[a].revision <= inForce /\ inForce <= row
      BY <2>3 DEF PolicyInv, FormAt
    <3> QED BY <1>0, <3>1
  <2>7. \A a \in FormAdmins : form'[a].step # "saved" /\ form'[a].step # "read"
    BY <2>3
  <2> QED BY <1>0, <2>1, <2>5, <2>6, <2>7 DEF PolicyInv, FormAt, Saving
<1>6. CASE UNCHANGED policyVars
  BY <1>6 DEF policyVars, PolicyInv, PolicyTypeOK, FormAt, Saving
<1> QED BY <1>1, <1>2, <1>3, <1>4, <1>5, <1>6 DEF PolicyNext

\* A set whose members are all equal has one at most.
LEMMA AtMostOne ==
    ASSUME NEW S, \A a, b \in S : a = b
    PROVE  Cardinality(S) <= 1
<1>1. CASE S = {}
  BY <1>1, FS_EmptySet
<1>2. ASSUME NEW a \in S PROVE Cardinality(S) <= 1
  <2>1. S = {a}
    BY <1>2, \A x, y \in S : x = y
  <2>2. Cardinality({a}) = 1
    BY FS_Singleton
  <2> QED BY <2>1, <2>2
<1> QED BY <1>1, <1>2

\* The invariant says what the property does.
LEMMA PolicyInvSuffices == PolicyInv => PolicyFollowsRow
<1> SUFFICES ASSUME PolicyInv PROVE PolicyFollowsRow
  OBVIOUS
<1>1. Cardinality({a \in FormAdmins : form[a].step \in {"saved", "read"}}) <= 1
  <2> DEFINE S == {a \in FormAdmins : form[a].step \in {"saved", "read"}}
  <2>1. \A a, b \in S : a = b
    BY DEF PolicyInv, Saving
  <2> HIDE DEF S
  <2>2. Cardinality(S) <= 1
    BY <2>1, AtMostOne
  <2> QED BY <2>2 DEF S
<1> QED BY <1>1 DEF PolicyInv, PolicyFollowsRow, Saving

\* The policy in force is the stored one unless its save is under way or was
\* never read back, and no save is overtaken by another (adminResourcePolicy,
\* Store.SaveResourcePolicy).
THEOREM PolicyFollows == PolicySpec => []PolicyFollowsRow
<1> QED BY PolicyInitially, PolicyStep, PolicyInvSuffices, PTL DEF PolicySpec

\* Every form keeps its type, and no revision passes the bound.
THEOREM PolicyTypes == PolicySpec => []PolicyTypeOK
<1>1. PolicyInv => PolicyTypeOK BY DEF PolicyInv
<1> QED BY <1>1, PolicyInitially, PolicyStep, PTL DEF PolicySpec

-----------------------------------------------------------------------------
(* The capture vault.                                                      *)

\* The steps of a save that do not hold sharedMu.
Free == {"none", "running", "closed", "ended"}

\* sharedMu is free, taken, kept or released by the save of c that moves to a step.
LockMoves(c, step) ==
    \/ Locked(c) /\ step \in Free /\ holder' = "nobody"
    \/ Locked(c) /\ step \notin Free /\ UNCHANGED holder
    \/ ~Locked(c) /\ step \in Free /\ UNCHANGED holder
    \/ ~Locked(c) /\ step \notin Free /\ holder = "nobody" /\ holder' = "save"

\* A save that moves keeps sharedMu with one holder.
LEMMA SaveTypes ==
    ASSUME VaultInv, NEW c \in Captures, NEW n \in Saves, save' = [save EXCEPT ![c] = n],
           UNCHANGED cleanup, LockMoves(c, n.step),
           raw' \subseteq Captures, markers' \subseteq Captures, indexed' \subseteq Captures,
           shared' \in [Messages -> {"none", "new", "old"}],
           index' \in [Captures -> SUBSET Messages], mishaps' \in 0..MaxMishaps
    PROVE  VaultTypeOK' /\ OneHolder'
<1>1. /\ save \in [Captures -> Saves] /\ cleanup \in Cleanups
      /\ \A d \in Captures : Locked(d) => holder = "save"
      /\ \A d, e \in Captures : Locked(d) /\ Locked(e) => d = e
      /\ holder = "save" => \E d \in Captures : Locked(d)
      /\ holder = "cleanup" <=> cleanup.step # "idle"
      /\ holder \in {"nobody", "cleanup", "save"}
  BY DEF VaultInv, OneHolder, VaultTypeOK
<1>2. save' \in [Captures -> Saves] /\ save'[c] = n BY <1>1
<1>3. \A d \in Captures : d # c => save'[d] = save[d] BY <1>1
<1>4. /\ \A d \in Captures : d # c => (Locked(d)' <=> Locked(d))
      /\ Locked(c)' <=> n.step \notin Free
  BY <1>2, <1>3 DEF Locked, Free
<1>5. holder' \in {"nobody", "cleanup", "save"} BY <1>1 DEF LockMoves
<1>6. \A d \in Captures : Locked(d)' => holder' = "save"
  BY <1>1, <1>4 DEF LockMoves
<1>7. \A d, e \in Captures : Locked(d)' /\ Locked(e)' => d = e
  BY <1>1, <1>4 DEF LockMoves
<1>8. holder' = "save" => \E d \in Captures : Locked(d)'
  BY <1>1, <1>4 DEF LockMoves
<1>9. holder' = "cleanup" <=> cleanup'.step # "idle"
  BY <1>1 DEF LockMoves
<1>10. OneHolder' BY <1>1, <1>2, <1>6, <1>7, <1>8, <1>9 DEF OneHolder
<1>11. \A d \in Captures : save'[d].step \in SaveSteps BY <1>2 DEF Saves
<1>12. holder' = "save" <=>
           \E d \in Captures : save'[d].step \in SaveSteps \ {"none", "running", "closed", "ended"}
  BY <1>6, <1>8, <1>11 DEF Locked
<1> QED BY <1>5, <1>10, <1>11, <1>12 DEF VaultTypeOK

\* What is true of every save but the one that moves.
LEMMA OthersSafe ==
    ASSUME VaultInv, OneHolder', NEW c \in Captures, NEW n \in Saves,
           save' = [save EXCEPT ![c] = n],
           raw' \subseteq raw \cup {c}, indexed' \subseteq indexed \cup {c},
           saved' \subseteq saved \cup {c},
           Locked(c) \/ UNCHANGED <<markers, shared, index, indexed, saved>>
    PROVE  \A d \in Captures \ {c} : SaveIsSafe(d)'
<1> SUFFICES ASSUME NEW d \in Captures \ {c} PROVE SaveIsSafe(d)'
  OBVIOUS
<1>1. save'[d] = save[d] BY DEF VaultInv, OneHolder
<1>2. SaveIsSafe(d) BY DEF VaultInv
<1>3. d \in raw' => d \in raw OBVIOUS
<1>4. d \in indexed' => d \in indexed OBVIOUS
<1>5. d \in saved' => d \in saved OBVIOUS
<1>6. CASE Locked(c)
  <2>1. ~Locked(d) BY <1>6 DEF VaultInv, OneHolder
  <2> QED BY <1>1, <1>2, <1>3, <1>4, <1>5, <2>1 DEF SaveIsSafe, Locked
<1>7. CASE UNCHANGED <<markers, shared, index, indexed, saved>>
  BY <1>1, <1>2, <1>3, <1>7 DEF SaveIsSafe, Unreferenced
<1> QED BY <1>6, <1>7

\* One step of one save.
LEMMA SaveMoves ==
    ASSUME VaultInv, NEW c \in Captures, NEW n \in Saves, save' = [save EXCEPT ![c] = n],
           UNCHANGED cleanup, LockMoves(c, n.step),
           raw' \subseteq raw \cup {c}, markers' \subseteq Captures,
           indexed' \subseteq indexed \cup {c}, saved' \subseteq saved \cup {c},
           shared' \in [Messages -> {"none", "new", "old"}],
           index' \in [Captures -> SUBSET Messages], mishaps' \in 0..MaxMishaps,
           Locked(c) \/ UNCHANGED <<markers, shared, index, indexed, saved>>,
           RowsAreReadable', SaveIsSafe(c)', History'
    PROVE  VaultInv'
<1>1. raw' \subseteq Captures /\ indexed' \subseteq Captures BY DEF VaultInv, VaultTypeOK
<1>2. VaultTypeOK' /\ OneHolder' BY <1>1, SaveTypes
<1>3. \A d \in Captures : SaveIsSafe(d)' BY <1>2, OthersSafe
<1>4. CleanupIsSafe'
  <2>1. CASE Locked(c)
    <3>1. cleanup.step = "idle" BY <2>1 DEF VaultInv, OneHolder
    <3> QED BY <3>1 DEF CleanupIsSafe
  <2>2. CASE UNCHANGED <<index, indexed>>
    BY <2>2 DEF VaultInv, CleanupIsSafe, Unreferenced
  <2> QED BY <2>1, <2>2
<1> QED BY <1>2, <1>3, <1>4 DEF VaultInv

\* The rows that are there stay, and so does what is remembered of them.
LEMMA HistoryStays ==
    ASSUME VaultInv, RowsStay
    PROVE  History'
<1>1. \A c : NewerOfClass(c)' = NewerOfClass(c) BY DEF NewerOfClass, RowsStay
<1> QED BY <1>1 DEF VaultInv, History, RowsStay

\* Rows stay readable while neither they nor their files change.
LEMMA ReadableStays ==
    ASSUME VaultInv, UNCHANGED <<index, indexed>>,
           \A c \in indexed : c \in markers', \A m \in Messages : shared[m] # "none" => shared'[m] # "none"
    PROVE  RowsAreReadable'
<1>1. \A c \in indexed : index[c] \subseteq Messages BY DEF VaultInv, VaultTypeOK
<1> QED BY <1>1 DEF VaultInv, RowsAreReadable

\* A mishap is counted within its bound.
LEMMA Mishaps ==
    ASSUME VaultInv, Works \/ Fails
    PROVE  mishaps' \in 0..MaxMishaps
BY VaultAssumption DEF VaultInv, VaultTypeOK, Works, Fails

\* What the types say of the record of a save.
LEMMA SaveTyped ==
    ASSUME VaultInv, NEW c \in Captures
    PROVE  /\ save[c] \in Saves /\ save \in [Captures -> Saves] /\ SaveIsSafe(c)
           /\ raw \subseteq Captures /\ markers \subseteq Captures
           /\ indexed \subseteq Captures
           /\ shared \in [Messages -> {"none", "new", "old"}]
           /\ index \in [Captures -> SUBSET Messages] /\ mishaps \in 0..MaxMishaps
BY DEF VaultInv, OneHolder, VaultTypeOK

\* The record of a save that has read what was said.
LEMMA SaidTyped ==
    ASSUME NEW q \in Saves, NEW said \in SUBSET Messages
    PROVE  LET n == [q EXCEPT !.step = "mark", !.wants = said, !.left = said] IN
           /\ n \in Saves /\ n.step = "mark" /\ n.created = q.created
           /\ n.wants = said /\ n.left = said
BY DEF Saves, SaveSteps

\* The steps by which a capture runs and its raw files are closed or dropped.
LEMMA StartCaptureVault ==
    ASSUME VaultInv, NEW c \in Captures, StartCapture(c)
    PROVE  VaultInv'
<1> DEFINE n == [save[c] EXCEPT !.step = "running"]
<1> USE SaveTyped
<1>1. save' = [save EXCEPT ![c] = n] /\ save[c].step = "none" /\ ~Locked(c)
  BY DEF StartCapture, Goes, SaveAt, Locked
<1>2. n \in Saves /\ n.step = "running" /\ n.created = save[c].created /\ n.wants = save[c].wants
      /\ n.left = save[c].left
  BY DEF Saves, SaveSteps
<1>3. save'[c] = n BY <1>1
<1> HIDE DEF n
<1>4. LockMoves(c, n.step) BY <1>1, <1>2 DEF LockMoves, StartCapture, Free
<1>5. RowsAreReadable' BY ReadableStays DEF StartCapture, RowsStay, VaultInv, RowsAreReadable
<1>6. History' BY HistoryStays DEF StartCapture
<1>7. SaveIsSafe(c)' BY <1>1, <1>2, <1>3 DEF SaveIsSafe, StartCapture, RowsStay, Unreferenced
<1>8. mishaps' \in 0..MaxMishaps BY Mishaps DEF StartCapture
<1> QED BY <1>1, <1>2, <1>4, <1>5, <1>6, <1>7, <1>8, SaveMoves DEF StartCapture, RowsStay

\* A save that waits takes sharedMu when nobody holds it.
LEMMA LockForSaveVault ==
    ASSUME VaultInv, NEW c \in Captures, LockForSave(c)
    PROVE  VaultInv'
<1> DEFINE n == [save[c] EXCEPT !.step = "read"]
<1> USE SaveTyped
<1>1. save' = [save EXCEPT ![c] = n] /\ save[c].step = "closed" /\ ~Locked(c)
  BY DEF LockForSave, Goes, SaveAt, Locked
<1>2. n \in Saves /\ n.step = "read" /\ n.created = save[c].created
  BY DEF Saves, SaveSteps
<1>3. save'[c] = n BY <1>1
<1> HIDE DEF n
<1>4. LockMoves(c, n.step) BY <1>1, <1>2 DEF LockMoves, LockForSave, Free
<1>5. RowsAreReadable'
  BY ReadableStays DEF LockForSave, FilesStay, RowsStay, VaultInv, RowsAreReadable
<1>6. History' BY HistoryStays DEF LockForSave
<1>7. SaveIsSafe(c)'
  BY <1>1, <1>2, <1>3 DEF SaveIsSafe, LockForSave, FilesStay, RowsStay, Unreferenced
<1>8. mishaps' \in 0..MaxMishaps BY Mishaps DEF LockForSave
<1> QED BY <1>1, <1>2, <1>4, <1>5, <1>6, <1>7, <1>8, SaveMoves
        DEF LockForSave, FilesStay, RowsStay

\* A save that ends has no claim on anything any more.
LEMMA SaveEnds ==
    ASSUME VaultInv, NEW c \in Captures, Goes(c, "ended"), UNCHANGED cleanup,
           IF Locked(c) THEN Unlock ELSE UNCHANGED holder,
           raw' \subseteq raw \ {c}, markers' \subseteq Captures,
           shared' \in [Messages -> {"none", "new", "old"}], RowsStay, Works \/ Fails,
           Locked(c) \/ UNCHANGED <<markers, shared>>, RowsAreReadable'
    PROVE  VaultInv'
<1> DEFINE n == [save[c] EXCEPT !.step = "ended"]
<1> USE SaveTyped
<1>1. save' = [save EXCEPT ![c] = n] BY DEF Goes
<1>2. n \in Saves /\ n.step = "ended" BY SMTT(20) DEF Saves, SaveSteps
<1>3. save'[c] = n BY <1>1
<1> HIDE DEF n
<1>4. LockMoves(c, n.step) BY <1>2 DEF LockMoves, Unlock, Free
<1>5. History' BY HistoryStays
<1>6. SaveIsSafe(c)' BY <1>2, <1>3 DEF SaveIsSafe
<1>7. mishaps' \in 0..MaxMishaps BY Mishaps
<1> QED BY <1>1, <1>2, <1>4, <1>5, <1>6, <1>7, SaveMoves DEF RowsStay

\* The end of a request closes its raw files or drops them.
LEMMA CloseRawVault ==
    ASSUME VaultInv, NEW c \in Captures, CloseRaw(c)
    PROVE  VaultInv'
<1> USE SaveTyped
<1>0. save[c].step = "running" /\ ~Locked(c)
      /\ UNCHANGED <<markers, shared, holder, cleanup>> /\ RowsStay
  BY DEF CloseRaw, SaveAt, Locked
<1>1. RowsAreReadable' BY <1>0, ReadableStays DEF RowsStay, VaultInv, RowsAreReadable
<1>2. CASE Goes(c, "closed") /\ Works /\ UNCHANGED raw
  <2> DEFINE n == [save[c] EXCEPT !.step = "closed"]
  <2>1. save' = [save EXCEPT ![c] = n] BY <1>2 DEF Goes
  <2>2. n \in Saves /\ n.step = "closed" /\ n.created = save[c].created
    BY DEF Saves, SaveSteps
  <2>3. save'[c] = n BY <2>1
  <2> HIDE DEF n
  <2>4. LockMoves(c, n.step) BY <1>0, <2>2 DEF LockMoves, Free
  <2>5. History' BY <1>0, HistoryStays
  <2>6. SaveIsSafe(c)' BY <1>0, <1>2, <2>2, <2>3 DEF SaveIsSafe, RowsStay, Unreferenced
  <2>7. mishaps' \in 0..MaxMishaps BY <1>2, Mishaps
  <2> QED BY <1>0, <1>1, <1>2, <2>1, <2>2, <2>4, <2>5, <2>6, <2>7, SaveMoves DEF RowsStay
<1>3. CASE Goes(c, "ended") /\ Fails /\ raw' = raw \ {c}
  BY <1>0, <1>1, <1>3, SaveEnds
<1> QED BY <1>2, <1>3 DEF CloseRaw

\* The raw files are read and removed, whatever comes out.
LEMMA ReadRawVault ==
    ASSUME VaultInv, NEW c \in Captures, ReadRaw(c)
    PROVE  VaultInv'
<1> USE SaveTyped
<1>0. /\ save[c].step = "read" /\ Locked(c) /\ raw' = raw \ {c}
      /\ UNCHANGED <<markers, shared, cleanup>> /\ RowsStay
  BY DEF ReadRaw, SaveAt, Locked
<1>1. RowsAreReadable' BY <1>0, ReadableStays DEF RowsStay, VaultInv, RowsAreReadable
<1>2. ASSUME NEW said \in SUBSET Messages,
             save' = [save EXCEPT ![c].step = "mark", ![c].wants = said, ![c].left = said],
             Works, UNCHANGED holder
      PROVE  VaultInv'
  <2> DEFINE n == [save[c] EXCEPT !.step = "mark", !.wants = said, !.left = said]
  <2>1. save' = [save EXCEPT ![c] = n] BY <1>2
  <2>2. n \in Saves /\ n.step = "mark" /\ n.created = save[c].created
        /\ n.wants = said /\ n.left = said
    BY ONLY save[c] \in Saves, said \in SUBSET Messages, SaidTyped
  <2>3. save'[c] = n BY <2>1
  <2> HIDE DEF n
  <2>4. LockMoves(c, n.step) BY <1>0, <1>2, <2>2 DEF LockMoves, Free
  <2>5. History' BY <1>0, HistoryStays
  <2>6. SaveIsSafe(c)' BY <1>0, <2>2, <2>3 DEF SaveIsSafe, RowsStay
  <2>7. mishaps' \in 0..MaxMishaps BY <1>2, Mishaps
  <2> QED BY <1>0, <1>1, <2>1, <2>2, <2>4, <2>5, <2>6, <2>7, SaveMoves DEF RowsStay
<1>3. CASE Goes(c, "ended") /\ (Works \/ Fails) /\ Unlock
  BY <1>0, <1>1, <1>3, SaveEnds
<1> QED BY <1>2, <1>3 DEF ReadRaw

\* The markers of a capture that no row knows yet are written.
LEMMA SaveMarkersVault ==
    ASSUME VaultInv, NEW c \in Captures, SaveMarkers(c)
    PROVE  VaultInv'
<1> USE SaveTyped
<1>0. /\ save[c].step = "mark" /\ Locked(c) /\ UNCHANGED <<raw, shared, cleanup>> /\ RowsStay
  BY DEF SaveMarkers, SaveAt, Locked
<1>1. CASE markers' = markers \cup {c} /\ Goes(c, "share") /\ Works /\ UNCHANGED holder
  <2> DEFINE n == [save[c] EXCEPT !.step = "share"]
  <2>1. save' = [save EXCEPT ![c] = n] BY <1>1 DEF Goes
  <2>2. n \in Saves /\ n.step = "share" /\ n.created = save[c].created
        /\ n.wants = save[c].wants /\ n.left = save[c].left
    BY DEF Saves, SaveSteps
  <2>3. save'[c] = n BY <2>1
  <2> HIDE DEF n
  <2>4. LockMoves(c, n.step) BY <1>0, <1>1, <2>2 DEF LockMoves, Free
  <2>5. History' BY <1>0, HistoryStays
  <2>6. SaveIsSafe(c)'
    BY <1>0, <1>1, <2>2, <2>3 DEF SaveIsSafe, RowsStay, Unreferenced
  <2>7. mishaps' \in 0..MaxMishaps BY <1>1, Mishaps
  <2>8. RowsAreReadable'
    BY <1>0, <1>1, ReadableStays DEF RowsStay, VaultInv, RowsAreReadable
  <2> QED BY <1>0, <1>1, <2>1, <2>2, <2>4, <2>5, <2>6, <2>7, <2>8, SaveMoves DEF RowsStay
<1>2. CASE Goes(c, "ended") /\ Fails /\ Unlock /\ UNCHANGED markers
  <2>1. RowsAreReadable'
    BY <1>0, <1>2, ReadableStays DEF RowsStay, VaultInv, RowsAreReadable
  <2>2. c \notin raw BY <1>0 DEF SaveIsSafe
  <2> QED BY <1>0, <1>2, <2>1, <2>2, SaveEnds
<1> QED BY <1>1, <1>2 DEF SaveMarkers

\* Files that no row refers to can go.
LEMMA DropUnreferenced ==
    ASSUME VaultInv, NEW files, NEW gone, Unreferenced(files, gone),
           UNCHANGED <<index, indexed>>, markers' = markers \ files,
           shared' = [m \in Messages |-> IF m \in gone THEN "none" ELSE shared[m]]
    PROVE  /\ RowsAreReadable' /\ markers' \subseteq Captures
           /\ shared' \in [Messages -> {"none", "new", "old"}]
<1>1. /\ markers \subseteq Captures /\ shared \in [Messages -> {"none", "new", "old"}]
      /\ indexed \subseteq Captures /\ \A d \in indexed : index[d] \subseteq Messages
  BY DEF VaultInv, VaultTypeOK
<1>2. ASSUME NEW d \in indexed PROVE d \in markers' /\ \A m \in index[d] : shared'[m] # "none"
  <2>1. d \notin files /\ gone \cap index[d] = {} BY DEF Unreferenced
  <2>2. d \in markers /\ \A m \in index[d] : shared[m] # "none"
    BY DEF VaultInv, RowsAreReadable
  <2> QED BY <1>1, <2>1, <2>2
<1> QED BY <1>1, <1>2 DEF RowsAreReadable

\* What a failed save made is taken back: it was not there before, so no row has it.
LEMMA TakeBackVault ==
    ASSUME VaultInv, NEW c \in Captures, save[c].step \in {"share", "index"}, TakeBack(c),
           Fails, RowsStay, UNCHANGED <<raw, cleanup>>
    PROVE  VaultInv'
<1> USE SaveTyped
<1>1. Locked(c) /\ c \notin raw /\ c \notin indexed BY DEF SaveIsSafe, Locked
<1>2. Unreferenced({c}, save[c].created) BY <1>1 DEF SaveIsSafe, Unreferenced
<1>3. /\ RowsAreReadable' /\ markers' \subseteq Captures
      /\ shared' \in [Messages -> {"none", "new", "old"}]
  BY <1>2, DropUnreferenced DEF TakeBack, RowsStay
<1> QED BY <1>1, <1>3, SaveEnds DEF TakeBack

\* A message is stored unless it is there.
LEMMA SaveSharedVault ==
    ASSUME VaultInv, NEW c \in Captures, NEW m \in Messages, SaveShared(c, m)
    PROVE  VaultInv'
<1> USE SaveTyped
<1>0. /\ save[c].step = "share" /\ Locked(c) /\ m \in save[c].left
      /\ UNCHANGED <<raw, cleanup>> /\ RowsStay
  BY DEF SaveShared, SaveAt, Locked
<1>1. CASE TakeBack(c) /\ Fails BY <1>0, <1>1, TakeBackVault
<1>2. CASE /\ shared' = IF shared[m] = "none" THEN [shared EXCEPT ![m] = "new"] ELSE shared
           /\ save' = [save EXCEPT ![c].left = @ \ {m},
                           ![c].created = IF shared[m] = "none" THEN @ \cup {m} ELSE @,
                           ![c].step = IF save[c].left = {m} THEN "index" ELSE @]
           /\ UNCHANGED <<markers, holder>> /\ Works
  <2> DEFINE left == save[c].left \ {m}
             created == IF shared[m] = "none" THEN save[c].created \cup {m} ELSE save[c].created
             step == IF save[c].left = {m} THEN "index" ELSE "share"
             n == [save[c] EXCEPT !.left = left, !.created = created, !.step = step]
  <2>1. save' = [save EXCEPT ![c] = n] BY <1>0, <1>2
  <2>2. left \in SUBSET Messages /\ created \in SUBSET Messages /\ step \in {"share", "index"}
        /\ (step = "index" => left = {})
    BY DEF Saves
  <2>3. n \in Saves /\ n.step = step /\ n.created = created
        /\ n.wants = save[c].wants /\ n.left = left
    <3>1. save[c] \in Saves OBVIOUS
    <3>2. n = [save[c] EXCEPT !.left = left, !.created = created, !.step = step]
      OBVIOUS
    <3> HIDE DEF left, created, step, n
    <3>3. n.step = step BY ONLY <3>1, <3>2 DEF Saves
    <3>4. n.created = created BY ONLY <3>1, <3>2 DEF Saves
    <3>5. n.left = left BY ONLY <3>1, <3>2 DEF Saves
    <3>6. n.wants = save[c].wants BY ONLY <3>1, <3>2 DEF Saves
    <3>7. n \in Saves BY ONLY <2>2, <3>1, <3>2 DEF Saves, SaveSteps
    <3> QED BY <3>3, <3>4, <3>5, <3>6, <3>7
  <2>4. save'[c] = n BY <2>1
  <2> HIDE DEF n
  <2>5. LockMoves(c, n.step)
    BY <1>0, <1>2, <2>2, <2>3 DEF LockMoves, Free
  <2>6. History' BY <1>0, HistoryStays
  <2>7. /\ shared' \in [Messages -> {"none", "new", "old"}] /\ shared'[m] # "none"
        /\ \A k \in Messages : shared[k] # "none" => shared'[k] # "none"
    BY <1>2
  <2>8. RowsAreReadable'
    BY <1>0, <1>2, <2>7, ReadableStays DEF RowsStay, VaultInv, RowsAreReadable
  <2>9. SaveIsSafe(c)'
    <3>1. \A k \in save[c].wants \ left : shared'[k] # "none"
      <4>1. save[c].wants \subseteq Messages BY DEF Saves
      <4> QED BY <1>0, <2>7, <4>1 DEF SaveIsSafe
    <3>2. \A d \in indexed' : created \cap index'[d] = {}
      <4>1. \A d \in indexed : save[c].created \cap index[d] = {}
        BY <1>0 DEF SaveIsSafe, Unreferenced
      <4>2. shared[m] = "none" => \A d \in indexed : m \notin index[d]
        BY DEF VaultInv, RowsAreReadable
      <4>3. \A d \in indexed : created \cap index[d] = {} BY <4>1, <4>2
      <4> QED BY <1>0, <4>3 DEF RowsStay
    <3>3. c \in markers /\ c \notin indexed /\ c \notin saved /\ c \notin Legacy /\ c \notin raw
      BY <1>0 DEF SaveIsSafe
    <3>4. /\ save'[c].step = step /\ save'[c].created = created
          /\ save'[c].wants = save[c].wants /\ save'[c].left = left
      BY <2>3, <2>4
    <3>5. UNCHANGED <<raw, markers, index, indexed, saved>> BY <1>0, <1>2 DEF RowsStay
    <3> HIDE DEF left, created, step
    <3>6. Unreferenced({}, save[c].created)' BY <3>2, <3>4 DEF Unreferenced
    <3> QED BY <2>2, <3>1, <3>3, <3>4, <3>5, <3>6 DEF SaveIsSafe
  <2>10. mishaps' \in 0..MaxMishaps BY <1>2, Mishaps
  <2> QED BY <1>0, <1>2, <2>1, <2>3, <2>5, <2>6, <2>7, <2>8, <2>9, <2>10, SaveMoves
          DEF RowsStay
<1> QED BY <1>0, <1>1, <1>2 DEF SaveShared


\* The row is written last: its files are all there.
LEMMA IndexCaptureVault ==
    ASSUME VaultInv, NEW c \in Captures, IndexCapture(c)
    PROVE  VaultInv'
<1> USE SaveTyped
<1>0. save[c].step = "index" /\ Locked(c) /\ UNCHANGED <<raw, cleanup>>
  BY DEF IndexCapture, SaveAt, Locked
<1>1. CASE TakeBack(c) /\ Fails /\ RowsStay BY <1>0, <1>1, TakeBackVault
<1>2. CASE /\ index' = [index EXCEPT ![c] = save[c].wants]
           /\ indexed' = indexed \cup {c} /\ saved' = saved \cup {c}
           /\ Goes(c, "retain") /\ Works /\ UNCHANGED <<markers, shared, holder>>
  <2> DEFINE n == [save[c] EXCEPT !.step = "retain"]
  <2>1. save' = [save EXCEPT ![c] = n] BY <1>2 DEF Goes
  <2>2. n \in Saves /\ n.step = "retain" BY DEF Saves, SaveSteps
  <2>3. save'[c] = n BY <2>1
  <2> HIDE DEF n
  <2>4. LockMoves(c, n.step) BY <1>0, <1>2, <2>2 DEF LockMoves, Free
  <2>5. save[c].wants \in SUBSET Messages BY DEF Saves
  <2>6. index' \in [Captures -> SUBSET Messages] /\ index'[c] = save[c].wants
        /\ \A d \in indexed : d # c => index'[d] = index[d]
    BY <1>2, <2>5
  <2>7. c \in markers /\ \A m \in save[c].wants : shared[m] # "none"
    BY <1>0 DEF SaveIsSafe
  <2>8. RowsAreReadable'
    BY <1>2, <2>6, <2>7 DEF RowsAreReadable, VaultInv
  <2>9. c \notin indexed /\ c \notin saved /\ c \notin Legacy /\ c \notin raw
    BY <1>0 DEF SaveIsSafe
  <2>10. SaveIsSafe(c)' BY <1>0, <2>2, <2>3, <2>9 DEF SaveIsSafe
  <2>11. History'
    <3>1. /\ saved' \subseteq Captures \ Legacy /\ IsFiniteSet(saved')
          /\ indexed' \subseteq saved' \cup Legacy
      BY <1>2, <2>9, FS_AddElement DEF VaultInv, History
    <3>2. ASSUME NEW d \in saved' \ indexed' PROVE Cardinality(NewerOfClass(d)') >= KeepNewest
      <4>1. Cardinality(NewerOfClass(d)) >= KeepNewest BY <1>2, <3>2 DEF VaultInv, History
      <4>2. NewerOfClass(d) \subseteq NewerOfClass(d)' /\ NewerOfClass(d)' \subseteq saved' BY <1>2 DEF NewerOfClass
      <4>3. Cardinality(NewerOfClass(d)) <= Cardinality(NewerOfClass(d)') /\ IsFiniteSet(NewerOfClass(d))
            /\ IsFiniteSet(NewerOfClass(d)')
        BY <3>1, <4>2, FS_Subset
      <4>4. Cardinality(NewerOfClass(d)) \in Nat /\ Cardinality(NewerOfClass(d)') \in Nat
        BY <4>3, FS_CardinalityType
      <4> QED BY <4>1, <4>3, <4>4, VaultAssumption
    <3> QED BY <3>1, <3>2 DEF History
  <2>12. mishaps' \in 0..MaxMishaps BY <1>2, Mishaps
  <2> QED BY <1>0, <1>2, <2>1, <2>2, <2>4, <2>6, <2>8, <2>10, <2>11, <2>12, SaveMoves
<1> QED BY <1>0, <1>1, <1>2 DEF IndexCapture

\* A transaction that deletes rows says which messages are unused from now on.
LEMMA RowsDeleted ==
    ASSUME VaultInv, NEW going \in SUBSET indexed, DeleteRows(going), UNCHANGED <<markers, shared>>
    PROVE  /\ RowsAreReadable' /\ indexed' \subseteq indexed /\ saved' = saved
           /\ index' \in [Captures -> SUBSET Messages]
           /\ going \in SUBSET Captures /\ UnusedAfter(going) \in SUBSET Messages
           /\ going \cap indexed' = {} /\ \A d \in indexed' : UnusedAfter(going) \cap index'[d] = {}
<1>1. indexed \subseteq Captures /\ index \in [Captures -> SUBSET Messages]
  BY DEF VaultInv, VaultTypeOK
<1>2. indexed' = indexed \ going /\ index' = [d \in Captures |-> IF d \in going THEN {} ELSE index[d]]
      /\ saved' = saved
  BY DEF DeleteRows
<1>3. \A d \in indexed' : d \in indexed /\ index'[d] = index[d] BY <1>1, <1>2
<1>4. RowsAreReadable' BY <1>3 DEF VaultInv, RowsAreReadable
<1>5. index' \in [Captures -> SUBSET Messages] BY <1>1, <1>2
<1>6. UnusedAfter(going) \in SUBSET Messages BY <1>1 DEF UnusedAfter
<1>7. \A d \in indexed' : UnusedAfter(going) \cap index'[d] = {}
  BY <1>2, <1>3 DEF UnusedAfter
<1> QED BY <1>1, <1>2, <1>4, <1>5, <1>6, <1>7

\* Only rows with enough newer ones of their class are deleted to make room.
LEMMA ExcessIsOld ==
    ASSUME VaultInv, DeleteRows(Excess)
    PROVE  History'
<1>1. saved' = saved /\ indexed' = indexed \ Excess /\ \A d : NewerOfClass(d)' = NewerOfClass(d)
  BY DEF DeleteRows, NewerOfClass
<1>2. ASSUME NEW d \in saved \ indexed' PROVE Cardinality(NewerOfClass(d)) >= KeepNewest
  <2>1. CASE d \notin indexed BY <1>2, <2>1 DEF VaultInv, History
  <2>2. CASE d \in indexed
    <3>1. d \in Excess BY <1>1, <1>2, <2>2
    <3>2. Cardinality(NewerThan(d)) >= KeepNewest BY <3>1 DEF Excess
    <3>3. d \in Captures \ Legacy /\ Captures \subseteq Nat
      BY VaultAssumption DEF VaultInv, History
    <3>4. NewerThan(d) \subseteq NewerOfClass(d)
      <4>1. SUFFICES ASSUME NEW e \in indexed, e > d, e \in Identified <=> d \in Identified
                     PROVE  e \in saved
        BY DEF NewerThan, NewerOfClass
      <4>2. e \in Legacy => e < d BY <3>3, VaultAssumption
      <4>3. e \in Captures BY DEF VaultInv, VaultTypeOK
      <4>4. e \notin Legacy BY <3>3, <4>1, <4>2, <4>3
      <4> QED BY <4>4 DEF VaultInv, History
    <3>5. NewerOfClass(d) \subseteq saved BY DEF NewerOfClass
    <3>6. /\ IsFiniteSet(NewerOfClass(d)) /\ IsFiniteSet(NewerThan(d))
          /\ Cardinality(NewerThan(d)) <= Cardinality(NewerOfClass(d))
      BY <3>4, <3>5, FS_Subset DEF VaultInv, History
    <3>7. Cardinality(NewerThan(d)) \in Nat /\ Cardinality(NewerOfClass(d)) \in Nat
      BY <3>6, FS_CardinalityType
    <3> QED BY <3>2, <3>6, <3>7, VaultAssumption
  <2> QED BY <2>1, <2>2
<1> QED BY <1>1, <1>2 DEF VaultInv, History

\* Rows are deleted to make room; their files are dropped afterwards.
LEMMA RetainNewestVault ==
    ASSUME VaultInv, NEW c \in Captures, RetainNewest(c)
    PROVE  VaultInv'
<1> USE SaveTyped
<1>0. save[c].step = "retain" /\ Locked(c) /\ UNCHANGED <<cleanup, raw, markers, shared>>
  BY DEF RetainNewest, SaveAt, Locked, FilesStay
<1>1. CASE Goes(c, "ended") /\ Fails /\ Unlock /\ RowsStay
  <2>1. RowsAreReadable'
    BY <1>0, <1>1, ReadableStays DEF RowsStay, VaultInv, RowsAreReadable
  <2>2. c \notin raw BY <1>0 DEF SaveIsSafe
  <2> QED BY <1>0, <1>1, <2>1, <2>2, SaveEnds
<1>2. CASE /\ DeleteRows(Excess) /\ Works /\ UNCHANGED holder
           /\ save' = [save EXCEPT ![c].step = "drop", ![c].files = Excess,
                                   ![c].gone = UnusedAfter(Excess)]
  <2> DEFINE files == Excess
             gone == UnusedAfter(Excess)
             n == [save[c] EXCEPT !.step = "drop", !.files = files, !.gone = gone]
  <2>1. save' = [save EXCEPT ![c] = n] BY <1>2
  <2>2. Excess \in SUBSET indexed BY DEF Excess
  <2>3. /\ RowsAreReadable' /\ indexed' \subseteq indexed /\ saved' = saved
        /\ index' \in [Captures -> SUBSET Messages]
        /\ files \in SUBSET Captures /\ gone \in SUBSET Messages
        /\ files \cap indexed' = {} /\ \A d \in indexed' : gone \cap index'[d] = {}
    BY <1>0, <1>2, <2>2, RowsDeleted
  <2>4. save[c] \in Saves OBVIOUS
  <2>5. n = [save[c] EXCEPT !.step = "drop", !.files = files, !.gone = gone] OBVIOUS
  <2>6. save'[c] = n BY <2>1
  <2>7. History' BY <1>2, ExcessIsOld
  <2> HIDE DEF n, files, gone
  <2>8. n.step = "drop" BY ONLY <2>4, <2>5 DEF Saves
  <2>9. n.files = files BY ONLY <2>4, <2>5 DEF Saves
  <2>10. n.gone = gone BY ONLY <2>4, <2>5 DEF Saves
  <2>11. n \in Saves BY ONLY <2>3, <2>4, <2>5 DEF Saves, SaveSteps
  <2>12. LockMoves(c, n.step) BY <1>0, <1>2, <2>8 DEF LockMoves, Free
  <2>13. c \notin raw BY <1>0 DEF SaveIsSafe
  <2>14. SaveIsSafe(c)'
    BY <1>0, <2>3, <2>6, <2>8, <2>9, <2>10, <2>13 DEF SaveIsSafe, Unreferenced
  <2>15. mishaps' \in 0..MaxMishaps BY <1>2, Mishaps
  <2> QED BY <1>0, <2>1, <2>3, <2>7, <2>11, <2>12, <2>14, <2>15, SaveMoves
<1> QED BY <1>1, <1>2 DEF RetainNewest

\* The files of the deleted rows go: no row refers to them.
LEMMA DropFilesVault ==
    ASSUME VaultInv, NEW c \in Captures, DropFiles(c)
    PROVE  VaultInv'
<1> USE SaveTyped
<1>1. save[c].step = "drop" /\ Locked(c) /\ c \notin raw BY DEF DropFiles, SaveAt, Locked, SaveIsSafe
<1>2. Unreferenced(save[c].files, save[c].gone) BY <1>1 DEF SaveIsSafe
<1>3. /\ RowsAreReadable' /\ markers' \subseteq Captures
      /\ shared' \in [Messages -> {"none", "new", "old"}]
  BY <1>2, DropUnreferenced DEF DropFiles, RowsStay
<1> QED BY <1>1, <1>3, SaveEnds DEF DropFiles

-----------------------------------------------------------------------------
(* The cleanup, and the process.                                           *)

\* A step of the cleanup, which holds sharedMu: no save is under way.
LEMMA CleanupMoves ==
    ASSUME VaultInv, UNCHANGED <<save, raw>>, cleanup' \in Cleanups,
           holder = "cleanup" \/ (holder = "nobody" /\ UNCHANGED <<markers, shared, index, indexed>>),
           holder' = IF cleanup'.step = "idle" THEN "nobody" ELSE "cleanup",
           markers' \subseteq Captures, indexed' \subseteq indexed, saved' = saved,
           shared' \in [Messages -> {"none", "new", "old"}],
           index' \in [Captures -> SUBSET Messages], Works \/ Fails,
           RowsAreReadable', CleanupIsSafe', History'
    PROVE  VaultInv'
<1>1. \A c \in Captures : ~Locked(c) BY DEF VaultInv, OneHolder
<1>2. \A c \in Captures : ~Locked(c)' BY <1>1 DEF Locked
<1>3. OneHolder' BY <1>2 DEF VaultInv, OneHolder
<1>4. mishaps' \in 0..MaxMishaps BY Mishaps
<1>5. /\ raw \subseteq Captures /\ indexed \subseteq Captures
      /\ \A c \in Captures : save[c].step \in SaveSteps
  BY DEF VaultInv, VaultTypeOK
<1>6. VaultTypeOK' BY <1>2, <1>4, <1>5 DEF VaultTypeOK, Locked
<1>7. ASSUME NEW c \in Captures PROVE SaveIsSafe(c)'
  <2>1. SaveIsSafe(c) /\ ~Locked(c) BY <1>1 DEF VaultInv
  <2> QED BY <2>1 DEF SaveIsSafe, Locked
<1> QED BY <1>3, <1>6, <1>7 DEF VaultInv

\* What the types say of the cleanup.
LEMMA CleanupTyped ==
    ASSUME VaultInv
    PROVE  /\ cleanup \in Cleanups /\ CleanupIsSafe /\ NoCleanup \in Cleanups
           /\ cleanup.step # "idle" => holder = "cleanup"
           /\ markers \subseteq Captures /\ indexed \subseteq Captures
           /\ shared \in [Messages -> {"none", "new", "old"}]
           /\ index \in [Captures -> SUBSET Messages] /\ RowsAreReadable
BY DEF VaultInv, OneHolder, VaultTypeOK, NoCleanup, Cleanups

\* A cleanup that ends, or fails, changes nothing more.
LEMMA CleanupEnds ==
    ASSUME VaultInv, holder = "cleanup", EndCleanup, UNCHANGED <<save, raw, markers, shared>>,
           RowsStay, Works \/ Fails
    PROVE  VaultInv'
<1>1. RowsAreReadable' BY ReadableStays DEF RowsStay, VaultInv, RowsAreReadable
<1>2. cleanup' = NoCleanup /\ cleanup'.step = "idle" /\ holder' = "nobody"
  BY DEF EndCleanup, NoCleanup
<1>3. CleanupIsSafe' BY <1>2 DEF CleanupIsSafe
<1>4. History' BY HistoryStays
<1> QED BY <1>1, <1>2, <1>3, <1>4, CleanupTyped, CleanupMoves DEF RowsStay

\* The cleanup takes sharedMu when no save holds it.
LEMMA LockForCleanupVault ==
    ASSUME VaultInv, LockForCleanup
    PROVE  VaultInv'
<1>1. RowsAreReadable'
  BY ReadableStays DEF LockForCleanup, FilesStay, RowsStay, VaultInv, RowsAreReadable
<1>2. cleanup' = [NoCleanup EXCEPT !.step = "legacy"] /\ holder' = "cleanup" /\ holder = "nobody"
  BY DEF LockForCleanup
<1>3. cleanup' \in Cleanups /\ cleanup'.step = "legacy" BY <1>2 DEF NoCleanup, Cleanups
<1>4. CleanupIsSafe' BY <1>3 DEF CleanupIsSafe
<1>5. History' BY HistoryStays DEF LockForCleanup
<1> QED BY <1>1, <1>2, <1>3, <1>4, <1>5, CleanupTyped, CleanupMoves
        DEF LockForCleanup, FilesStay, RowsStay

\* The cleanup deletes the rows of the old format.
LEMMA DeleteLegacyVault ==
    ASSUME VaultInv, DeleteLegacy
    PROVE  VaultInv'
<1> DEFINE going == indexed \cap Legacy
           gone == UnusedAfter(going)
<1>0. cleanup.step = "legacy" /\ UNCHANGED <<save, raw, markers, shared>>
  BY DEF DeleteLegacy, FilesStay
<1>1. holder = "cleanup" BY <1>0, CleanupTyped
<1>2. CASE EndCleanup /\ Fails /\ RowsStay BY <1>0, <1>1, <1>2, CleanupEnds
<1>3. CASE /\ DeleteRows(going) /\ Works /\ UNCHANGED holder
           /\ cleanup' = [cleanup EXCEPT !.step = "drop", !.files = going, !.gone = gone]
  <2>1. /\ RowsAreReadable' /\ indexed' \subseteq indexed /\ saved' = saved
        /\ index' \in [Captures -> SUBSET Messages]
        /\ going \in SUBSET Captures /\ gone \in SUBSET Messages
        /\ going \cap indexed' = {} /\ \A d \in indexed' : gone \cap index'[d] = {}
    BY <1>0, <1>3, RowsDeleted
  <2>2. cleanup \in Cleanups BY CleanupTyped
  <2>3. History'
    <3>1. indexed' = indexed \ Legacy BY <1>3 DEF DeleteRows
    <3>2. \A d : NewerOfClass(d)' = NewerOfClass(d) BY <2>1 DEF NewerOfClass
    <3>3. saved \cap Legacy = {} BY DEF VaultInv, History
    <3> QED BY <2>1, <3>1, <3>2, <3>3 DEF VaultInv, History
  <2>4. holder' = "cleanup" BY <1>1, <1>3
  <2>5. cleanup' = [cleanup EXCEPT !.step = "drop", !.files = going, !.gone = gone] BY <1>3
  <2>6. Works BY <1>3
  <2> HIDE DEF going, gone
  <2>7. cleanup'.step = "drop" BY ONLY <2>2, <2>5 DEF Cleanups
  <2>8. cleanup'.files = going BY ONLY <2>2, <2>5 DEF Cleanups
  <2>9. cleanup'.gone = gone BY ONLY <2>2, <2>5 DEF Cleanups
  <2>10. cleanup' \in Cleanups BY ONLY <2>1, <2>2, <2>5 DEF Cleanups
  <2>11. CleanupIsSafe' BY <2>1, <2>7, <2>8, <2>9 DEF CleanupIsSafe, Unreferenced
  <2> QED BY <1>0, <1>1, <2>1, <2>3, <2>4, <2>6, <2>7, <2>10, <2>11, CleanupTyped, CleanupMoves
<1> QED BY <1>2, <1>3 DEF DeleteLegacy

\* The files of those rows go: no row refers to them.
LEMMA DropLegacyVault ==
    ASSUME VaultInv, DropLegacy
    PROVE  VaultInv'
<1>1. cleanup.step = "drop" /\ holder = "cleanup" /\ cleanup \in Cleanups
  BY CleanupTyped DEF DropLegacy
<1>2. Unreferenced(cleanup.files, cleanup.gone) BY <1>1, CleanupTyped DEF CleanupIsSafe
<1>3. /\ RowsAreReadable' /\ markers' \subseteq Captures
      /\ shared' \in [Messages -> {"none", "new", "old"}]
  BY <1>2, DropUnreferenced DEF DropLegacy, RowsStay
<1>4. cleanup' = [cleanup EXCEPT !.step = "list"] /\ UNCHANGED holder BY DEF DropLegacy
<1>5. cleanup' \in Cleanups /\ cleanup'.step = "list" BY <1>1, <1>4 DEF Cleanups
<1>6. CleanupIsSafe' BY <1>5 DEF CleanupIsSafe
<1>7. History' BY HistoryStays DEF DropLegacy
<1> QED BY <1>1, <1>3, <1>4, <1>5, <1>6, <1>7, CleanupTyped, CleanupMoves
        DEF DropLegacy, RowsStay

\* Markers without a row go, those of the rows stay.
LEMMA PruneMarkersVault ==
    ASSUME VaultInv, PruneMarkers
    PROVE  VaultInv'
<1>1. /\ cleanup.step = "list" /\ holder = "cleanup" /\ cleanup \in Cleanups
      /\ UNCHANGED <<raw, shared, save>> /\ RowsStay
  BY CleanupTyped DEF PruneMarkers
<1>2. CASE EndCleanup /\ Fails /\ UNCHANGED markers BY <1>1, <1>2, CleanupEnds
<1>3. ASSUME NEW young \in SUBSET markers, markers' = markers \cap (indexed \cup young),
             cleanup' = [cleanup EXCEPT !.step = "refs"], Works, UNCHANGED holder
      PROVE  VaultInv'
  <2>1. cleanup' \in Cleanups /\ cleanup'.step = "refs" BY <1>1, <1>3 DEF Cleanups
  <2>2. CleanupIsSafe' BY <2>1 DEF CleanupIsSafe
  <2>3. RowsAreReadable'
    BY <1>1, <1>3, ReadableStays DEF RowsStay, VaultInv, RowsAreReadable
  <2>4. History' BY <1>1, HistoryStays
  <2>5. markers' \subseteq Captures BY <1>3, CleanupTyped
  <2> QED BY <1>1, <1>3, <2>1, <2>2, <2>3, <2>4, <2>5, CleanupTyped, CleanupMoves
          DEF RowsStay
<1> QED BY <1>2, <1>3 DEF PruneMarkers

\* What the rows refer to is read while no save can add a row.
LEMMA ListReferencesVault ==
    ASSUME VaultInv, ListReferences
    PROVE  VaultInv'
<1>1. /\ cleanup.step = "refs" /\ holder = "cleanup" /\ cleanup \in Cleanups
      /\ UNCHANGED <<save, raw, markers, shared>> /\ RowsStay
  BY CleanupTyped DEF ListReferences, FilesStay
<1>2. CASE EndCleanup /\ Fails BY <1>1, <1>2, CleanupEnds
<1>3. CASE /\ cleanup' = [cleanup EXCEPT !.step = "prune", !.known = UNION {index[c] : c \in indexed}]
           /\ Works /\ UNCHANGED holder
  <2> DEFINE known == UNION {index[c] : c \in indexed}
  <2>1. known \in SUBSET Messages /\ \A c \in indexed : index[c] \subseteq known
    BY CleanupTyped
  <2>2. cleanup' = [cleanup EXCEPT !.step = "prune", !.known = known] BY <1>3
  <2> HIDE DEF known
  <2>3. cleanup'.step = "prune" BY ONLY <1>1, <2>2 DEF Cleanups
  <2>4. cleanup'.known = known BY ONLY <1>1, <2>2 DEF Cleanups
  <2>5. cleanup' \in Cleanups BY ONLY <1>1, <2>1, <2>2 DEF Cleanups
  <2>6. CleanupIsSafe' BY <1>1, <2>1, <2>3, <2>4 DEF CleanupIsSafe, RowsStay
  <2>7. RowsAreReadable'
    BY <1>1, ReadableStays DEF RowsStay, VaultInv, RowsAreReadable
  <2>8. History' BY <1>1, HistoryStays
  <2>9. holder' = "cleanup" /\ Works BY <1>1, <1>3
  <2> QED BY <1>1, <2>3, <2>5, <2>6, <2>7, <2>8, <2>9, CleanupTyped, CleanupMoves
          DEF RowsStay
<1> QED BY <1>1, <1>2, <1>3 DEF ListReferences

\* Old messages go unless a row refers to them.
LEMMA PruneSharedVault ==
    ASSUME VaultInv, PruneShared
    PROVE  VaultInv'
<1>1. cleanup.step = "prune" /\ holder = "cleanup" BY CleanupTyped DEF PruneShared
<1>2. \A c \in indexed : index[c] \subseteq cleanup.known
  BY <1>1, CleanupTyped DEF CleanupIsSafe
<1>3. shared' \in [Messages -> {"none", "new", "old"}] BY CleanupTyped DEF PruneShared
<1>4. RowsAreReadable'
  <2>1. \A c \in indexed : index[c] \subseteq Messages BY CleanupTyped
  <2>2. \A c \in indexed : \A m \in index[c] : shared'[m] = shared[m]
    BY <1>2, <2>1, CleanupTyped DEF PruneShared
  <2> QED BY <2>2, CleanupTyped DEF PruneShared, RowsStay, RowsAreReadable
<1>5. cleanup' = NoCleanup /\ cleanup'.step = "idle" /\ holder' = "nobody"
  BY DEF PruneShared, EndCleanup, NoCleanup
<1>6. CleanupIsSafe' BY <1>5 DEF CleanupIsSafe
<1>7. History' BY HistoryStays DEF PruneShared
<1> QED BY <1>1, <1>3, <1>4, <1>5, <1>6, <1>7, CleanupTyped, CleanupMoves
        DEF PruneShared, RowsStay

\* An hour passes: what was young is old.
LEMMA HourPassesVault ==
    ASSUME VaultInv, HourPasses
    PROVE  VaultInv'
<1>1. /\ UNCHANGED <<raw, markers, save, holder, cleanup>> /\ RowsStay /\ Works
      /\ shared' = [m \in Messages |-> IF shared[m] = "new" THEN "old" ELSE shared[m]]
  BY DEF HourPasses
<1>2. /\ shared' \in [Messages -> {"none", "new", "old"}]
      /\ \A m \in Messages : shared'[m] = "none" <=> shared[m] = "none"
  BY <1>1, CleanupTyped
<1>3. RowsAreReadable'
  BY <1>1, <1>2, ReadableStays DEF RowsStay, VaultInv, RowsAreReadable
<1>4. OneHolder' BY <1>1 DEF VaultInv, OneHolder, Locked
<1>5. VaultTypeOK' BY <1>1, <1>2 DEF VaultInv, VaultTypeOK, RowsStay, Works
<1>6. ASSUME NEW c \in Captures PROVE SaveIsSafe(c)'
  <2>1. SaveIsSafe(c) /\ save[c].wants \subseteq Messages
    BY DEF VaultInv, OneHolder, Saves
  <2> QED BY <1>1, <1>2, <2>1 DEF SaveIsSafe, RowsStay, Unreferenced
<1>7. CleanupIsSafe' BY <1>1 DEF VaultInv, CleanupIsSafe, RowsStay, Unreferenced
<1>8. History' BY <1>1, HistoryStays
<1> QED BY <1>3, <1>4, <1>5, <1>6, <1>7, <1>8 DEF VaultInv

\* The process dies: every save and the cleanup end where they are.
LEMMA RestartVaultInv ==
    ASSUME VaultInv, RestartVault
    PROVE  VaultInv'
<1> DEFINE ended == [NoSave EXCEPT !.step = "ended"]
<1>1. /\ Fails /\ raw' = {} /\ holder' = "nobody" /\ cleanup' = NoCleanup
      /\ UNCHANGED <<markers, shared>> /\ RowsStay
  BY DEF RestartVault
<1>2. ended \in Saves /\ ended.step = "ended" BY DEF NoSave, Saves, SaveSteps
<1>3. save \in [Captures -> Saves] BY DEF VaultInv, OneHolder
<1>4. /\ save' \in [Captures -> Saves]
      /\ \A c \in Captures : IF save[c].step = "none" THEN save'[c] = save[c]
                             ELSE save'[c].step = "ended"
  <2> HIDE DEF ended
  <2>1. save' = [c \in Captures |-> IF SaveAt(c, "none") THEN save[c] ELSE ended]
    BY DEF RestartVault, ended
  <2> QED BY <1>2, <1>3, <2>1 DEF SaveAt
<1>5. \A c \in Captures : ~Locked(c)' BY <1>4 DEF Locked
<1>6. NoCleanup \in Cleanups /\ NoCleanup.step = "idle" BY DEF NoCleanup, Cleanups
<1>7. OneHolder' BY <1>1, <1>4, <1>5, <1>6 DEF OneHolder
<1>8. mishaps' \in 0..MaxMishaps BY <1>1, Mishaps
<1>9. \A c \in Captures : save'[c].step \in SaveSteps BY <1>4 DEF Saves
<1>10. VaultTypeOK'
  BY <1>1, <1>5, <1>8, <1>9 DEF VaultInv, VaultTypeOK, RowsStay, Locked
<1>11. RowsAreReadable' BY <1>1, ReadableStays DEF RowsStay, VaultInv, RowsAreReadable
<1>12. ASSUME NEW c \in Captures PROVE SaveIsSafe(c)'
  <2>1. SaveIsSafe(c) BY DEF VaultInv
  <2> QED BY <1>1, <1>4, <2>1 DEF SaveIsSafe, RowsStay
<1>13. CleanupIsSafe' BY <1>1, <1>6 DEF CleanupIsSafe
<1>14. History' BY <1>1, HistoryStays
<1> QED BY <1>7, <1>10, <1>11, <1>12, <1>13, <1>14 DEF VaultInv

\* The captures of the old format are there at the start, with what they refer to.
LEMMA InitVault == ASSUME VaultInit PROVE VaultInv
<1> DEFINE ended == [NoSave EXCEPT !.step = "ended"]
<1>1. /\ raw = {} /\ markers = Legacy /\ indexed = Legacy /\ index = LegacyRefs
      /\ holder = "nobody" /\ cleanup = NoCleanup /\ saved = {} /\ mishaps = 0
  BY DEF VaultInit
<1>2. ended \in Saves /\ NoSave \in Saves /\ ended.step = "ended" /\ NoSave.step = "none"
      /\ NoSave.created = {}
  BY DEF NoSave, Saves, SaveSteps
<1>3. /\ save \in [Captures -> Saves]
      /\ \A c \in Captures : IF c \in Legacy THEN save[c].step = "ended"
                             ELSE save[c].step = "none" /\ save[c].created = {}
  <2> HIDE DEF ended
  <2>1. save = [c \in Captures |-> IF c \in Legacy THEN ended ELSE NoSave]
    BY DEF VaultInit, ended
  <2> QED BY <1>2, <2>1
<1>4. index \in [Captures -> SUBSET Messages]
  <2>1. (CHOOSE m \in Messages : TRUE) \in Messages BY VaultAssumption
  <2> QED BY <1>1, <2>1 DEF LegacyRefs
<1>5. /\ shared \in [Messages -> {"none", "new", "old"}]
      /\ \A c \in Legacy : \A m \in index[c] : shared[m] = "old"
  BY <1>1, <1>4, VaultAssumption DEF VaultInit
<1>6. \A c \in Captures : ~Locked(c) BY <1>3 DEF Locked
<1>7. NoCleanup \in Cleanups /\ NoCleanup.step = "idle" BY DEF NoCleanup, Cleanups
<1>8. OneHolder BY <1>1, <1>3, <1>6, <1>7 DEF OneHolder
<1>9. \A c \in Captures : save[c].step \in SaveSteps BY <1>3 DEF Saves
<1>10. VaultTypeOK
  BY <1>1, <1>4, <1>5, <1>6, <1>9, VaultAssumption DEF VaultTypeOK, Locked
<1>11. RowsAreReadable BY <1>1, <1>5 DEF RowsAreReadable
<1>12. \A c \in Captures : SaveIsSafe(c) BY <1>1, <1>3 DEF SaveIsSafe
<1>13. CleanupIsSafe BY <1>1, <1>7 DEF CleanupIsSafe
<1>14. History BY <1>1, FS_EmptySet DEF History
<1> QED BY <1>8, <1>10, <1>11, <1>12, <1>13, <1>14 DEF VaultInv

\* Every step of the vault keeps its invariant.
LEMMA NextVault == ASSUME VaultInv, [VaultNext]_vaultVars PROVE VaultInv'
<1>1. CASE UNCHANGED vaultVars
  <2>1. UNCHANGED <<raw, markers, shared, index, indexed, save, holder, cleanup, saved, mishaps>>
    BY <1>1 DEF vaultVars
  <2>2. OneHolder' BY <2>1 DEF VaultInv, OneHolder, Locked
  <2>3. VaultTypeOK' BY <2>1 DEF VaultInv, VaultTypeOK
  <2>4. \A c \in Captures : SaveIsSafe(c)' BY <2>1 DEF VaultInv, SaveIsSafe, Unreferenced
  <2>5. RowsAreReadable' /\ CleanupIsSafe'
    BY <2>1 DEF VaultInv, RowsAreReadable, CleanupIsSafe, Unreferenced
  <2>6. History' BY <2>1, HistoryStays DEF RowsStay
  <2> QED BY <2>2, <2>3, <2>4, <2>5, <2>6 DEF VaultInv
<1>2. ASSUME NEW c \in Captures,
             \/ StartCapture(c) \/ CloseRaw(c) \/ LockForSave(c) \/ ReadRaw(c) \/ SaveMarkers(c)
             \/ IndexCapture(c) \/ RetainNewest(c) \/ DropFiles(c)
             \/ \E m \in Messages : SaveShared(c, m)
      PROVE  VaultInv'
  BY <1>2, StartCaptureVault, CloseRawVault, LockForSaveVault, ReadRawVault, SaveMarkersVault,
     IndexCaptureVault, RetainNewestVault, DropFilesVault, SaveSharedVault
<1>3. CASE LockForCleanup \/ DeleteLegacy \/ DropLegacy \/ PruneMarkers \/ ListReferences
           \/ PruneShared
  BY <1>3, LockForCleanupVault, DeleteLegacyVault, DropLegacyVault, PruneMarkersVault,
     ListReferencesVault, PruneSharedVault
<1>4. CASE HourPasses \/ RestartVault BY <1>4, HourPassesVault, RestartVaultInv
<1> QED BY <1>1, <1>2, <1>3, <1>4 DEF VaultNext

\* A row of the index can be read at every moment, and goes only to newer ones: the
\* saves of any number of requests, the cleanup, failures and crashes may interleave
\* as the vault's lock lets them.
THEOREM VaultKeepsCaptures == VaultSpec => []CapturesKept
<1>1. VaultInit => VaultInv BY InitVault
<1>2. VaultInv /\ [VaultNext]_vaultVars => VaultInv' BY NextVault
<1>3. VaultInv => CapturesKept
  <2>1. ASSUME VaultInv PROVE NewestStay
    BY <2>1 DEF VaultInv, History, NewerOfClass, NewestStay, SaveIsSafe, VaultTypeOK
  <2> QED BY <2>1 DEF CapturesKept, VaultInv
<1> QED BY <1>1, <1>2, <1>3, PTL DEF VaultSpec

\* Every save, row and file of the vault keeps its type.
THEOREM VaultTypes == VaultSpec => []VaultTypeOK
<1>1. VaultInit => VaultInv BY InitVault
<1>2. VaultInv /\ [VaultNext]_vaultVars => VaultInv' BY NextVault
<1>3. VaultInv => VaultTypeOK BY DEF VaultInv
<1> QED BY <1>1, <1>2, <1>3, PTL DEF VaultSpec

-----------------------------------------------------------------------------
(* Quotas.                                                                 *)

QuotaRecords == [at : 0..LastClock, quota : Answers, listed : Nat, resets : Nat]

\* The parts of the invariant, and who the workers are.
LEMMA QuotaTyped ==
    ASSUME QuotaInv
    PROVE  /\ LastClock \in Nat /\ clock \in 1..LastClock /\ turns \in Nat
           /\ blocked \in [Accounts -> Nat] /\ provider \in [Accounts -> Answers]
           /\ rows \in [Accounts -> QuotaRecords]
           /\ attempts \in [Antigravity -> 0..LastClock] /\ asked \in [Antigravity -> 0..LastClock]
           /\ work \in [Workers -> WorkRecords]
           /\ "manual" \in Workers /\ "nobody" \notin Workers /\ Visits \subseteq Workers
           /\ "manual" \notin Visits /\ Accounts = Codex \cup Antigravity
           /\ \A w \in Workers : work[w] \in WorkRecords /\ work[w].at \in 0..LastClock
           /\ \A w \in Workers : \A a \in Accounts : work[w].listed[a] \in Nat
           /\ \A a \in Accounts : blocked[a] \in Nat
           /\ pool \in Pools /\ hasty = FALSE
<1>1. QuotaTypes BY DEF QuotaInv
<1>2. work \in [Workers -> WorkRecords] BY <1>1 DEF QuotaTypes
<1>3. \A w \in Workers : work[w] \in WorkRecords BY <1>2
<1>4. \A w \in Workers : work[w].at \in 0..LastClock /\ \A a \in Accounts : work[w].listed[a] \in Nat
  BY <1>3 DEF WorkRecords
<1>5. turns \in Nat BY <1>1, QuotaAssumption DEF QuotaTypes
<1>6. hasty = FALSE BY DEF QuotaInv
<1> QED BY <1>1, <1>2, <1>3, <1>4, <1>5, <1>6, QuotaAssumption
  DEF QuotaTypes, Workers, Accounts, QuotaRecords

\* A worker at rest.
LEMMA RestTyped ==
    /\ Rest \in WorkRecords /\ Rest.step = "idle" /\ ~Asks(Rest)
    /\ \A a \in Accounts : Rest.listed[a] = 0
    /\ NoRow \in QuotaRecords /\ NoRow.listed = 0 /\ NoPool \in Pools
<1>1. Rest = [step |-> "idle", channel |-> Codex, at |-> 0, left |-> {}, file |-> "",
              listed |-> [a \in Accounts |-> 0], got |-> NoAnswer, any |-> FALSE,
              seen |-> {}, pool |-> NoPool]
  BY DEF Rest
<1>2. NoAnswer \in Answers BY DEF NoAnswer, Answers
<1>3. 0 \in 0..LastClock /\ LastClock \in Nat BY QuotaAssumption
<1>4. [a \in Accounts |-> 0] \in [Accounts -> Nat] OBVIOUS
<1>5. Codex \subseteq Accounts BY DEF Accounts
<1>6. NoPool \in Pools BY DEF NoPool, Pools
<1>7. Rest \in WorkRecords BY <1>1, <1>2, <1>3, <1>4, <1>5, <1>6 DEF WorkRecords
<1>8. NoRow \in QuotaRecords /\ NoRow.listed = 0 BY <1>2, <1>3 DEF NoRow, QuotaRecords
<1>9. Rest.step = "idle" /\ ~Asks(Rest) /\ \A a \in Accounts : Rest.listed[a] = 0 BY <1>1 DEF Asks
<1> QED BY <1>6, <1>7, <1>8, <1>9

\* What a page brings to the cache, when it has a summary of the accounts.
LEMMA StoreTyped ==
    ASSUME NEW p \in Pools
    PROVE  \E x \in WorkRecords : /\ x = [Rest EXCEPT !.step = "store", !.pool = p]
                                  /\ x.step = "store" /\ \A a \in Accounts : x.listed[a] = 0
<1>1. PICK x : x = [Rest EXCEPT !.step = "store", !.pool = p] OBVIOUS
<1>2. x \in WorkRecords /\ x.step = "store" /\ x.listed = Rest.listed
  BY <1>1, RestTyped DEF WorkRecords
<1> QED BY <1>1, <1>2, RestTyped

\* Only one worker moves, and cooldowns are only lifted.
LEMMA OneWorks ==
    ASSUME QuotaInv, NEW w \in Workers, NEW x \in WorkRecords,
           work' = [work EXCEPT ![w] = x], UNCHANGED turns,
           \A a \in Accounts : blocked'[a] \in {0, blocked[a]},
           mutex' = mutex \/ mutex = "nobody" \/ mutex = w, asked' = asked \/ mutex = w,
           WorkerOK(w, x)'
    PROVE  /\ work' \in [Workers -> WorkRecords] /\ work'[w] = x
           /\ \A u \in Workers : WorkerOK(u, work[u])'
<1>1. work \in [Workers -> WorkRecords] BY QuotaTyped
<1>2. work' \in [Workers -> WorkRecords] /\ work'[w] = x /\ \A u \in Workers \ {w} : work'[u] = work[u]
  BY <1>1
<1>3. ASSUME NEW u \in Workers, u # w PROVE WorkerOK(u, work[u])'
  <2>1. WorkerOK(u, work[u]) /\ work'[u] = work[u] BY <1>2, <1>3 DEF QuotaInv
  <2>2. HoldsMutex(u, work[u]) => mutex' = u /\ asked' = asked
    BY <1>3, <2>1, QuotaTyped DEF WorkerOK
  <2>3. work[u].step = "put" => Lifted(work[u].file, work[u].got, work[u].listed[work[u].file])'
    <3> SUFFICES ASSUME work[u].step = "put", work[u].file \in Codex, work[u].got.allowed,
                        work[u].listed[work[u].file] # 0
                 PROVE  blocked'[work[u].file] # work[u].listed[work[u].file]
      BY <2>1 DEF Lifted
    <3>1. blocked[work[u].file] # work[u].listed[work[u].file] BY <2>1 DEF WorkerOK, Lifted
    <3>2. work[u].file \in Accounts BY DEF Accounts
    <3> QED BY <3>1, <3>2
  <2> QED BY <2>1, <2>2, <2>3 DEF WorkerOK, HoldsMutex, Asks
<1>4. WorkerOK(w, work[w])'
  <2>1. x = work'[w] BY <1>2
  <2> QED BY <2>1 DEF WorkerOK, HoldsMutex, Asks, Lifted
<1> QED BY <1>2, <1>3, <1>4

\* Rows are dropped or stored, and cooldowns are only lifted.
LEMMA RowsMove ==
    ASSUME QuotaInv, UNCHANGED turns,
           \A a \in Accounts : blocked'[a] \in {0, blocked[a]},
           rows' \in [Accounts -> QuotaRecords],
           \A a \in Accounts : \/ rows'[a] \in {rows[a], NoRow}
                               \/ /\ rows'[a].listed <= turns + 1
                                  /\ Lifted(a, rows[a].quota, rows[a].listed)'
    PROVE  Numbers' /\ \A a \in Accounts : Lifted(a, rows[a].quota, rows[a].listed)'
<1>1. ASSUME NEW a \in Accounts
      PROVE  /\ blocked'[a] <= turns + 1 /\ rows'[a].listed <= turns + 1
             /\ Lifted(a, rows[a].quota, rows[a].listed)'
  <2>1. blocked[a] <= turns + 1 /\ rows[a].listed <= turns + 1 /\ Lifted(a, rows[a].quota, rows[a].listed)
    BY DEF QuotaInv, Numbers
  <2>2. turns \in Nat /\ blocked[a] \in Nat BY QuotaTyped
  <2>3. CASE rows'[a] = NoRow BY <2>1, <2>2, <2>3, RestTyped DEF Lifted
  <2>4. CASE rows'[a] = rows[a] BY <2>1, <2>2, <2>4 DEF Lifted
  <2> QED BY <2>1, <2>2, <2>3, <2>4
<1> QED BY <1>1 DEF Numbers

\* A step of one worker, as far as the invariant looks at it.
LEMMA QuotaMoves ==
    ASSUME QuotaInv, NEW w \in Workers, NEW x \in WorkRecords,
           work' = [work EXCEPT ![w] = x], UNCHANGED <<clock, provider, turns, disabled>>,
           blocked' \in [Accounts -> Nat], \A a \in Accounts : blocked'[a] \in {0, blocked[a]},
           mutex' \in Workers \cup {"nobody"}, mutex' = mutex \/ mutex = "nobody" \/ mutex = w,
           asked' = asked \/ mutex = w, WorkerOK(w, x)',
           rows' \in [Accounts -> QuotaRecords],
           \A a \in Accounts : \/ rows'[a] \in {rows[a], NoRow}
                               \/ /\ rows'[a].listed <= turns + 1
                                  /\ Lifted(a, rows[a].quota, rows[a].listed)',
           attempts' \in [Antigravity -> 0..LastClock], asked' \in [Antigravity -> 0..LastClock],
           AttemptsNoted', pool' \in Pools, hasty' = FALSE,
           \/ UNCHANGED refresh /\ (w = "manual" => (x.step = "idle" <=> work[w].step = "idle"))
           \/ w = "manual" /\ x.step = "idle" /\ Finished
    PROVE  QuotaInv'
<1>1. /\ work' \in [Workers -> WorkRecords] /\ work'[w] = x
      /\ \A u \in Workers : WorkerOK(u, work[u])'
  BY OneWorks
<1>2. Numbers' /\ \A a \in Accounts : Lifted(a, rows[a].quota, rows[a].listed)'
  BY RowsMove
<1>3. refresh \in [running : BOOLEAN, next : Nat] BY DEF QuotaInv, QuotaTypes
<1>4. /\ refresh' \in [running : BOOLEAN, next : Nat]
      /\ refresh'.running <=> work'["manual"].step # "idle"
  <2>1. refresh.running <=> work["manual"].step # "idle" BY DEF QuotaInv
  <2>2. \A u \in Workers : u # w => work'[u] = work[u] BY QuotaTyped
  <2>3. CASE UNCHANGED refresh /\ (w = "manual" => (x.step = "idle" <=> work[w].step = "idle"))
    BY <1>1, <1>3, <2>1, <2>2, <2>3, QuotaTyped
  <2>4. CASE w = "manual" /\ x.step = "idle" /\ Finished
    <3>1. refresh' = [refresh EXCEPT !.running = FALSE] BY <2>4 DEF Finished
    <3>2. refresh' \in [running : BOOLEAN, next : Nat] /\ refresh'.running = FALSE BY <1>3, <3>1
    <3> QED BY <1>1, <2>4, <3>2
  <2> QED BY <2>3, <2>4
<1>5. QuotaTypes' BY <1>1, <1>4 DEF QuotaInv, QuotaTypes, QuotaRecords
<1> QED BY <1>1, <1>2, <1>4, <1>5 DEF QuotaInv

\* What is asked is noted by the one who asked.
LEMMA NotedStays ==
    ASSUME QuotaInv, NEW w \in Workers, NEW x \in WorkRecords, UNCHANGED <<asked, attempts>>,
           work' = [work EXCEPT ![w] = x], mutex' = mutex \/ mutex = "nobody" \/ mutex = w,
           mutex = w /\ Asks(work[w]) => mutex' = w /\ Asks(x) /\ x.file = work[w].file
    PROVE  AttemptsNoted'
<1>1. work'[w] = x /\ \A u \in Workers : u # w => work'[u] = work[u] BY QuotaTyped
<1> SUFFICES ASSUME NEW a \in Antigravity, ~(asked[a] <= attempts[a])
             PROVE  \E u \in Workers : mutex' = u /\ Asks(work'[u]) /\ work'[u].file = a
  BY DEF AttemptsNoted, Asks
<1>2. PICK u \in Workers : mutex = u /\ Asks(work[u]) /\ work[u].file = a
  BY DEF QuotaInv, AttemptsNoted
<1>3. CASE u = w BY <1>1, <1>2, <1>3
<1>4. CASE u # w BY <1>1, <1>2, <1>4, QuotaTyped
<1> QED BY <1>3, <1>4

\* Nothing but a worker, the lock and the pool move.
LEMMA WorkMoves ==
    ASSUME QuotaInv, NEW w \in Workers, NEW x \in WorkRecords, WorkerKeeps, UNCHANGED <<rows, attempts>>,
           work' = [work EXCEPT ![w] = x], WorkerOK(w, x)',
           mutex' \in Workers \cup {"nobody"}, mutex' = mutex \/ mutex = "nobody" \/ mutex = w,
           mutex = w /\ Asks(work[w]) => mutex' = w /\ Asks(x) /\ x.file = work[w].file,
           pool' \in Pools,
           w = "manual" => (x.step = "idle" <=> work[w].step = "idle")
    PROVE  QuotaInv'
<1>1. UNCHANGED <<clock, provider, turns, blocked, disabled, refresh, asked>> /\ hasty' = FALSE
  BY QuotaTyped DEF WorkerKeeps, World
<1>2. AttemptsNoted' BY <1>1, NotedStays
<1>3. /\ \A a \in Accounts : blocked'[a] \in {0, blocked[a]} /\ rows'[a] \in {rows[a], NoRow}
      /\ blocked' \in [Accounts -> Nat]
      /\ rows' \in [Accounts -> QuotaRecords]
      /\ attempts' \in [Antigravity -> 0..LastClock] /\ asked' \in [Antigravity -> 0..LastClock]
  BY <1>1, QuotaTyped
<1> QED BY <1>1, <1>2, <1>3, QuotaMoves

\* The work of one worker, changed in some fields.
LEMMA WorkerTyped ==
    ASSUME QuotaInv, NEW w \in Workers
    PROVE  /\ work \in [Workers -> WorkRecords] /\ WorkerOK(w, work[w])
           /\ work[w] \in WorkRecords /\ work[w].listed \in [Accounts -> Nat]
           /\ work[w].channel \subseteq Accounts /\ work[w].at \in 0..LastClock
           /\ work[w].left \subseteq Accounts /\ work[w].file \in Accounts \cup {""}
           /\ work[w].got \in Answers /\ work[w].any \in BOOLEAN
           /\ work[w].seen \subseteq Accounts /\ work[w].pool \in Pools
<1>1. work[w] \in WorkRecords BY QuotaTyped
<1> QED BY <1>1, QuotaTyped DEF QuotaInv, WorkRecords

\* Time passes.
LEMMA PassTimeInv ==
    ASSUME QuotaInv, PassTime
    PROVE  QuotaInv'
<1>1. /\ clock < LastClock /\ clock' = clock + 1
      /\ UNCHANGED <<provider, turns, blocked, disabled, rows, attempts, pool, refresh, mutex, work,
                   asked, hasty>>
  BY DEF PassTime, Caches
<1>2. clock' \in 1..LastClock BY <1>1, QuotaTyped
<1>3. QuotaTypes' BY <1>1, <1>2 DEF QuotaInv, QuotaTypes
<1> QED BY <1>1, <1>3 DEF QuotaInv, Numbers, Lifted, AttemptsNoted, WorkerOK, HoldsMutex, Asks

\* A new cooldown has a number that nobody has seen.
LEMMA ProviderTurnsInv ==
    ASSUME QuotaInv, NEW b \in Accounts, ProviderTurns(b)
    PROVE  QuotaInv'
<1>1. /\ turns < MaxTurns /\ turns' = turns + 1
      /\ \E q \in Answers : provider' = [provider EXCEPT ![b] = q]
      /\ blocked' = blocked \/ blocked' = [blocked EXCEPT ![b] = turns + 2]
      /\ UNCHANGED <<clock, disabled, rows, attempts, pool, refresh, mutex, work, asked, hasty>>
  BY DEF ProviderTurns, Caches
<1>2. turns \in Nat /\ blocked \in [Accounts -> Nat] /\ turns \in 0..MaxTurns /\ MaxTurns \in Nat
  BY QuotaTyped, QuotaAssumption DEF QuotaInv, QuotaTypes
<1>3. provider' \in [Accounts -> Answers] BY <1>1, QuotaTyped
<1>4. blocked' \in [Accounts -> Nat] /\ \A a \in Accounts : blocked'[a] \in {blocked[a], turns + 2}
  BY <1>1, <1>2
<1>5. turns' \in 0..MaxTurns BY <1>1, <1>2
<1>6. QuotaTypes' BY <1>1, <1>3, <1>4, <1>5 DEF QuotaInv, QuotaTypes
<1>7. ASSUME NEW a \in Accounts
      PROVE  /\ blocked'[a] <= turns' + 1 /\ rows'[a].listed <= turns' + 1
             /\ Lifted(a, rows[a].quota, rows[a].listed)'
  <2>1. blocked[a] <= turns + 1 /\ rows[a].listed <= turns + 1 /\ Lifted(a, rows[a].quota, rows[a].listed)
    BY DEF QuotaInv, Numbers
  <2>2. rows[a].listed \in Nat BY QuotaTyped DEF QuotaRecords
  <2> QED BY <1>1, <1>2, <1>4, <2>1, <2>2 DEF Lifted
<1>8. ASSUME NEW w \in Workers PROVE WorkerOK(w, work[w])'
  <2>1. WorkerOK(w, work[w]) /\ work'[w] = work[w] /\ mutex' = mutex BY <1>1, WorkerTyped
  <2>2. \A a \in Accounts : work[w].listed[a] \in Nat /\ work[w].listed[a] <= turns + 1
    BY <2>1, QuotaTyped DEF WorkerOK
  <2>3. \A a \in Accounts : work[w].listed[a] <= turns' + 1 /\ work[w].listed[a] # turns + 2
    BY <1>1, <1>2, <2>2
  <2>4. work[w].step = "put" => Lifted(work[w].file, work[w].got, work[w].listed[work[w].file])'
    BY <1>1, <1>4, <2>1, <2>3 DEF WorkerOK, Asks, Lifted
  <2> QED BY <1>1, <2>1, <2>3, <2>4 DEF WorkerOK, HoldsMutex, Asks
<1>9. AttemptsNoted' BY <1>1 DEF QuotaInv, AttemptsNoted, Asks
<1>10. Numbers' BY <1>7 DEF Numbers
<1> QED BY <1>1, <1>6, <1>7, <1>8, <1>9, <1>10 DEF QuotaInv

\* The refresh begins to wait for the lock.
LEMMA StartRefreshInv ==
    ASSUME QuotaInv, StartRefresh
    PROVE  QuotaInv'
<1>0. PICK w, x : w = "manual" /\ x = [work[w] EXCEPT !.step = "lock"] OBVIOUS
<1>1. /\ ~refresh.running /\ refresh'.running = TRUE
      /\ work' = [work EXCEPT ![w] = x]
      /\ UNCHANGED <<clock, provider, turns, blocked, disabled, rows, attempts, pool, mutex,
                      asked, hasty>>
  BY <1>0 DEF StartRefresh, WorkStep, World, Caches
<1>2. w \in Workers BY <1>0, QuotaTyped
<1>3. x \in WorkRecords /\ x.step = "lock" /\ x.listed = work[w].listed
  BY ZenonT(60), <1>0, <1>2, WorkerTyped DEF WorkRecords
<1>4. work[w].step = "idle" BY <1>0, <1>1 DEF QuotaInv
<1>5. WorkerOK(w, x)' BY <1>1, <1>2, <1>3, WorkerTyped DEF WorkerOK, HoldsMutex, Asks
<1>6. \A a \in Accounts : blocked'[a] \in {0, blocked[a]} BY <1>1
<1>7. /\ work' \in [Workers -> WorkRecords] /\ work'[w] = x
      /\ \A u \in Workers : WorkerOK(u, work[u])'
  BY <1>1, <1>2, <1>3, <1>5, <1>6, OneWorks
<1>8. \A u \in Workers : u # w => work'[u] = work[u] BY <1>1, QuotaTyped
<1>9. AttemptsNoted'
  <2>1. ~Asks(work[w]) BY <1>4 DEF Asks
  <2> QED BY <1>1, <1>8, <2>1 DEF QuotaInv, AttemptsNoted, Asks
<1>10. QuotaTypes'
  <2>1. /\ refresh' = [running |-> TRUE, next |-> clock + Pause] /\ clock \in Nat /\ Pause \in Nat
    BY QuotaTyped, QuotaAssumption DEF StartRefresh
  <2>2. refresh' \in [running : BOOLEAN, next : Nat] BY <2>1
  <2> QED BY <1>1, <1>7, <2>2 DEF QuotaInv, QuotaTypes
<1>11. Numbers' /\ \A a \in Accounts : Lifted(a, rows[a].quota, rows[a].listed)'
  BY <1>1 DEF QuotaInv, Numbers, Lifted
<1> QED BY <1>0, <1>1, <1>3, <1>7, <1>9, <1>10, <1>11 DEF QuotaInv

\* What a list of the accounts leaves a worker with.
LEMMA ListedTyped ==
    ASSUME QuotaInv, NEW w \in Workers, NEW channel, NEW step \in {"lock", "next"},
           channel \subseteq Accounts, Listed(w, channel, step)
    PROVE  \E x \in WorkRecords : /\ work' = [work EXCEPT ![w] = x] /\ x.step = step
                                  /\ \A a \in Accounts : x.listed[a] <= turns + 1
<1> DEFINE on == channel \ disabled
           numbers == [a \in Accounts |-> IF a \in on THEN blocked[a] ELSE 0]
<1>1. PICK x, page : /\ page = work[w].channel
                     /\ x = [Rest EXCEPT !.step = step, !.channel = page, !.at = clock, !.left = on,
                                         !.listed = numbers, !.seen = on]
  OBVIOUS
<1>2. work' = [work EXCEPT ![w] = x] BY <1>1 DEF Listed
<1>3. numbers \in [Accounts -> Nat] /\ \A a \in Accounts : numbers[a] <= turns + 1
  <2>1. \A a \in Accounts : blocked[a] <= turns + 1 BY DEF QuotaInv, Numbers
  <2>2. turns \in Nat /\ \A a \in Accounts : blocked[a] \in Nat BY QuotaTyped
  <2>3. ASSUME NEW a \in Accounts PROVE numbers[a] \in Nat /\ numbers[a] <= turns + 1
    BY <2>1, <2>2
  <2> QED BY <2>3
<1>4. on \subseteq Accounts /\ clock \in 0..LastClock /\ page \subseteq Accounts
  <2>1. page \subseteq Accounts BY <1>1, WorkerTyped
  <2>2. clock \in 0..LastClock BY QuotaTyped
  <2> QED BY <2>1, <2>2
<1> HIDE DEF on, numbers
<1>5. x \in WorkRecords /\ x.step = step /\ x.listed = numbers
  BY <1>1, <1>3, <1>4, RestTyped DEF WorkRecords
<1> QED BY <1>2, <1>3, <1>5

\* A step after which a worker neither asks nor holds the lock is as good.
LEMMA WorkerIdles ==
    ASSUME QuotaInv, NEW w \in Workers, NEW x \in WorkRecords, ~Asks(x),
           HoldsMutex(w, x) => mutex' = w, UNCHANGED turns,
           \A a \in Accounts : x.listed[a] <= turns + 1
    PROVE  WorkerOK(w, x)'
BY DEF WorkerOK, HoldsMutex, Asks

\* A page opens, lists, waits for the lock.
LEMMA PagesMove ==
    ASSUME QuotaInv, NEW v \in Visits, OpenPool(v) \/ OpenAntigravity(v) \/ ListForPage(v)
    PROVE  QuotaInv'
<1> DEFINE PageSteps == {"idle", "list", "lock", "store"}
<1>1. /\ v \in Workers /\ v # "manual" /\ turns \in Nat /\ WorkerKeeps
      /\ UNCHANGED <<rows, attempts, mutex>> /\ work[v].step \in {"idle", "list"}
  BY QuotaTyped DEF OpenPool, OpenAntigravity, ListForPage, Caches
<1>2. pool' \in Pools
  BY RestTyped, QuotaTyped DEF OpenPool, OpenAntigravity, ListForPage, Caches
<1>3. \E x \in WorkRecords : /\ work' = [work EXCEPT ![v] = x] /\ x.step \in PageSteps
                             /\ \A a \in Accounts : x.listed[a] <= turns + 1
  <2>1. ASSUME NEW x \in WorkRecords, work' = [work EXCEPT ![v] = x], x.step \in PageSteps,
               \A a \in Accounts : x.listed[a] = 0
        PROVE  \A a \in Accounts : x.listed[a] <= turns + 1
    BY <1>1, <2>1
  <2>2. ASSUME NEW channel \in SUBSET Accounts,
               work' = [work EXCEPT ![v].step = "list", ![v].channel = channel]
        PROVE  \E x \in WorkRecords : /\ work' = [work EXCEPT ![v] = x] /\ x.step = "list"
                                      /\ \A a \in Accounts : x.listed[a] <= turns + 1
    <3>1. PICK x : x = [work[v] EXCEPT !.step = "list", !.channel = channel] OBVIOUS
    <3>2. x \in WorkRecords /\ x.step = "list" /\ x.listed = work[v].listed
      BY ZenonT(60), <1>1, <3>1, WorkerTyped DEF WorkRecords
    <3>3. \A a \in Accounts : x.listed[a] <= turns + 1 BY <1>1, <3>2, WorkerTyped DEF WorkerOK
    <3>4. work' = [work EXCEPT ![v] = x] BY <1>1, <2>2, <3>1, QuotaTyped
    <3> QED BY <3>2, <3>3, <3>4
  <2>3. CASE WorkDone(v)
    <3>1. work' = [work EXCEPT ![v] = Rest] /\ Rest.step \in PageSteps BY <2>3, RestTyped DEF WorkDone
    <3> QED BY <2>1, <3>1, RestTyped
  <2>4. CASE OpenPool(v) /\ WorkStep(v, "list")
    <3>1. work' = [work EXCEPT ![v].step = "list", ![v].channel = work[v].channel]
      BY <1>1, <2>4, WorkerTyped DEF WorkStep, WorkRecords
    <3> QED BY <1>1, <2>2, <3>1, WorkerTyped
  <2>5. CASE OpenAntigravity(v)
    <3>1. Antigravity \subseteq Accounts BY DEF Accounts
    <3> QED BY <2>2, <2>5, <3>1 DEF OpenAntigravity
  <2>6. CASE Listed(v, work[v].channel, "lock")
    <3>1. PICK page : page = work[v].channel OBVIOUS
    <3>2. page \subseteq Accounts /\ Listed(v, page, "lock") BY <1>1, <2>6, <3>1, WorkerTyped
    <3> QED BY <1>1, <3>2, ListedTyped
  <2>7. CASE work' = [work EXCEPT ![v] = [Rest EXCEPT !.step = "store"]]
    <3>1. PICK x : x = [Rest EXCEPT !.step = "store"] OBVIOUS
    <3>2. x \in WorkRecords /\ x.step = "store" /\ x.listed = Rest.listed
      BY <3>1, RestTyped DEF WorkRecords
    <3>3. work' = [work EXCEPT ![v] = x] BY <2>7, <3>1
    <3> QED BY <2>1, <3>2, <3>3, RestTyped
  <2> QED BY <2>3, <2>4, <2>5, <2>6, <2>7 DEF OpenPool, ListForPage
<1>4. PICK x \in WorkRecords : /\ work' = [work EXCEPT ![v] = x] /\ x.step \in PageSteps
                               /\ \A a \in Accounts : x.listed[a] <= turns + 1
  BY <1>3
<1>5. ~Asks(x) /\ ~HoldsMutex(v, x) /\ ~Asks(work[v]) BY <1>1, <1>4 DEF Asks, HoldsMutex
<1>6. UNCHANGED turns BY <1>1 DEF WorkerKeeps, World
<1>7. WorkerOK(v, x)' BY <1>1, <1>4, <1>5, <1>6, WorkerIdles
<1>8. mutex' \in Workers \cup {"nobody"} BY <1>1 DEF QuotaInv, QuotaTypes
<1> QED BY <1>1, <1>2, <1>4, <1>5, <1>7, <1>8, WorkMoves

\* A worker takes the lock.
LEMMA LockInv ==
    ASSUME QuotaInv, NEW w \in Workers, Lock(w)
    PROVE  QuotaInv'
<1>0. PICK x, step, at : /\ step = (IF w = "manual" THEN "list" ELSE "next")
                         /\ at = (IF work[w].channel = Antigravity THEN clock ELSE work[w].at)
                         /\ x = [work[w] EXCEPT !.step = step, !.at = at]
  OBVIOUS
<1>1. /\ work[w].step = "lock" /\ mutex = "nobody" /\ mutex' = w
      /\ work' = [work EXCEPT ![w].step = step, ![w].at = IF work[w].channel = Antigravity THEN clock ELSE @]
      /\ WorkerKeeps /\ UNCHANGED <<rows, attempts, pool>>
  BY <1>0 DEF Lock, Caches
<1>2. work' = [work EXCEPT ![w] = x] BY <1>0, <1>1, QuotaTyped
<1>3. at \in 0..LastClock /\ step \in {"list", "next"} BY <1>0, QuotaTyped
<1>4. x \in WorkRecords /\ x.step = step /\ x.listed = work[w].listed
  BY ZenonT(60), <1>0, <1>3, WorkerTyped DEF WorkRecords
<1>5. ~Asks(x) BY <1>3, <1>4 DEF Asks
<1>6. \A a \in Accounts : x.listed[a] <= turns + 1 BY <1>4, WorkerTyped DEF WorkerOK
<1>7. UNCHANGED turns BY <1>1 DEF WorkerKeeps, World
<1>8. WorkerOK(w, x)' BY <1>1, <1>4, <1>5, <1>6, <1>7, WorkerIdles
<1>9. ~Asks(work[w]) BY <1>1 DEF Asks
<1>10. pool' \in Pools BY <1>1, QuotaTyped
<1> QED BY <1>1, <1>2, <1>3, <1>4, <1>8, <1>9, <1>10, WorkMoves

\* A page leaves out an account, or is done with them.
LEMMA PagesEnd ==
    ASSUME QuotaInv, NEW v \in Visits, NEW a, SkipFresh(v, a) \/ EndFetch(v)
    PROVE  QuotaInv'
<1>1. /\ v \in Workers /\ v # "manual" /\ WorkerKeeps /\ work[v].step = "next" /\ turns \in Nat
      /\ UNCHANGED <<rows, attempts>> /\ mutex' \in {mutex, "nobody"} /\ mutex = v
  <2>1. v \in Workers /\ v # "manual" /\ turns \in Nat BY QuotaTyped
  <2>2. /\ WorkerKeeps /\ work[v].step = "next" /\ UNCHANGED <<rows, attempts>>
        /\ mutex' \in {mutex, "nobody"}
    BY DEF SkipFresh, EndFetch, Caches
  <2>3. mutex = v BY <2>1, <2>2, WorkerTyped DEF WorkerOK, HoldsMutex
  <2> QED BY <2>1, <2>2, <2>3
<1>2. pool' \in Pools
  <2>1. pool' \in {pool, NoPool} BY DEF SkipFresh, EndFetch, Caches
  <2> QED BY <2>1, RestTyped, QuotaTyped
<1>3. \E x \in WorkRecords : /\ work' = [work EXCEPT ![v] = x] /\ ~Asks(x)
                             /\ HoldsMutex(v, x) => mutex' = v
                             /\ \A b \in Accounts : x.listed[b] <= turns + 1
  <2>0. \A b \in Accounts : work[v].listed[b] <= turns + 1 BY <1>1, WorkerTyped DEF WorkerOK
  <2>1. CASE SkipFresh(v, a)
    <3>1. PICK x, left : left = work[v].left \ {a} /\ x = [work[v] EXCEPT !.left = left] OBVIOUS
    <3>2. x \in WorkRecords /\ x.step = "next" /\ x.listed = work[v].listed
      BY ZenonT(60), <1>1, <3>1, WorkerTyped DEF WorkRecords
    <3>3. work' = [work EXCEPT ![v] = x] /\ mutex' = mutex BY <2>1, <3>1 DEF SkipFresh
    <3>4. ~Asks(x) BY <3>2 DEF Asks
    <3> QED BY <1>1, <2>0, <3>2, <3>3, <3>4
  <2>2. CASE EndFetch(v) /\ WorkDone(v)
    <3>1. PICK x : x = Rest OBVIOUS
    <3>2. x \in WorkRecords /\ x.step = "idle" /\ \A b \in Accounts : x.listed[b] = 0
      BY <3>1, RestTyped
    <3>3. work' = [work EXCEPT ![v] = x] BY <2>2, <3>1 DEF WorkDone
    <3>4. \A b \in Accounts : x.listed[b] <= turns + 1 BY <1>1, <3>2
    <3>5. ~Asks(x) /\ ~HoldsMutex(v, x) BY <1>1, <3>2 DEF Asks, HoldsMutex
    <3> QED BY <3>2, <3>3, <3>4, <3>5
  <2>3. CASE EndFetch(v) /\ WorkStep(v, "sum")
    <3>1. PICK x : x = [work[v] EXCEPT !.step = "sum"] OBVIOUS
    <3>2. x \in WorkRecords /\ x.step = "sum" /\ x.listed = work[v].listed
      BY ZenonT(60), <1>1, <3>1, WorkerTyped DEF WorkRecords
    <3>3. work' = [work EXCEPT ![v] = x] BY <2>3, <3>1 DEF WorkStep
    <3>5. ~Asks(x) /\ ~HoldsMutex(v, x) BY <1>1, <3>2 DEF Asks, HoldsMutex
    <3> QED BY <2>0, <3>2, <3>3, <3>5
  <2> QED BY <2>1, <2>2, <2>3 DEF EndFetch
<1>4. PICK x \in WorkRecords : /\ work' = [work EXCEPT ![v] = x] /\ ~Asks(x)
                               /\ HoldsMutex(v, x) => mutex' = v
                               /\ \A b \in Accounts : x.listed[b] <= turns + 1
  BY <1>3
<1>5. UNCHANGED turns BY <1>1 DEF WorkerKeeps, World
<1>6. WorkerOK(v, x)' BY <1>1, <1>4, <1>5, WorkerIdles
<1>7. mutex' \in Workers \cup {"nobody"} BY <1>1
<1>8. ~Asks(work[v]) BY <1>1 DEF Asks
<1> QED BY <1>1, <1>2, <1>4, <1>6, <1>7, <1>8, WorkMoves

\* The answer comes; one that lifts a cooldown is not put before the reset.
LEMMA ProviderAnswersInv ==
    ASSUME QuotaInv, NEW w \in Workers, ProviderAnswers(w)
    PROVE  QuotaInv'
<1>0. PICK x, a, step, got :
          /\ a = work[w].file /\ got = provider[a]
          /\ step = (IF a \in Codex /\ Blocked(w) /\ provider[a].allowed THEN "reset" ELSE "put")
          /\ x = [work[w] EXCEPT !.got = got, !.step = step]
  BY ZenonT(60)
<1>1. /\ work[w].step = "asked" /\ work' = [work EXCEPT ![w].got = got, ![w].step = step]
      /\ WorkerKeeps /\ UNCHANGED <<rows, attempts, pool, mutex>>
  BY <1>0 DEF ProviderAnswers, Caches
<1>2. work' = [work EXCEPT ![w] = x] BY <1>0, <1>1, QuotaTyped
<1>3. Asks(work[w]) /\ mutex = w /\ a \in Accounts
  <2>1. Asks(work[w]) BY <1>1 DEF Asks
  <2> QED BY <1>0, <2>1, WorkerTyped DEF WorkerOK, HoldsMutex
<1>4. got \in Answers /\ step \in {"reset", "put"} BY <1>0, <1>3, QuotaTyped
<1>5. /\ x \in WorkRecords /\ x.step = step /\ x.listed = work[w].listed /\ x.file = a /\ x.at = work[w].at
      /\ x.got = got
  BY ZenonT(60), <1>0, <1>4, WorkerTyped DEF WorkRecords
<1>6. UNCHANGED <<turns, blocked, asked>> BY <1>1 DEF WorkerKeeps, World
<1>7. WorkerOK(w, x)'
  <2>1. x.step = "put" => Lifted(x.file, x.got, x.listed[x.file])'
    BY <1>0, <1>5 DEF Lifted, Blocked
  <2>2. \A b \in Accounts : x.listed[b] <= turns' + 1 BY <1>5, <1>6, WorkerTyped DEF WorkerOK
  <2>3. a \in Antigravity => asked[a] <= x.at BY <1>0, <1>3, <1>5, WorkerTyped DEF WorkerOK
  <2> QED BY <1>1, <1>3, <1>5, <1>6, <2>1, <2>2, <2>3 DEF WorkerOK
<1>8. Asks(x) BY <1>4, <1>5 DEF Asks
<1>9. pool' \in Pools /\ mutex' \in Workers \cup {"nobody"} BY <1>1, <1>3, QuotaTyped
<1>10. x.step # "idle" /\ work[w].step # "idle" BY <1>1, <1>4, <1>5
<1> QED BY <1>0, <1>1, <1>2, <1>3, <1>5, <1>7, <1>8, <1>9, <1>10, WorkMoves

\* Who asks for an account holds the lock, and its attempt is not noted yet; every
\* earlier one is, and a page has looked at it.
LEMMA AskInv ==
    ASSUME QuotaInv, NEW w \in Workers, NEW a \in Accounts, Ask(w, a)
    PROVE  QuotaInv'
<1>0. PICK x, left, at :
          /\ left = work[w].left \ {a} /\ at = (IF w = "manual" THEN clock ELSE work[w].at)
          /\ x = [work[w] EXCEPT !.step = "asked", !.file = a, !.left = left, !.at = at]
  OBVIOUS
<1>1. /\ work[w].step = "next"
      /\ work' = [work EXCEPT ![w].step = "asked", ![w].file = a, ![w].left = @ \ {a},
                             ![w].at = IF w = "manual" THEN clock ELSE @]
      /\ asked' = IF a \in Antigravity THEN [asked EXCEPT ![a] = work'[w].at] ELSE asked
      /\ \/ hasty' = hasty
         \/ /\ a \in Antigravity
            /\ hasty' = (hasty \/ (w \in Visits /\ asked[a] # 0 /\ work[w].at < asked[a] + Minute))
      /\ w \in Visits => ~Waits(a, work[w].at)
      /\ UNCHANGED <<clock, provider, turns, disabled, rows, attempts, pool, blocked, refresh, mutex>>
  BY DEF Ask, World, Caches
<1>2. work' = [work EXCEPT ![w] = x] BY <1>0, <1>1, QuotaTyped
<1>3. ~Asks(work[w]) /\ mutex = w
  <2>1. ~Asks(work[w]) /\ HoldsMutex(w, work[w]) BY <1>1 DEF Asks, HoldsMutex
  <2> QED BY <2>1, WorkerTyped DEF WorkerOK
<1>4. left \subseteq Accounts /\ at \in 0..LastClock
  <2>1. work[w].left \subseteq Accounts /\ work[w].at \in 0..LastClock BY WorkerTyped
  <2>2. clock \in 0..LastClock BY QuotaTyped
  <2> QED BY <1>0, <2>1, <2>2
<1>5. /\ x \in WorkRecords /\ x.step = "asked" /\ x.listed = work[w].listed /\ x.file = a /\ x.at = at
  <2>1. work[w] \in WorkRecords BY WorkerTyped
  <2> QED BY <1>0, <1>4, <2>1, ZenonT(60) DEF WorkRecords
<1>7. work'[w] = x /\ Asks(x) BY <1>2, <1>5, QuotaTyped DEF Asks
<1>8. /\ asked' \in [Antigravity -> 0..LastClock]
      /\ \A b \in Antigravity : asked'[b] = IF b = a THEN at ELSE asked[b]
  <2>1. work'[w].at = at BY <1>5, <1>7
  <2>2. asked \in [Antigravity -> 0..LastClock] BY QuotaTyped
  <2>3. CASE a \in Antigravity
    <3>1. asked' = [asked EXCEPT ![a] = work'[w].at] BY <1>1, <2>3
    <3> QED BY <1>4, <2>1, <2>2, <3>1
  <2>4. CASE a \notin Antigravity
    <3>1. asked' = asked BY <1>1, <2>4
    <3> QED BY <2>2, <2>4, <3>1
  <2> QED BY <2>3, <2>4
<1>6. WorkerOK(w, x)'
  <2>1. \A b \in Accounts : x.listed[b] <= turns' + 1 BY <1>1, <1>5, WorkerTyped DEF WorkerOK
  <2>2. at \in Nat BY <1>4, QuotaTyped
  <2>3. a \in Antigravity => asked'[a] <= x.at BY <1>5, <1>8, <2>2
  <2> QED BY <1>1, <1>3, <1>5, <2>1, <2>3 DEF WorkerOK
<1>9. AttemptsNoted'
  <2> SUFFICES ASSUME NEW b \in Antigravity, ~(asked'[b] <= attempts[b])
               PROVE  mutex = w /\ Asks(x) /\ x.file = b
    BY <1>1, <1>7 DEF AttemptsNoted, Asks
  <2>1. asked[b] <= attempts[b] BY <1>3 DEF QuotaInv, AttemptsNoted
  <2>2. b = a BY <1>8, <2>1
  <2> QED BY <1>3, <1>5, <1>7, <2>2
<1>10. pool' \in Pools /\ mutex' \in Workers \cup {"nobody"} BY <1>1, <1>3, QuotaTyped
<1>11. x.step # "idle" /\ work[w].step # "idle" BY <1>1, <1>5
<1>12. /\ \A b \in Accounts : blocked'[b] \in {0, blocked[b]} /\ rows'[b] \in {rows[b], NoRow}
       /\ blocked' \in [Accounts -> Nat]
       /\ rows' \in [Accounts -> QuotaRecords]
       /\ attempts' \in [Antigravity -> 0..LastClock]
  BY <1>1, QuotaTyped
<1>13. hasty' = FALSE
  <2> SUFFICES ASSUME a \in Antigravity
               PROVE  ~(w \in Visits /\ asked[a] # 0 /\ work[w].at < asked[a] + Minute)
    <3>1. hasty = FALSE BY QuotaTyped
    <3> QED BY <1>1, <3>1, Zenon
  <2> SUFFICES ASSUME w \in Visits, asked[a] # 0, work[w].at < asked[a] + Minute PROVE FALSE
    OBVIOUS
  <2>1. asked[a] <= attempts[a] BY <1>3 DEF QuotaInv, AttemptsNoted
  <2>2. asked[a] \in Nat /\ attempts[a] \in Nat /\ work[w].at \in Nat /\ Minute \in Nat
    BY QuotaTyped, QuotaAssumption
  <2>3. attempts[a] # 0 /\ work[w].at < attempts[a] + Minute BY <2>1, <2>2
  <2> QED BY <1>1, <2>3 DEF Waits
<1> QED BY <1>1, <1>2, <1>3, <1>5, <1>6, <1>8, <1>9, <1>10, <1>11, <1>12, <1>13, QuotaMoves

\* The refresh lists the accounts, or is over.
LEMMA RefreshMoves ==
    ASSUME QuotaInv, ListForRefresh \/ EndRefresh
    PROVE  QuotaInv'
<1>0. PICK w : w = "manual" OBVIOUS
<1>1. /\ UNCHANGED <<clock, provider, turns, disabled, rows, attempts, blocked, asked, hasty>>
      /\ pool' \in {pool, NoPool} /\ work[w].step \in {"list", "next"}
  BY <1>0 DEF ListForRefresh, EndRefresh, World, Caches
<1>2. w \in Workers /\ turns \in Nat BY <1>0, QuotaTyped
<1>3. ~Asks(work[w]) /\ mutex = w
  <2>1. ~Asks(work[w]) /\ HoldsMutex(w, work[w]) BY <1>0, <1>1 DEF Asks, HoldsMutex
  <2> QED BY <1>2, <2>1, WorkerTyped DEF WorkerOK
<1>4. \E x \in WorkRecords :
         /\ work' = [work EXCEPT ![w] = x] /\ \A b \in Accounts : x.listed[b] <= turns + 1
         /\ \/ x.step = "next" /\ UNCHANGED <<refresh, mutex>>
            \/ x.step = "idle" /\ Finished /\ mutex' = "nobody"
  <2>1. CASE work' = [work EXCEPT !["manual"] = Rest] /\ Finished /\ mutex' = "nobody"
    <3>1. \A b \in Accounts : Rest.listed[b] <= turns + 1 BY <1>2, RestTyped
    <3> QED BY <1>0, <2>1, <3>1, RestTyped
  <2>2. ASSUME NEW channel \in SUBSET Accounts, Listed("manual", channel, "next"), UNCHANGED <<refresh, mutex>>
        PROVE  \E x \in WorkRecords :
                  /\ work' = [work EXCEPT ![w] = x] /\ \A b \in Accounts : x.listed[b] <= turns + 1
                  /\ x.step = "next" /\ UNCHANGED <<refresh, mutex>>
    BY <1>0, <1>2, <2>2, ListedTyped
  <2>3. {Codex, Antigravity, Accounts} \subseteq SUBSET Accounts BY DEF Accounts
  <2> QED BY <2>1, <2>2, <2>3 DEF ListForRefresh, EndRefresh
<1>5. PICK x \in WorkRecords :
         /\ work' = [work EXCEPT ![w] = x] /\ \A b \in Accounts : x.listed[b] <= turns + 1
         /\ \/ x.step = "next" /\ UNCHANGED <<refresh, mutex>>
            \/ x.step = "idle" /\ Finished /\ mutex' = "nobody"
  BY <1>4
<1>6. ~Asks(x) /\ (HoldsMutex(w, x) => mutex' = w) BY <1>3, <1>5 DEF Asks, HoldsMutex
<1>7. WorkerOK(w, x)' BY <1>1, <1>2, <1>5, <1>6, WorkerIdles
<1>8. mutex' \in Workers \cup {"nobody"} /\ pool' \in Pools /\ hasty' = FALSE
  <2>1. pool' \in Pools /\ hasty' = FALSE BY <1>1, RestTyped, QuotaTyped
  <2> QED BY <1>2, <1>3, <1>5, <2>1
<1>9. AttemptsNoted' BY <1>1, <1>2, <1>3, <1>5, NotedStays
<1>10. /\ \A b \in Accounts : blocked'[b] \in {0, blocked[b]} /\ rows'[b] \in {rows[b], NoRow}
       /\ blocked' \in [Accounts -> Nat]
       /\ rows' \in [Accounts -> QuotaRecords]
       /\ attempts' \in [Antigravity -> 0..LastClock] /\ asked' \in [Antigravity -> 0..LastClock]
  BY <1>1, QuotaTyped
<1>11. \/ UNCHANGED refresh /\ (w = "manual" => (x.step = "idle" <=> work[w].step = "idle"))
       \/ w = "manual" /\ x.step = "idle" /\ Finished
  BY <1>0, <1>1, <1>5
<1> QED BY <1>1, <1>2, <1>3, <1>5, <1>7, <1>8, <1>9, <1>10, <1>11, QuotaMoves

\* The cooldown is lifted before the row is put.
LEMMA ResetCooldownInv ==
    ASSUME QuotaInv, NEW w \in Workers, ResetCooldown(w)
    PROVE  QuotaInv'
<1>0. PICK x, a : a = work[w].file /\ x = [work[w] EXCEPT !.step = "put"] OBVIOUS
<1>1. /\ work[w].step = "reset" /\ work' = [work EXCEPT ![w] = x] /\ blocked' = [blocked EXCEPT ![a] = 0]
      /\ UNCHANGED <<clock, provider, turns, disabled, rows, attempts, pool, refresh, mutex,
                      asked, hasty>>
  BY <1>0 DEF ResetCooldown, WorkStep, World, Caches
<1>2. Asks(work[w]) /\ mutex = w /\ a \in Accounts
  <2>1. Asks(work[w]) BY <1>1 DEF Asks
  <2> QED BY <1>0, <2>1, WorkerTyped DEF WorkerOK, HoldsMutex
<1>3. /\ x \in WorkRecords /\ x.step = "put" /\ x.listed = work[w].listed /\ x.file = a /\ x.at = work[w].at
  BY <1>0, WorkerTyped DEF WorkRecords
<1>4. /\ blocked' \in [Accounts -> Nat] /\ blocked'[a] = 0
      /\ \A b \in Accounts : blocked'[b] \in {0, blocked[b]} /\ rows'[b] \in {rows[b], NoRow}
      /\ rows' \in [Accounts -> QuotaRecords]
      /\ attempts' \in [Antigravity -> 0..LastClock] /\ asked' \in [Antigravity -> 0..LastClock]
  BY <1>1, <1>2, QuotaTyped
<1>5. WorkerOK(w, x)'
  <2>1. \A b \in Accounts : x.listed[b] <= turns' + 1 BY <1>1, <1>3, WorkerTyped DEF WorkerOK
  <2>2. Lifted(x.file, x.got, x.listed[x.file])' BY <1>3, <1>4 DEF Lifted
  <2>3. a \in Antigravity => asked[a] <= x.at BY <1>0, <1>2, <1>3, WorkerTyped DEF WorkerOK
  <2> QED BY <1>1, <1>2, <1>3, <2>1, <2>2, <2>3 DEF WorkerOK
<1>6. Asks(x) BY <1>3 DEF Asks
<1>7. AttemptsNoted' BY <1>0, <1>1, <1>2, <1>3, <1>6, NotedStays
<1>8. pool' \in Pools /\ hasty' = FALSE /\ mutex' \in Workers \cup {"nobody"} BY <1>1, <1>2, QuotaTyped
<1>9. x.step # "idle" /\ work[w].step # "idle" BY <1>1, <1>3
<1> QED BY <1>1, <1>3, <1>4, <1>5, <1>7, <1>8, <1>9, QuotaMoves

\* The row is put or dropped, and with it the attempt is noted.
LEMMA NextTyped ==
    ASSUME QuotaInv, NEW w \in Workers, NEW any \in BOOLEAN, Asks(work[w]), Next1(w, any)
    PROVE  \E x \in WorkRecords : /\ work' = [work EXCEPT ![w] = x] /\ x.step = "next"
                                  /\ \A a \in Accounts : x.listed[a] <= turns + 1
<1>0. PICK x, more, listed :
          /\ more = (work[w].any \/ any) /\ listed = [work[w].listed EXCEPT ![work[w].file] = 0]
          /\ x = [work[w] EXCEPT !.step = "next", !.any = more, !.file = "", !.got = NoAnswer, !.listed = listed]
  OBVIOUS
<1>1. work[w].file \in Accounts BY WorkerTyped DEF WorkerOK
<1>2. work' = [work EXCEPT ![w] = x] BY ZenonT(60), <1>0, WorkerTyped DEF Next1, WorkRecords
<1>3. \A a \in Accounts : work[w].listed[a] <= turns + 1 BY WorkerTyped DEF WorkerOK
<1>4. listed \in [Accounts -> Nat] /\ \A a \in Accounts : listed[a] \in {0, work[w].listed[a]}
  BY <1>0, WorkerTyped
<1>5. more \in BOOLEAN /\ NoAnswer \in Answers
  <2>1. more \in BOOLEAN BY <1>0, Zenon
  <2> QED BY <2>1 DEF NoAnswer, Answers
<1>6. x \in WorkRecords /\ x.step = "next" /\ x.listed = listed
  <2>1. /\ x = [work[w] EXCEPT !.step = "next", !.any = more, !.file = "", !.got = NoAnswer, !.listed = listed]
        /\ work[w] \in WorkRecords /\ listed \in [Accounts -> Nat]
    BY <1>0, <1>4, WorkerTyped
  <2> QED BY <1>5, <2>1 DEF WorkRecords
<1>7. \A a \in Accounts : x.listed[a] <= turns + 1 BY <1>3, <1>4, <1>6, QuotaTyped
<1> QED BY <1>2, <1>6, <1>7

\* A fetch ends, whether it succeeded or failed.
LEMMA FetchEnds ==
    ASSUME QuotaInv, NEW w \in Workers, NEW any \in BOOLEAN, Asks(work[w]), Next1(w, any),
           UNCHANGED <<clock, provider, turns, disabled, refresh, pool, mutex, asked, hasty>>,
           blocked' \in [Accounts -> Nat], \A a \in Accounts : blocked'[a] \in {0, blocked[a]},
           attempts' = IF work[w].file \in Antigravity
                       THEN [attempts EXCEPT ![work[w].file] = work[w].at] ELSE attempts,
           rows' \in [Accounts -> QuotaRecords],
           \A a \in Accounts : \/ rows'[a] \in {rows[a], NoRow}
                               \/ /\ rows'[a].listed <= turns + 1
                                  /\ Lifted(a, rows[a].quota, rows[a].listed)'
    PROVE  QuotaInv'
<1>1. PICK x \in WorkRecords : /\ work' = [work EXCEPT ![w] = x] /\ x.step = "next"
                               /\ \A a \in Accounts : x.listed[a] <= turns + 1
  BY NextTyped
<1>2. mutex = w BY WorkerTyped DEF WorkerOK, HoldsMutex
<1>3. ~Asks(x) BY <1>1 DEF Asks
<1>4. WorkerOK(w, x)' BY <1>1, <1>2, <1>3, WorkerIdles
<1>5. work[w].at \in 0..LastClock /\ work[w].at \in Nat BY QuotaTyped
<1>6. /\ attempts' \in [Antigravity -> 0..LastClock]
      /\ \A b \in Antigravity : attempts'[b] = IF b = work[w].file THEN work[w].at ELSE attempts[b]
  <2>1. attempts \in [Antigravity -> 0..LastClock] BY QuotaTyped
  <2> QED BY <1>5, <2>1
<1>7. AttemptsNoted'
  <2> SUFFICES ASSUME NEW b \in Antigravity PROVE asked[b] <= attempts'[b]
    BY DEF AttemptsNoted, Asks
  <2>1. \/ asked[b] <= attempts[b]
        \/ \E u \in Workers : mutex = u /\ Asks(work[u]) /\ work[u].file = b
    BY DEF QuotaInv, AttemptsNoted
  <2>2. CASE b = work[w].file
    <3>1. asked[b] <= work[w].at BY <2>2, WorkerTyped DEF WorkerOK
    <3> QED BY <1>6, <2>2, <3>1
  <2>3. CASE b # work[w].file
    BY <1>2, <1>6, <2>1, <2>3
  <2> QED BY <2>2, <2>3
<1>8. /\ asked' \in [Antigravity -> 0..LastClock] /\ pool' \in Pools /\ hasty' = FALSE
      /\ mutex' \in Workers \cup {"nobody"}
  BY <1>2, QuotaTyped
<1>9. x.step # "idle" /\ work[w].step # "idle" BY <1>1 DEF Asks
<1> QED BY <1>1, <1>4, <1>6, <1>7, <1>8, <1>9, QuotaMoves

\* A row is put as it was fetched, after the cooldown that was listed is gone.
LEMMA PutRowInv ==
    ASSUME QuotaInv, NEW w \in Workers, PutRow(w)
    PROVE  QuotaInv'
<1>0. PICK a : a = work[w].file OBVIOUS
<1>01. PICK t \in ResetTimes(a) :
         rows' = [rows EXCEPT ![a] = [at |-> work[w].at, quota |-> work[w].got,
                                      listed |-> work[w].listed[a], resets |-> t]]
  BY <1>0 DEF PutRow, Stored
<1>02. t \in Nat BY QuotaAssumption DEF ResetTimes
<1>03. PICK entry : entry = [at |-> work[w].at, quota |-> work[w].got,
                            listed |-> work[w].listed[a], resets |-> t]
  OBVIOUS
<1>1. /\ work[w].step = "put" /\ rows' = [rows EXCEPT ![a] = entry] /\ Next1(w, TRUE)
      /\ attempts' = IF work[w].file \in Antigravity
                     THEN [attempts EXCEPT ![work[w].file] = work[w].at] ELSE attempts
      /\ UNCHANGED <<clock, provider, turns, disabled, blocked, refresh, pool, mutex, asked, hasty>>
  BY <1>0, <1>01, <1>03 DEF PutRow, World
<1>2. Asks(work[w]) BY <1>1 DEF Asks
<1>3. a \in Accounts /\ work[w].listed[a] <= turns + 1 /\ Lifted(a, work[w].got, work[w].listed[a])
  BY <1>0, <1>1, <1>2, WorkerTyped DEF WorkerOK
<1>4. entry \in QuotaRecords
  BY <1>02, <1>03, <1>3, WorkerTyped DEF QuotaRecords
<1>5. rows \in [Accounts -> QuotaRecords] BY QuotaTyped
<1>6. /\ rows' \in [Accounts -> QuotaRecords]
      /\ rows'[a] = entry /\ \A b \in Accounts : b # a => rows'[b] = rows[b]
  BY <1>1, <1>3, <1>4, <1>5
<1>7. entry.listed <= turns + 1 /\ Lifted(a, entry.quota, entry.listed) BY <1>03, <1>3
<1>8. \A b \in Accounts : \/ rows'[b] \in {rows[b], NoRow}
                          \/ /\ rows'[b].listed <= turns + 1
                             /\ Lifted(b, rows[b].quota, rows[b].listed)'
  BY <1>1, <1>6, <1>7 DEF Lifted
<1>9. blocked' \in [Accounts -> Nat] /\ \A b \in Accounts : blocked'[b] \in {0, blocked[b]}
  BY <1>1, QuotaTyped
<1> QED BY <1>1, <1>2, <1>6, <1>8, <1>9, FetchEnds

\* A fetch fails; a reset whose answer is lost may have lifted the cooldown.
LEMMA FetchFailsInv ==
    ASSUME QuotaInv, NEW w \in Workers, FetchFails(w)
    PROVE  QuotaInv'
<1>0. PICK a : a = work[w].file OBVIOUS
<1>1. /\ work[w].step \in {"asked", "reset"} /\ rows' = [rows EXCEPT ![a] = NoRow] /\ Next1(w, FALSE)
      /\ blocked' = blocked \/ blocked' = [blocked EXCEPT ![a] = 0]
      /\ attempts' = IF work[w].file \in Antigravity
                     THEN [attempts EXCEPT ![work[w].file] = work[w].at] ELSE attempts
      /\ UNCHANGED <<clock, provider, turns, disabled, refresh, pool, mutex, asked, hasty>>
  BY <1>0 DEF FetchFails, Dropped, World
<1>2. Asks(work[w]) BY <1>1 DEF Asks
<1>3. a \in Accounts BY <1>0, <1>2, WorkerTyped DEF WorkerOK
<1>4. rows \in [Accounts -> QuotaRecords] BY QuotaTyped
<1>5. /\ rows' \in [Accounts -> QuotaRecords]
      /\ \A b \in Accounts : rows'[b] \in {rows[b], NoRow}
  BY <1>1, <1>3, <1>4, RestTyped
<1>6. blocked \in [Accounts -> Nat] BY QuotaTyped
<1>7. blocked' \in [Accounts -> Nat] /\ \A b \in Accounts : blocked'[b] \in {0, blocked[b]}
  BY <1>1, <1>6
<1> QED BY <1>1, <1>2, <1>5, <1>7, FetchEnds

\* The rows that are not fresh go, and the page brings what it counted to the
\* cache or is done.
LEMMA SumUpInv ==
    ASSUME QuotaInv, NEW v \in Visits, SumUp(v)
    PROVE  QuotaInv'
<1>1. /\ work[v].step = "sum" /\ WorkerKeeps
      /\ rows' = [a \in Accounts |-> IF a \in Codex \ Current(v) THEN NoRow ELSE rows[a]]
      /\ UNCHANGED <<attempts, pool, mutex>>
  BY DEF SumUp
<1>2. UNCHANGED <<clock, provider, turns, disabled, blocked, refresh, asked>> /\ hasty' = FALSE
  BY <1>1, QuotaTyped DEF WorkerKeeps, World
<1>3. v \in Workers /\ v # "manual" /\ turns \in Nat BY QuotaTyped
<1>4. Summary(v) \in Pools
  <2>1. work[v].seen \subseteq Accounts /\ Current(v) \subseteq Accounts
    BY <1>3, WorkerTyped DEF Current, Accounts
  <2>2. PICK known, usable : /\ known = Current(v) \cap work[v].seen
                             /\ usable = {a \in known : rows[a].quota.usable}
    OBVIOUS
  <2>3. known \subseteq Accounts /\ usable \subseteq Accounts BY <2>1, <2>2
  <2>4. Summary(v) = [NoPool EXCEPT !.total = work[v].seen, !.known = known, !.usable = usable]
    BY <2>2 DEF Summary
  <2> QED BY <2>1, <2>3, <2>4, RestTyped DEF Pools
<1>5. \E x \in WorkRecords : /\ work' = [work EXCEPT ![v] = x] /\ x.step \in {"idle", "store"}
                             /\ \A a \in Accounts : x.listed[a] = 0
  <2>1. CASE Current(v) # {}
    <3>1. work' = [work EXCEPT ![v] = [Rest EXCEPT !.step = "store", !.pool = Summary(v)]]
      BY <2>1 DEF SumUp
    <3> QED BY <1>4, <3>1, StoreTyped
  <2>2. CASE Current(v) = {} BY <2>2, RestTyped DEF SumUp, WorkDone
  <2> QED BY <2>1, <2>2
<1>6. PICK x \in WorkRecords : /\ work' = [work EXCEPT ![v] = x] /\ x.step \in {"idle", "store"}
                               /\ \A a \in Accounts : x.listed[a] = 0
  BY <1>5
<1>7. \A a \in Accounts : x.listed[a] <= turns + 1 BY <1>3, <1>6
<1>8. ~Asks(x) /\ ~HoldsMutex(v, x) /\ ~Asks(work[v]) BY <1>1, <1>3, <1>6 DEF Asks, HoldsMutex
<1>9. WorkerOK(v, x)' BY <1>2, <1>3, <1>6, <1>7, <1>8, WorkerIdles
<1>10. AttemptsNoted' BY <1>1, <1>2, <1>3, <1>6, <1>8, NotedStays
<1>11. rows \in [Accounts -> QuotaRecords] BY QuotaTyped
<1>12. /\ rows' \in [Accounts -> QuotaRecords]
       /\ \A b \in Accounts : rows'[b] \in {rows[b], NoRow}
  BY <1>1, <1>11, RestTyped
<1>13. /\ blocked' \in [Accounts -> Nat] /\ \A a \in Accounts : blocked'[a] \in {0, blocked[a]}
       /\ attempts' \in [Antigravity -> 0..LastClock] /\ asked' \in [Antigravity -> 0..LastClock]
       /\ mutex' \in Workers \cup {"nobody"} /\ pool' \in Pools
  BY <1>1, <1>2, QuotaTyped DEF QuotaInv, QuotaTypes
<1> QED BY <1>1, <1>2, <1>3, <1>6, <1>9, <1>10, <1>12, <1>13, QuotaMoves

\* What was counted goes to the cache.
LEMMA StorePoolInv ==
    ASSUME QuotaInv, NEW v \in Visits, StorePool(v)
    PROVE  QuotaInv'
<1>1. /\ work[v].step = "store" /\ work' = [work EXCEPT ![v] = Rest] /\ WorkerKeeps
      /\ pool' = [work[v].pool EXCEPT !.until = clock + PoolTTL]
      /\ UNCHANGED <<rows, attempts, mutex>>
  BY DEF StorePool, WorkDone
<1>2. v \in Workers /\ v # "manual" /\ turns \in Nat BY QuotaTyped
<1>3. UNCHANGED turns BY <1>1 DEF WorkerKeeps, World
<1>4. pool' \in Pools
  <2>1. PICK until : until = clock + PoolTTL OBVIOUS
  <2>2. until \in Nat BY <2>1, QuotaTyped, QuotaAssumption
  <2>3. work[v].pool \in Pools BY <1>2, WorkerTyped
  <2> QED BY <1>1, <2>1, <2>2, <2>3 DEF Pools
<1>5. \A a \in Accounts : Rest.listed[a] <= turns + 1 BY <1>2, RestTyped
<1>6. ~Asks(Rest) /\ ~HoldsMutex(v, Rest) /\ ~Asks(work[v])
  BY <1>1, <1>2, RestTyped DEF Asks, HoldsMutex
<1>7. WorkerOK(v, Rest)' BY <1>2, <1>3, <1>5, <1>6, RestTyped, WorkerIdles
<1>8. mutex' \in Workers \cup {"nobody"} BY <1>1 DEF QuotaInv, QuotaTypes
<1> QED BY <1>1, <1>2, <1>4, <1>6, <1>7, <1>8, RestTyped, WorkMoves

\* An account is disabled or enabled; afterwards everything cached may go.
LEMMA SettersMove ==
    ASSUME QuotaInv, ConfirmDisabled \/ \E a \in Accounts : SetDisabled(a)
    PROVE  QuotaInv'
<1>1. /\ UNCHANGED <<clock, provider, turns, blocked, refresh, mutex, work>>
      /\ disabled' \subseteq Accounts /\ UNCHANGED hasty
      /\ \/ UNCHANGED <<rows, pool, attempts, asked>>
         \/ /\ rows' = [b \in Accounts |-> NoRow] /\ pool' = NoPool
            /\ attempts' = [b \in Antigravity |-> 0] /\ asked' = attempts'
  BY DEF SetDisabled, ConfirmDisabled, Caches, QuotaInv, QuotaTypes
<1>2. CASE UNCHANGED <<rows, pool, attempts, asked>>
  <2>1. QuotaTypes' BY <1>1, <1>2 DEF QuotaInv, QuotaTypes
  <2> QED BY <1>1, <1>2, <2>1 DEF QuotaInv, Numbers, Lifted, AttemptsNoted, WorkerOK, HoldsMutex, Asks
<1>3. CASE /\ rows' = [b \in Accounts |-> NoRow] /\ pool' = NoPool
           /\ attempts' = [b \in Antigravity |-> 0] /\ asked' = attempts'
  <2>1. LastClock \in Nat /\ turns \in Nat BY QuotaTyped
  <2>2. /\ attempts' \in [Antigravity -> 0..LastClock] /\ asked' \in [Antigravity -> 0..LastClock]
        /\ rows' \in [Accounts -> QuotaRecords]
    BY <1>3, <2>1, RestTyped
  <2>3. QuotaTypes' BY <1>1, <1>3, <2>2, RestTyped DEF QuotaInv, QuotaTypes, QuotaRecords
  <2>4. AttemptsNoted' BY <1>3 DEF AttemptsNoted
  <2>5. Numbers' /\ \A b \in Accounts : Lifted(b, rows[b].quota, rows[b].listed)'
    BY <1>1, <1>3, <2>1, RestTyped DEF QuotaInv, Numbers, Lifted
  <2>6. ASSUME NEW w \in Workers PROVE WorkerOK(w, work[w])'
    <3>1. WorkerOK(w, work[w]) /\ work[w].at \in 0..LastClock BY WorkerTyped
    <3>2. \A b \in Antigravity : asked'[b] <= work[w].at BY <1>3, <2>1, <3>1
    <3> QED BY <1>1, <3>1, <3>2 DEF WorkerOK, HoldsMutex, Asks, Lifted
  <2> QED BY <1>1, <1>3, <2>3, <2>4, <2>5, <2>6, RestTyped DEF QuotaInv
<1> QED BY <1>1, <1>2, <1>3

\* At the start nothing is cached and nobody works.
LEMMA QuotaInitially == QuotaInit => QuotaInv
<1> SUFFICES ASSUME QuotaInit PROVE QuotaInv OBVIOUS
<1>1. /\ clock = 1 /\ turns = 0 /\ blocked \in [Accounts -> 0..1] /\ disabled \in SUBSET Accounts
      /\ provider = [a \in Accounts |-> [usable |-> TRUE, allowed |-> TRUE]]
      /\ rows = [a \in Accounts |-> NoRow] /\ attempts = [a \in Antigravity |-> 0]
      /\ pool = NoPool /\ refresh = [running |-> FALSE, next |-> 0]
      /\ mutex = "nobody" /\ work = [w \in Workers |-> Rest] /\ asked = attempts
      /\ hasty = FALSE
  BY DEF QuotaInit
<1>2. LastClock \in Nat /\ 0 \in 0..LastClock /\ 1 \in 1..LastClock /\ MaxTurns \in Nat BY QuotaAssumption
<1>3. \A a \in Accounts : blocked[a] \in 0..1 BY <1>1
<1>4. QuotaTypes
  <2>1. [usable |-> TRUE, allowed |-> TRUE] \in Answers BY DEF Answers
  <2>2. provider \in [Accounts -> Answers] BY <1>1, <2>1
  <2>3. blocked \in [Accounts -> Nat] BY <1>1
  <2>4. rows \in [Accounts -> QuotaRecords] BY <1>1, RestTyped
  <2>5. attempts \in [Antigravity -> 0..LastClock] BY <1>1, <1>2
  <2>6. work \in [Workers -> WorkRecords] BY <1>1, RestTyped
  <2>7. refresh \in [running : BOOLEAN, next : Nat] BY <1>1
  <2> QED BY <1>1, <1>2, <2>2, <2>3, <2>4, <2>5, <2>6, <2>7, RestTyped DEF QuotaTypes, QuotaRecords
<1>5. Numbers BY <1>1, <1>3, RestTyped DEF Numbers
<1>6. AttemptsNoted BY <1>1 DEF AttemptsNoted
<1>7. ASSUME NEW w \in Workers PROVE WorkerOK(w, work[w])
  <2>1. work[w] = Rest BY <1>1
  <2>2. \A a \in Accounts : Rest.listed[a] <= turns + 1 BY <1>1, RestTyped
  <2> QED BY <2>1, <2>2, RestTyped DEF WorkerOK, HoldsMutex, Asks
<1>8. \A a \in Accounts : Lifted(a, rows[a].quota, rows[a].listed) BY <1>1, RestTyped DEF Lifted
<1>9. refresh.running <=> work["manual"].step # "idle"
  <2>1. "manual" \in Workers BY DEF Workers
  <2>2. work["manual"] = Rest /\ refresh.running = FALSE BY <1>1, <2>1
  <2> QED BY <2>2, RestTyped
<1>10. hasty = FALSE BY <1>1
<1> QED BY <1>1, <1>4, <1>5, <1>6, <1>7, <1>8, <1>9, <1>10, RestTyped DEF QuotaInv

\* Every step keeps the invariant.
LEMMA QuotaStep == QuotaInv /\ [QuotaNext]_quotaVars => QuotaInv'
<1> SUFFICES ASSUME QuotaInv, [QuotaNext]_quotaVars PROVE QuotaInv' OBVIOUS
<1>1. CASE UNCHANGED quotaVars
  <2>1. UNCHANGED <<clock, provider, turns, blocked, disabled, rows, attempts, pool, refresh,
                    mutex, work, asked, hasty>>
    BY <1>1 DEF quotaVars
  <2>2. QuotaTypes' BY <2>1 DEF QuotaInv, QuotaTypes
  <2> QED BY <2>1, <2>2 DEF QuotaInv, Numbers, Lifted, AttemptsNoted, WorkerOK, HoldsMutex, Asks
<1>2. CASE QuotaNext
  <2>1. ASSUME NEW a \in Accounts, ProviderTurns(a) \/ SetDisabled(a) PROVE QuotaInv'
    BY <2>1, ProviderTurnsInv, SettersMove
  <2>2. ASSUME NEW v \in Visits,
               \/ OpenPool(v) \/ OpenAntigravity(v) \/ ListForPage(v)
               \/ EndFetch(v) \/ SumUp(v) \/ StorePool(v)
        PROVE  QuotaInv'
    BY <2>2, PagesMove, PagesEnd, SumUpInv, StorePoolInv
  <2>3. ASSUME NEW w \in Workers, Lock(w) \/ ProviderAnswers(w) \/ ResetCooldown(w) \/ PutRow(w) \/ FetchFails(w)
        PROVE  QuotaInv'
    BY <2>3, LockInv, ProviderAnswersInv, ResetCooldownInv, PutRowInv, FetchFailsInv
  <2>4. ASSUME NEW w \in Workers, NEW a \in Accounts, SkipFresh(w, a) \/ Ask(w, a) PROVE QuotaInv'
    <3>1. SkipFresh(w, a) => w \in Visits BY DEF SkipFresh
    <3> QED BY <2>4, <3>1, AskInv, PagesEnd
  <2>5. ASSUME ConfirmDisabled PROVE QuotaInv'
    BY <2>5, SettersMove
  <2> QED BY <1>2, <2>1, <2>2, <2>3, <2>4, <2>5, PassTimeInv, StartRefreshInv, RefreshMoves
    DEF QuotaNext
<1> QED BY <1>1, <1>2

\* No row that calls an account allowed was kept while the cooldown it was fetched
\* under remains, the button works again after every refresh, and no page asks an
\* Antigravity account within a minute of the last query, for any accounts, page
\* loads and clock.
THEOREM QuotasAreHonest == QuotaSpec => []QuotaHonest
<1>1. ASSUME QuotaInv PROVE QuotaHonest
  <2>1. \A a \in Codex : rows[a].quota.allowed /\ rows[a].listed # 0 => blocked[a] # rows[a].listed
    BY <1>1, QuotaTyped DEF QuotaInv, Lifted
  <2> QED BY <1>1, <2>1 DEF QuotaInv, QuotaHonest
<1> QED BY <1>1, QuotaInitially, QuotaStep, PTL DEF QuotaSpec

\* The types of the quotas, the refresh and the page loads.
THEOREM QuotaTypesHold == QuotaSpec => []QuotaTypeOK
<1>1. ASSUME QuotaInv PROVE QuotaTypeOK
  <2>1. QuotaTypes BY <1>1 DEF QuotaInv
  <2>2. \A a \in Accounts : rows[a].at \in 0..LastClock /\ rows[a].quota \in Answers
    BY <2>1 DEF QuotaTypes
  <2>3. \A w \in Workers : work[w].left \subseteq Accounts BY <1>1, WorkerTyped
  <2>4. DOMAIN provider = Accounts BY <2>1 DEF QuotaTypes
  <2>5. hasty \in BOOLEAN BY <1>1 DEF QuotaInv
  <2> QED BY <2>1, <2>2, <2>3, <2>4, <2>5 DEF QuotaTypeOK, QuotaTypes
<1> QED BY <1>1, QuotaInitially, QuotaStep, PTL DEF QuotaSpec

-----------------------------------------------------------------------------
(* The routing settings of the OAuth channels.                             *)

\* Numbers have a smallest.
LEMMA SmallestPlace ==
    ASSUME NEW T, T \subseteq Nat, T # {}
    PROVE  \E n \in T : \A y \in T : n <= y
<1> DEFINE R == {ss \in Nat \X Nat : ss[1] < ss[2]}
<1>1. IsWellFoundedOn(R, Nat)
  BY NatLessThanWellFounded, Zenon DEF OpToRel
<1>2. \A t, u \in Nat : t < u => <<t, u>> \in R OBVIOUS
<1> HIDE DEF R
<1>3. PICK n \in T : \A y \in T : ~(<<y, n>> \in R)
  BY <1>1, WFMin, Zenon
<1>4. \A y \in T : ~(y < n) BY <1>2, <1>3
<1> QED BY <1>4

\* Every channel of a set is before, or after, all others of it: there is one
\* to be written first, out and back.
LEMMA FirstInHand ==
    ASSUME NEW todo \in SUBSET ChannelSet, todo # {}, NEW back
    PROVE  InHand(todo, back) \in todo
<1> DEFINE N == Len(ChannelList)
           Order(c) == IF back THEN N - Place(c) ELSE Place(c)
           T == {Order(c) : c \in todo}
<1>1. ChannelList \in Seq(DOMAIN ModelsOf) BY RoutingAssumption
<1>2. N \in Nat /\ DOMAIN ChannelList = 1..N BY <1>1
<1>3. \A c \in todo : Place(c) \in 1..N
  <2> TAKE c \in todo
  <2>1. \E i \in DOMAIN ChannelList : ChannelList[i] = c BY DEF ChannelSet, ToSet
  <2>2. Place(c) \in DOMAIN ChannelList BY <2>1 DEF Place
  <2> QED BY <1>2, <2>2
<1>4. T \subseteq Nat /\ T # {} BY <1>2, <1>3
<1>5. PICK n \in T : \A y \in T : n <= y BY <1>4, SmallestPlace, Zenon
<1>6. PICK c \in todo : n = Order(c) BY <1>5
<1>7. \A d \in todo : Order(c) <= Order(d) BY <1>5, <1>6
<1>8. \A d \in todo : IF back THEN Place(d) <= Place(c) ELSE Place(c) <= Place(d)
  <2> TAKE d \in todo
  <2>1. Order(c) <= Order(d) BY <1>7
  <2>2. Place(c) \in Nat /\ Place(d) \in Nat BY <1>3, <1>2
  <2> QED BY <1>2, <2>1, <2>2
<1> QED BY <1>8 DEF InHand

\* Each model belongs to one channel.
LEMMA ModelsApart ==
    /\ \A c \in ChannelSet : ModelsOf[c] \subseteq RoutedModels
    /\ \A m \in RoutedModels : \E c \in ChannelSet : m \in ModelsOf[c]
    /\ \A c, d \in ChannelSet : c # d => ModelsOf[c] \cap ModelsOf[d] = {}
BY RoutingAssumption DEF ChannelSet, RoutedModels

\* What users see is compared like any values.
LEMMA AlikeEqual ==
    ASSUME NEW a, NEW b, NEW d, NEW c
    PROVE  /\ Alike(a, a, c)
           /\ Alike(a, b, c) => Alike(b, a, c)
           /\ Alike(a, b, c) /\ Alike(b, d, c) => Alike(a, d, c)
BY DEF Alike, AlikeAt

\* The models out of ms are in b as they are in a.
SameOutside(a, b, ms) ==
    \A m \in RoutedModels \ ms : /\ m \in a.on <=> m \in b.on
                                 /\ a.alias[m] = b.alias[m]
                                 /\ m \in a.caps <=> m \in b.caps

\* A change within a channel is none in the others.
LEMMA OthersAlike ==
    ASSUME NEW a, NEW b, NEW c \in ChannelSet, NEW d \in ChannelSet, c # d,
           SameOutside(a, b, ModelsOf[c])
    PROVE  Alike(a, b, d)
BY ModelsApart DEF SameOutside, Alike, AlikeAt

\* Fewer models have fewer names.
LEMMA NamesFewer ==
    ASSUME NEW a, NEW b, ValidNames(b),
           \A m \in RoutedModels : m \in a.on => m \in b.on /\ a.alias[m] = b.alias[m]
    PROVE  ValidNames(a)
<1>1. \A c \in ChannelSet : VisibleNames(a, c) \subseteq VisibleNames(b, c)
  <2> TAKE c \in ChannelSet
  <2>1. \A m \in ModelsOf[c] \cap a.on : m \in ModelsOf[c] \cap b.on /\ a.alias[m] = b.alias[m]
    BY ModelsApart
  <2> QED BY <2>1 DEF VisibleNames
<1> QED BY <1>1 DEF ValidNames, OwnNames, CrossNames

\* Configurations that look the same have the same names.
LEMMA AlikeNames ==
    ASSUME NEW a, NEW b, ValidNames(b), \A c \in ChannelSet : Alike(a, b, c)
    PROVE  ValidNames(a)
<1>1. \A m \in RoutedModels : m \in a.on => m \in b.on /\ a.alias[m] = b.alias[m]
  BY ModelsApart DEF Alike, AlikeAt
<1> QED BY <1>1, NamesFewer

\* Configurations that look the same route alike.
LEMMA AlikeRoutes ==
    ASSUME NEW a \in Configs, NEW b \in Configs, \A c \in ChannelSet : Alike(a, b, c)
    PROVE  Routes(a) = Routes(b)
<1>1. /\ a.on \subseteq RoutedModels /\ b.on \subseteq RoutedModels
      /\ a.caps \subseteq RoutedModels /\ b.caps \subseteq RoutedModels
  BY RoutingAssumption DEF Configs, RoutedModels
<1>2. \A m \in RoutedModels : AlikeAt(a, b, m) BY ModelsApart DEF Alike
<1>3. a.on = b.on BY <1>1, <1>2 DEF AlikeAt
<1>4. [m \in a.on |-> a.alias[m]] = [m \in b.on |-> b.alias[m]] BY <1>1, <1>2, <1>3 DEF AlikeAt
<1>5. a.caps \cap a.on = b.caps \cap b.on BY <1>1, <1>2, <1>3 DEF AlikeAt
<1> QED BY <1>3, <1>4, <1>5 DEF Routes

\* When the names are valid, none means two models.
LEMMA NamesAreClear == ValidNames(config) => Clear
<1> SUFFICES ASSUME ValidNames(config), NEW p \in Claims, NEW q \in Claims, p[2].name = q[2].name
             PROVE  p[2].model = q[2].model \/ (p[1] # q[1] /\ ~p[2].alias /\ ~q[2].alias)
  BY DEF Clear
<1>1. PICK c \in ChannelSet : p \in {<<c, x>> : x \in VisibleNames(config, c)} BY DEF Claims
<1>2. PICK d \in ChannelSet : q \in {<<d, y>> : y \in VisibleNames(config, d)} BY DEF Claims
<1>3. PICK x \in VisibleNames(config, c) : p = <<c, x>> BY <1>1
<1>4. PICK y \in VisibleNames(config, d) : q = <<d, y>> BY <1>2
<1>5. p[1] = c /\ p[2] = x /\ q[1] = d /\ q[2] = y /\ x.name = y.name BY <1>3, <1>4
<1>6. CASE c = d BY <1>5, <1>6 DEF ValidNames, OwnNames
<1>7. CASE c # d BY <1>5, <1>7 DEF ValidNames, CrossNames
<1> QED BY <1>6, <1>7

\* Without aliases a model has its own name alone.
LEMMA PlainNames == ValidNames(AllPlain) /\ AllPlain \in Configs
<1>1. \A c \in ChannelSet : VisibleNames(AllPlain, c) \subseteq
          {[name |-> m, model |-> m, alias |-> FALSE] : m \in ModelsOf[c]}
  BY ModelsApart DEF VisibleNames, AllPlain
<1>2. AllPlain \in Configs
  <2>1. \A m \in RoutedModels : NoAlias \in AliasChoices(m) BY DEF AliasChoices
  <2>2. [m \in RoutedModels |-> NoAlias] \in [RoutedModels -> UNION {AliasChoices(m) : m \in RoutedModels}]
    BY <2>1
  <2> QED BY <2>2 DEF AllPlain, Configs
<1>3. \A c \in ChannelSet : \A x \in VisibleNames(AllPlain, c) :
          \E m \in ModelsOf[c] : x = [name |-> m, model |-> m, alias |-> FALSE]
  BY <1>1
<1>4. \A c \in ChannelSet : \A x \in VisibleNames(AllPlain, c) : x.name = x.model /\ x.alias = FALSE
  BY <1>3
<1> QED BY <1>2, <1>4 DEF ValidNames, OwnNames, CrossNames

-----------------------------------------------------------------------------
(* The steps of a preset.                                                  *)

\* A step for the channel in hand: what it changes is within the channel.
HereOnly == /\ job.kind = "apply" /\ job.step \in PresetSteps /\ job.todo # {}
            /\ SameOutside(config', config, HereModels) /\ config' \in Configs
            /\ doubtful' = doubtful

\* The channel in hand is one of those that are left, and the others look as
\* they did.
LEMMA HereIsLeft ==
    ASSUME RoutingInv, HereOnly
    PROVE  /\ Here \in job.todo /\ Here \in ChannelSet
           /\ \A c \in ChannelSet \ {Here} : Alike(config', config, c)
<1>1. job.todo \in SUBSET ChannelSet BY DEF RoutingInv, RoutingTypeOK, RoutingJobs
<1>2. Here \in job.todo BY <1>1, FirstInHand DEF HereOnly, Here
<1>3. Here \in ChannelSet BY <1>1, <1>2
<1>4. ASSUME NEW c \in ChannelSet \ {Here} PROVE Alike(config', config, c)
  <2>1. Here # c /\ c \in ChannelSet BY <1>4
  <2>2. SameOutside(config', config, ModelsOf[Here]) BY DEF HereOnly, HereModels
  <2> QED BY <1>3, <2>1, <2>2, OthersAlike
<1> QED BY <1>2, <1>3, <1>4

\* A preset names no alias twice, at each of its steps.
LEMMA NamesStay ==
    ASSUME RoutingInv, HereOnly, job'.kind = "apply", job'.before = job.before, job'.target = job.target
    PROVE  NamesAsFar'
<1>1. (~doubtful => ValidNames(job.before)) /\ ValidNames(job.target) BY DEF RoutingInv, NamesAsFar, HereOnly
<1>2. ValidNames(job'.before) <=> ValidNames(job.before) OBVIOUS
<1>3. ValidNames(job'.target) <=> ValidNames(job.target) OBVIOUS
<1> QED BY <1>1, <1>2, <1>3 DEF NamesAsFar, HereOnly

\* Work on the channel in hand goes on, with the next step or the same.
LEMMA WorkOn ==
    ASSUME RoutingInv, HereOnly, NEW step \in PresetSteps, job' = [job EXCEPT !.step = step], HereAsFar'
    PROVE  RoutingInv'
<1>1. job \in RoutingJobs BY DEF RoutingInv, RoutingTypeOK
<1>2. job' \in RoutingJobs BY <1>1 DEF RoutingJobs, PresetSteps
<1>3. /\ job'.kind = job.kind /\ job'.step = step /\ job'.todo = job.todo /\ job'.tried = job.tried
      /\ job'.before = job.before /\ job'.target = job.target /\ job'.back = job.back
      /\ job'.failed = job.failed /\ job'.result = job.result
  BY <1>1 DEF RoutingJobs
<1>4. Here' = Here BY <1>3 DEF Here
<1>5. RoutingTypeOK' BY <1>2 DEF RoutingInv, RoutingTypeOK, HereOnly
<1>6. JobPhases' BY <1>3 DEF RoutingInv, JobPhases, HereOnly, PresetSteps
<1>7. DisabledAsFar' BY <1>3 DEF DisabledAsFar, PresetSteps
<1>8. OnTheWayOut'
  <2>1. OnTheWayOut BY DEF RoutingInv
  <2>2. SUFFICES ASSUME ~job.back
                 PROVE  /\ job.tried \cap job.todo = {} /\ job.tried \cup job.todo # {}
                        /\ \A c \in job.tried : Alike(config', job.target, c)
                        /\ \A c \in ChannelSet \ (job.tried \cup job.todo) : Alike(job.before, job.target, c)
                        /\ \A c \in ChannelSet \ job.tried :
                              job.todo = {} \/ c # Here => Alike(config', job.before, c)
    BY <1>3, <1>4 DEF OnTheWayOut
  <2>3. /\ job.tried \cap job.todo = {} /\ job.tried \cup job.todo # {}
        /\ \A c \in job.tried : Alike(config, job.target, c)
        /\ \A c \in ChannelSet \ (job.tried \cup job.todo) : Alike(job.before, job.target, c)
        /\ \A c \in ChannelSet \ job.tried : c # Here => Alike(config, job.before, c)
    BY <2>1, <2>2 DEF OnTheWayOut, HereOnly
  <2>4. job.tried \subseteq ChannelSet /\ Here \notin job.tried
    BY <1>1, <2>3, HereIsLeft DEF RoutingJobs
  <2> QED BY <2>3, <2>4, HereIsLeft, AlikeEqual DEF HereOnly
<1>9. OnTheWayBack'
  <2>1. SUFFICES ASSUME job.back, ~job.failed, NEW c \in ChannelSet \ job.todo PROVE Alike(config', job.before, c)
    BY <1>3 DEF OnTheWayBack
  <2>2. Alike(config, job.before, c) BY <2>1 DEF RoutingInv, OnTheWayBack, HereOnly
  <2> QED BY <2>1, <2>2, HereIsLeft, AlikeEqual
<1> QED BY <1>3, <1>5, <1>6, <1>7, <1>8, <1>9, NamesStay DEF RoutingInv, HereOnly

\* A channel that fails sends the preset back, or is passed over on the way.
LEMMA GivingUp ==
    ASSUME RoutingInv, HereOnly, job' = GiveUp
    PROVE  RoutingInv'
<1>1. job \in RoutingJobs BY DEF RoutingInv, RoutingTypeOK
<1>2. PICK left : left = job.todo \ {Here} OBVIOUS
<1>3. PICK more : more = IF job.todo = {Here} THEN "register" ELSE "clear" OBVIOUS
<1>4. left \in SUBSET ChannelSet /\ (left = {} <=> more = "register")
  <2>1. job.todo \in SUBSET ChannelSet BY <1>1 DEF RoutingJobs
  <2>2. Here \in job.todo BY HereIsLeft
  <2>3. left = {} <=> job.todo = {Here} BY <1>2, <2>2
  <2> QED BY <1>2, <1>3, <2>1, <2>3
<1>5. job'.step \in {"register", "clear"} => DisabledAsFar' /\ HereAsFar'
  BY DEF DisabledAsFar, HereAsFar, PresetSteps
<1>6. CASE job.back
  <2>1. job' = [[job EXCEPT !.todo = left, !.step = more] EXCEPT !.failed = TRUE]
    BY <1>2, <1>3, <1>6 DEF GiveUp, AfterHere
  <2>2. job' \in RoutingJobs BY <1>1, <1>3, <1>4, <2>1 DEF RoutingJobs, PresetSteps
  <2>3. /\ job'.kind = job.kind /\ job'.step = more /\ job'.todo = left
        /\ job'.before = job.before /\ job'.target = job.target /\ job'.back = job.back
        /\ job'.failed = TRUE /\ job'.result = job.result
    BY <1>1, <2>1 DEF RoutingJobs
  <2>4. JobPhases' BY <1>3, <1>4, <1>6, <2>3 DEF RoutingInv, JobPhases, HereOnly, PresetSteps
  <2>5. OnTheWayOut' /\ OnTheWayBack' BY <1>6, <2>3 DEF OnTheWayOut, OnTheWayBack
  <2> QED BY <1>3, <1>5, <2>2, <2>3, <2>4, <2>5, NamesStay DEF RoutingInv, RoutingTypeOK, HereOnly
<1>7. CASE ~job.back
  <2>1. job' = [job EXCEPT !.back = TRUE, !.todo = job.tried \cup {Here}, !.step = "clear"]
    BY <1>7 DEF GiveUp
  <2>2. job' \in RoutingJobs
    <3>1. PICK all : all = job.tried \cup {Here} OBVIOUS
    <3>2. all \in SUBSET ChannelSet BY <1>1, <3>1, HereIsLeft DEF RoutingJobs
    <3> QED BY <1>1, <2>1, <3>1, <3>2 DEF RoutingJobs, PresetSteps
  <2>3. /\ job'.kind = job.kind /\ job'.step = "clear" /\ job'.todo = job.tried \cup {Here}
        /\ job'.before = job.before /\ job'.target = job.target /\ job'.back = TRUE
        /\ job'.result = job.result
    BY <1>1, <2>1 DEF RoutingJobs
  <2>4. JobPhases' BY <2>3 DEF RoutingInv, JobPhases, HereOnly, PresetSteps
  <2>5. OnTheWayOut' BY <2>3 DEF OnTheWayOut
  <2>6. OnTheWayBack'
    <3>1. SUFFICES ASSUME NEW c \in ChannelSet, c \notin job.tried, c # Here PROVE Alike(config', job.before, c)
      BY <2>3 DEF OnTheWayBack
    <3>2. Alike(config, job.before, c) BY <1>7, <3>1 DEF RoutingInv, OnTheWayOut, HereOnly
    <3> QED BY <3>1, <3>2, HereIsLeft, AlikeEqual
  <2> QED BY <1>5, <2>2, <2>3, <2>4, <2>5, <2>6, NamesStay DEF RoutingInv, RoutingTypeOK, HereOnly
<1> QED BY <1>6, <1>7

\* A channel that is done is as the goal has it.
LEMMA ChannelDone ==
    ASSUME RoutingInv, HereOnly, job' = [AfterHere EXCEPT !.tried = @ \cup {Here}], Alike(config', Goal, Here)
    PROVE  RoutingInv'
<1>1. job \in RoutingJobs BY DEF RoutingInv, RoutingTypeOK
<1>2. PICK left : left = job.todo \ {Here} OBVIOUS
<1>3. PICK more : more = IF job.todo = {Here} THEN "register" ELSE "clear" OBVIOUS
<1>4. left \in SUBSET ChannelSet /\ (left = {} <=> more = "register")
  <2>1. job.todo \in SUBSET ChannelSet BY <1>1 DEF RoutingJobs
  <2>2. Here \in job.todo BY HereIsLeft
  <2>3. left = {} <=> job.todo = {Here} BY <1>2, <2>2
  <2> QED BY <1>2, <1>3, <2>1, <2>3
<1>5. AfterHere = [job EXCEPT !.todo = left, !.step = more] BY <1>2, <1>3 DEF AfterHere
<1>6. AfterHere.tried = job.tried BY <1>1, <1>5 DEF RoutingJobs
<1>7. job' = [[job EXCEPT !.todo = left, !.step = more] EXCEPT !.tried = job.tried \cup {Here}]
  BY <1>5, <1>6
<1>8. job' \in RoutingJobs
  <2>1. PICK all : all = job.tried \cup {Here} OBVIOUS
  <2>2. all \in SUBSET ChannelSet BY <1>1, <2>1, HereIsLeft DEF RoutingJobs
  <2> QED BY <1>1, <1>3, <1>4, <1>7, <2>1, <2>2 DEF RoutingJobs, PresetSteps
<1>9. /\ job'.kind = job.kind /\ job'.step = more /\ job'.todo = left /\ job'.tried = job.tried \cup {Here}
      /\ job'.before = job.before /\ job'.target = job.target /\ job'.back = job.back
      /\ job'.failed = job.failed /\ job'.result = job.result
  BY <1>1, <1>7 DEF RoutingJobs
<1>10. JobPhases' BY <1>3, <1>4, <1>9 DEF RoutingInv, JobPhases, HereOnly, PresetSteps
<1>11. DisabledAsFar' /\ HereAsFar' BY <1>3, <1>9 DEF DisabledAsFar, HereAsFar, PresetSteps
<1>12. OnTheWayOut'
  <2>1. SUFFICES ASSUME ~job.back
                 PROVE  /\ (job.tried \cup {Here}) \cap left = {} /\ (job.tried \cup {Here}) \cup left # {}
                        /\ \A c \in job.tried \cup {Here} : Alike(config', job.target, c)
                        /\ \A c \in ChannelSet \ ((job.tried \cup {Here}) \cup left) :
                              Alike(job.before, job.target, c)
                        /\ \A c \in ChannelSet \ (job.tried \cup {Here}) : Alike(config', job.before, c)
    BY <1>9 DEF OnTheWayOut
  <2>2. /\ job.tried \cap job.todo = {}
        /\ \A c \in job.tried : Alike(config, job.target, c)
        /\ \A c \in ChannelSet \ (job.tried \cup job.todo) : Alike(job.before, job.target, c)
        /\ \A c \in ChannelSet \ job.tried : c # Here => Alike(config, job.before, c)
    BY <2>1 DEF RoutingInv, OnTheWayOut, HereOnly
  <2>3. job.tried \subseteq ChannelSet BY <1>1 DEF RoutingJobs
  <2>4. Goal = job.target BY <2>1 DEF Goal
  <2>5. (job.tried \cup {Here}) \cup left = job.tried \cup job.todo BY <1>2, HereIsLeft
  <2>6. \A c \in job.tried : Alike(config', job.target, c) BY <2>2, <2>3, HereIsLeft, AlikeEqual
  <2>7. \A c \in ChannelSet \ (job.tried \cup {Here}) : Alike(config', job.before, c)
    BY <2>2, HereIsLeft, AlikeEqual
  <2> QED BY <1>2, <2>2, <2>4, <2>5, <2>6, <2>7
<1>13. OnTheWayBack'
  <2>1. SUFFICES ASSUME job.back, ~job.failed, NEW c \in ChannelSet \ left PROVE Alike(config', job.before, c)
    BY <1>9 DEF OnTheWayBack
  <2>2. CASE c = Here BY <2>1, <2>2 DEF Goal
  <2>3. CASE c # Here
    <3>1. Alike(config, job.before, c) BY <1>2, <2>1, <2>3 DEF RoutingInv, OnTheWayBack, HereOnly
    <3> QED BY <2>1, <2>3, <3>1, HereIsLeft, AlikeEqual
  <2> QED BY <2>2, <2>3
<1> QED BY <1>8, <1>9, <1>10, <1>11, <1>12, <1>13, NamesStay DEF RoutingInv, RoutingTypeOK, HereOnly

\* The next step has the same channel in hand, and the same goal.
LEMMA HereStays ==
    ASSUME RoutingInv, NEW step \in PresetSteps, job' = [job EXCEPT !.step = step]
    PROVE  job'.step = step /\ HereModels' = HereModels /\ Goal' = Goal
<1>1. job \in RoutingJobs BY DEF RoutingInv, RoutingTypeOK
<1>2. /\ job'.step = step /\ job'.todo = job.todo /\ job'.before = job.before
      /\ job'.target = job.target /\ job'.back = job.back
  BY <1>1 DEF RoutingJobs
<1> QED BY <1>2 DEF Here, HereModels, Goal

\* What the steps compare and write has its type.
LEMMA GoalTyped ==
    ASSUME RoutingInv
    PROVE  config \in Configs /\ Goal \in Configs /\ job \in RoutingJobs
BY DEF RoutingInv, RoutingTypeOK, RoutingJobs, Goal

\* The aliases of the channel go first.
LEMMA ClearAliasesInv == RoutingInv /\ ClearAliases => RoutingInv'
<1> SUFFICES ASSUME RoutingInv, ClearAliases PROVE RoutingInv' OBVIOUS
<1>1. PICK plain : plain = [m \in RoutedModels |-> IF m \in HereModels THEN NoAlias ELSE config.alias[m]]
  OBVIOUS
<1>2. PICK new : new = [config EXCEPT !.alias = plain] OBVIOUS
<1>3. /\ Working("clear")
      /\ \/ config' = new /\ job' = NextStep("off")
         \/ config' \in {config, new} /\ job' = GiveUp
  BY <1>1, <1>2 DEF ClearAliases, Request
<1>4. plain \in [RoutedModels -> UNION {AliasChoices(m) : m \in RoutedModels}]
  <2>1. ASSUME NEW m \in RoutedModels PROVE plain[m] \in UNION {AliasChoices(n) : n \in RoutedModels}
    BY <1>1, <2>1, GoalTyped DEF Configs, AliasChoices
  <2> QED BY <1>1, <2>1
<1>5. new \in Configs /\ new.on = config.on /\ new.caps = config.caps /\ new.alias = plain
  BY <1>2, <1>4, GoalTyped DEF Configs
<1>6. SameOutside(new, config, HereModels) /\ SameOutside(config, config, HereModels)
  BY <1>1, <1>5 DEF SameOutside
<1>7. HereOnly BY <1>3, <1>5, <1>6, GoalTyped DEF HereOnly, Working, PresetSteps
<1>8. CASE job' = NextStep("off")
  <2>1. job' = [job EXCEPT !.step = "off"] /\ "off" \in PresetSteps BY <1>8 DEF NextStep, PresetSteps
  <2>2. HereAsFar' BY <2>1, HereStays DEF HereAsFar
  <2> QED BY <1>7, <2>1, <2>2, WorkOn
<1> QED BY <1>3, <1>7, <1>8, GivingUp

\* Models that are not of the goal are turned off, one at a time.
LEMMA TurnOffInv == RoutingInv /\ TurnOff => RoutingInv'
<1> SUFFICES ASSUME RoutingInv, TurnOff PROVE RoutingInv' OBVIOUS
<1>1. Working("off") BY DEF TurnOff
<1>2. CASE HereModels \cap config.on \subseteq Goal.on
  <2>1. config' = config /\ job' = [job EXCEPT !.step = "on"] /\ "on" \in PresetSteps
    BY <1>2 DEF TurnOff, NextStep, PresetSteps
  <2>2. HereOnly BY <1>1, <2>1, GoalTyped DEF HereOnly, Working, SameOutside, PresetSteps
  <2>3. HereAsFar' BY <1>2, <2>1, HereStays DEF HereAsFar
  <2> QED BY <2>1, <2>2, <2>3, WorkOn
<1>3. CASE ~(HereModels \cap config.on \subseteq Goal.on)
  <2>1. PICK m \in (HereModels \cap config.on) \ Goal.on :
            \/ config' = [config EXCEPT !.on = @ \ {m}, !.caps = @ \ {m}] /\ UNCHANGED job
            \/ /\ \E off \in SUBSET {m}, cap \in SUBSET {m} :
                     config' = [config EXCEPT !.on = @ \ off, !.caps = @ \ cap]
               /\ job' = GiveUp
    BY <1>3 DEF TurnOff
  <2>2. PICK off \in SUBSET {m}, cap \in SUBSET {m} :
            config' = [config EXCEPT !.on = @ \ off, !.caps = @ \ cap]
    BY <2>1
  <2>3. PICK on, caps : on = config.on \ off /\ caps = config.caps \ cap OBVIOUS
  <2>4. config' = [config EXCEPT !.on = on, !.caps = caps] BY <2>2, <2>3
  <2>5. on \in SUBSET RoutedModels /\ caps \in SUBSET Capped BY <2>3, GoalTyped DEF Configs
  <2>6. config' \in Configs /\ config'.on = on /\ config'.caps = caps /\ config'.alias = config.alias
    BY <2>4, <2>5, GoalTyped DEF Configs
  <2>7. SameOutside(config', config, HereModels) BY <2>1, <2>2, <2>3, <2>6 DEF SameOutside
  <2>8. HereOnly BY <1>1, <2>6, <2>7 DEF HereOnly, Working, PresetSteps
  <2>9. CASE UNCHANGED job
    <3>1. job' = [job EXCEPT !.step = "off"] /\ "off" \in PresetSteps
      BY <1>1, <2>9, GoalTyped DEF RoutingJobs, Working, PresetSteps
    <3>2. HereAsFar' BY <3>1, HereStays DEF HereAsFar
    <3> QED BY <2>8, <3>1, <3>2, WorkOn
  <2> QED BY <2>1, <2>8, <2>9, GivingUp
<1> QED BY <1>2, <1>3

\* Models of the goal are turned on, one at a time.
LEMMA TurnOnInv == RoutingInv /\ TurnOn => RoutingInv'
<1> SUFFICES ASSUME RoutingInv, TurnOn PROVE RoutingInv' OBVIOUS
<1>1. Working("on") BY DEF TurnOn
<1>2. HereModels \cap config.on \subseteq Goal.on
  BY <1>1 DEF RoutingInv, HereAsFar, Working, PresetSteps
<1>3. CASE HereModels \cap Goal.on \subseteq config.on
  <2>1. config' = config /\ job' = [job EXCEPT !.step = "alias"] /\ "alias" \in PresetSteps
    BY <1>3 DEF TurnOn, NextStep, PresetSteps
  <2>2. HereOnly BY <1>1, <2>1, GoalTyped DEF HereOnly, Working, SameOutside, PresetSteps
  <2>3. HereModels \cap config.on = HereModels \cap Goal.on BY <1>2, <1>3
  <2>4. HereAsFar' BY <2>1, <2>3, HereStays DEF HereAsFar
  <2> QED BY <2>1, <2>2, <2>4, WorkOn
<1>4. CASE ~(HereModels \cap Goal.on \subseteq config.on)
  <2>1. PICK m \in (HereModels \cap Goal.on) \ config.on :
            Request([config EXCEPT !.on = @ \cup {m}], job, GiveUp)
    BY <1>4 DEF TurnOn
  <2>2. PICK on : on = config.on \cup {m} OBVIOUS
  <2>3. PICK new : new = [config EXCEPT !.on = on] OBVIOUS
  <2>4. \/ config' = new /\ job' = job
        \/ config' \in {config, new} /\ job' = GiveUp
    BY <2>1, <2>2, <2>3 DEF Request
  <2>5. on \in SUBSET RoutedModels BY <2>1, <2>2, GoalTyped DEF Configs
  <2>6. new \in Configs /\ new.on = on /\ new.caps = config.caps /\ new.alias = config.alias
    BY <2>3, <2>5, GoalTyped DEF Configs
  <2>7. SameOutside(new, config, HereModels) /\ SameOutside(config, config, HereModels)
    BY <2>1, <2>2, <2>6 DEF SameOutside
  <2>8. HereOnly BY <1>1, <2>4, <2>6, <2>7, GoalTyped DEF HereOnly, Working, PresetSteps
  <2>9. CASE config' = new /\ job' = job
    <3>1. job' = [job EXCEPT !.step = "on"] /\ "on" \in PresetSteps
      BY <1>1, <2>9, GoalTyped DEF RoutingJobs, Working, PresetSteps
    <3>2. HereModels \cap new.on \subseteq Goal.on BY <1>2, <2>1, <2>2, <2>6
    <3>3. HereAsFar' BY <2>9, <3>1, <3>2, HereStays DEF HereAsFar
    <3> QED BY <2>8, <3>1, <3>3, WorkOn
  <2> QED BY <2>4, <2>8, <2>9, GivingUp
<1> QED BY <1>3, <1>4

\* The aliases of the goal are given to the models that are on.
LEMMA GiveAliasesInv == RoutingInv /\ GiveAliases => RoutingInv'
<1> SUFFICES ASSUME RoutingInv, GiveAliases PROVE RoutingInv' OBVIOUS
<1>1. PICK given : given = [m \in RoutedModels |->
                      IF m \in HereModels \cap config.on THEN Goal.alias[m] ELSE config.alias[m]]
  OBVIOUS
<1>2. PICK new : new = [config EXCEPT !.alias = given] OBVIOUS
<1>3. /\ Working("alias")
      /\ \/ config' = new /\ job' = NextStep("caps")
         \/ config' \in {config, new} /\ job' = GiveUp
  BY <1>1, <1>2 DEF GiveAliases, Request
<1>4. given \in [RoutedModels -> UNION {AliasChoices(m) : m \in RoutedModels}]
  <2>1. ASSUME NEW m \in RoutedModels PROVE given[m] \in UNION {AliasChoices(n) : n \in RoutedModels}
    BY <1>1, <2>1, GoalTyped DEF Configs
  <2> QED BY <1>1, <2>1
<1>5. new \in Configs /\ new.on = config.on /\ new.caps = config.caps /\ new.alias = given
  BY <1>2, <1>4, GoalTyped DEF Configs
<1>6. SameOutside(new, config, HereModels) /\ SameOutside(config, config, HereModels)
  BY <1>1, <1>5 DEF SameOutside
<1>7. HereOnly BY <1>3, <1>5, <1>6, GoalTyped DEF HereOnly, Working, PresetSteps
<1>8. CASE config' = new /\ job' = NextStep("caps")
  <2>1. job' = [job EXCEPT !.step = "caps"] /\ "caps" \in PresetSteps BY <1>8 DEF NextStep, PresetSteps
  <2>2. HereModels \cap config.on = HereModels \cap Goal.on
    BY <1>3 DEF RoutingInv, HereAsFar, Working, PresetSteps
  <2>3. \A m \in HereModels \cap new.on : new.alias[m] = Goal.alias[m]
    <3>1. config.on \subseteq RoutedModels BY GoalTyped DEF Configs
    <3> QED BY <1>1, <1>5, <3>1
  <2>4. HereAsFar' BY <1>5, <1>8, <2>1, <2>2, <2>3, HereStays DEF HereAsFar
  <2> QED BY <1>7, <2>1, <2>4, WorkOn
<1> QED BY <1>3, <1>7, <1>8, GivingUp

\* With the efforts the channel is done.
LEMMA GiveCapsInv == RoutingInv /\ GiveCaps => RoutingInv'
<1> SUFFICES ASSUME RoutingInv, GiveCaps PROVE RoutingInv' OBVIOUS
<1>1. PICK set : set = HereModels \cap config.on OBVIOUS
<1>2. PICK caps : caps = (config.caps \ set) \cup (Goal.caps \cap set) OBVIOUS
<1>3. PICK new : new = [config EXCEPT !.caps = caps] OBVIOUS
<1>4. /\ Working("caps")
      /\ \/ config' = new /\ job' = [AfterHere EXCEPT !.tried = @ \cup {Here}]
         \/ config' \in {config, new} /\ job' = GiveUp
  BY <1>1, <1>2, <1>3 DEF GiveCaps, Request
<1>5. caps \in SUBSET Capped BY <1>2, GoalTyped DEF Configs
<1>6. new \in Configs /\ new.on = config.on /\ new.alias = config.alias /\ new.caps = caps
  BY <1>3, <1>5, GoalTyped DEF Configs
<1>7. SameOutside(new, config, HereModels) /\ SameOutside(config, config, HereModels)
  BY <1>1, <1>2, <1>6 DEF SameOutside
<1>8. HereOnly BY <1>4, <1>6, <1>7, GoalTyped DEF HereOnly, Working, PresetSteps
<1>9. Alike(new, Goal, Here)
  <2>1. /\ HereModels \cap config.on = HereModels \cap Goal.on
        /\ \A m \in HereModels \cap config.on : config.alias[m] = Goal.alias[m]
    BY <1>4 DEF RoutingInv, HereAsFar, Working, PresetSteps
  <2>2. SUFFICES ASSUME NEW m \in HereModels PROVE AlikeAt(new, Goal, m) BY DEF Alike, HereModels
  <2> QED BY <1>1, <1>2, <1>6, <2>1, <2>2 DEF AlikeAt
<1>10. CASE config' = new /\ job' = [AfterHere EXCEPT !.tried = @ \cup {Here}]
  BY <1>8, <1>9, <1>10, ChannelDone
<1> QED BY <1>4, <1>8, <1>10, GivingUp

-----------------------------------------------------------------------------
(* The begin and the end of jobs, and the jobs of one setting.             *)

\* A new job remembers what it found.
LEMMA JobBegun ==
    ASSUME RoutingInv, NEW kind \in {"one", "disable", "apply"},
           NEW step \in {"unalias", "register", "end", "clear"}
    PROVE  \E begun \in RoutingJobs :
               /\ begun = BeginJob(kind, step)
               /\ begun.kind = kind /\ begun.step = step
               /\ begun.before = config /\ begun.target = config
               /\ begun.todo = {} /\ begun.tried = {}
               /\ begun.back = FALSE /\ begun.failed = FALSE
               /\ begun.result = ""
<1> PICK begun : begun = BeginJob(kind, step) OBVIOUS
<1>1. NoJob \in RoutingJobs BY PlainNames DEF NoJob, RoutingJobs
<1>2. /\ NoJob.todo = {} /\ NoJob.tried = {} /\ NoJob.result = ""
      /\ NoJob.back = FALSE /\ NoJob.failed = FALSE
  BY DEF NoJob
<1>3. begun = [NoJob EXCEPT !.kind = kind, !.step = step, !.before = config, !.target = config]
  BY DEF BeginJob
<1>4. begun \in RoutingJobs
  <2>1. config \in Configs BY GoalTyped
  <2>2. step \in {"idle", "unalias", "uncap", "register", "end"} \cup PresetSteps BY DEF PresetSteps
  <2> QED BY <1>1, <1>3, <2>1, <2>2 DEF RoutingJobs
<1>5. /\ begun.kind = kind /\ begun.step = step /\ begun.before = config /\ begun.target = config
      /\ begun.todo = NoJob.todo /\ begun.tried = NoJob.tried /\ begun.back = NoJob.back
      /\ begun.failed = NoJob.failed /\ begun.result = NoJob.result
  BY <1>1, <1>3 DEF RoutingJobs
<1> QED BY <1>2, <1>4, <1>5

\* A setting is written, or fails, between valid names.
LEMMA OneSetting ==
    ASSUME RoutingInv, PresetFree, NEW new \in Configs, doubtful' = doubtful,
           ~doubtful => ValidNames(new),
           Request(new, BeginJob("one", "register"), Failed1)
    PROVE  RoutingInv'
<1>1. config' \in {config, new} /\ job' \in {BeginJob("one", "register"), Failed1} BY DEF Request
<1>2. config' \in Configs BY <1>1, GoalTyped
<1>3. ~doubtful => ValidNames(config) BY DEF RoutingInv, NamesAsFar, PresetFree
<1>4. /\ job' \in RoutingJobs /\ job'.kind = "one" /\ job'.step \in {"register", "end"}
      /\ job'.before = config /\ job'.result \in {"", "failed"}
      /\ job'.step # "end" => job'.result = ""
  <2>1. PICK begun \in RoutingJobs :
            /\ begun = BeginJob("one", "register") /\ begun.kind = "one" /\ begun.step = "register"
            /\ begun.before = config /\ begun.result = ""
    BY ZenonT(60), JobBegun
  <2>2. PICK over \in RoutingJobs :
            /\ over = BeginJob("one", "end") /\ over.kind = "one" /\ over.step = "end"
            /\ over.before = config
    BY JobBegun
  <2>3. CASE job' = BeginJob("one", "register") BY <2>1, <2>3
  <2>4. CASE job' = Failed1
    <3>1. job' = [over EXCEPT !.result = "failed"] BY <2>2, <2>4 DEF Failed1
    <3>2. job' \in RoutingJobs BY <2>2, <3>1 DEF RoutingJobs
    <3>3. /\ job'.kind = over.kind /\ job'.step = over.step
          /\ job'.before = over.before /\ job'.result = "failed"
      BY <2>2, <3>1 DEF RoutingJobs
    <3> QED BY <2>2, <3>2, <3>3
  <2> QED BY <1>1, <2>3, <2>4
<1>5. JobPhases' BY <1>4 DEF JobPhases, PresetSteps
<1>6. HereAsFar' /\ OnTheWayOut' /\ OnTheWayBack' /\ DisabledAsFar'
  BY <1>4 DEF HereAsFar, OnTheWayOut, OnTheWayBack, DisabledAsFar, PresetSteps
<1>7. ~doubtful => ValidNames(config') BY <1>1, <1>3
<1>8. NamesAsFar' BY <1>3, <1>4, <1>7 DEF NamesAsFar
<1> QED BY <1>2, <1>4, <1>5, <1>6, <1>8 DEF RoutingInv, RoutingTypeOK

\* A model is turned on under the check of its names.
LEMMA EnableModelInv ==
    ASSUME RoutingInv, NEW m \in RoutedModels, EnableModel(m)
    PROVE  RoutingInv'
<1>1. PICK on : on = config.on \cup {m} OBVIOUS
<1>2. PICK new : new = [config EXCEPT !.on = on] OBVIOUS
<1>3. /\ PresetFree /\ ValidNames(new) /\ doubtful' = doubtful
      /\ Request(new, BeginJob("one", "register"), Failed1)
  BY <1>1, <1>2 DEF EnableModel
<1>4. on \in SUBSET RoutedModels BY <1>1, GoalTyped DEF Configs
<1>5. new \in Configs BY <1>2, <1>4, GoalTyped DEF Configs
<1> QED BY <1>3, <1>5, OneSetting

\* So are the aliases of a channel.
LEMMA SetAliasesInv ==
    ASSUME RoutingInv, NEW c \in ChannelSet, SetAliases(c)
    PROVE  RoutingInv'
<1>1. PICK choice \in [ModelsOf[c] -> UNION {AliasChoices(m) : m \in ModelsOf[c]}] :
        LET new == [config EXCEPT !.alias = [m \in RoutedModels |->
                        IF m \in ModelsOf[c] THEN choice[m] ELSE @[m]]] IN
        /\ PresetFree /\ \A m \in ModelsOf[c] : choice[m] \in AliasChoices(m)
        /\ \A m \in ModelsOf[c] \ config.on : choice[m] = NoAlias
        /\ new # config /\ ValidNames(new)
        /\ Request(new, BeginJob("one", "register"), Failed1)
        /\ UNCHANGED doubtful
  BY DEF SetAliases
<1>2. PICK given : given = [m \in RoutedModels |-> IF m \in ModelsOf[c] THEN choice[m] ELSE config.alias[m]]
  OBVIOUS
<1>3. PICK new : new = [config EXCEPT !.alias = given] OBVIOUS
<1>4. /\ PresetFree /\ ValidNames(new) /\ doubtful' = doubtful
      /\ Request(new, BeginJob("one", "register"), Failed1)
  BY <1>1, <1>2, <1>3
<1>5. given \in [RoutedModels -> UNION {AliasChoices(m) : m \in RoutedModels}]
  <2>1. ASSUME NEW m \in RoutedModels PROVE given[m] \in UNION {AliasChoices(n) : n \in RoutedModels}
    BY <1>1, <1>2, <2>1, GoalTyped DEF Configs
  <2> QED BY <1>2, <2>1
<1>6. new \in Configs BY <1>3, <1>5, GoalTyped DEF Configs
<1> QED BY <1>4, <1>6, OneSetting

\* Efforts have no part in the names.
LEMMA SetCapsInv ==
    ASSUME RoutingInv, NEW c \in ChannelSet, SetCaps(c)
    PROVE  RoutingInv'
<1>1. PICK set \in SUBSET (Capped \cap ModelsOf[c] \cap config.on) :
        LET new == [config EXCEPT !.caps = (@ \ (ModelsOf[c] \cap config.on)) \cup set] IN
        /\ PresetFree /\ new # config
        /\ Request(new, BeginJob("one", "register"), Failed1)
        /\ UNCHANGED doubtful
  BY DEF SetCaps
<1>2. PICK caps : caps = (config.caps \ (ModelsOf[c] \cap config.on)) \cup set OBVIOUS
<1>3. PICK new : new = [config EXCEPT !.caps = caps] OBVIOUS
<1>4. /\ PresetFree /\ doubtful' = doubtful
      /\ Request(new, BeginJob("one", "register"), Failed1)
  BY <1>1, <1>2, <1>3
<1>5. caps \in SUBSET Capped BY <1>1, <1>2, GoalTyped DEF Configs
<1>6. new \in Configs /\ new.on = config.on /\ new.alias = config.alias BY <1>3, <1>5, GoalTyped DEF Configs
<1>7. ~doubtful => ValidNames(config) BY <1>4 DEF RoutingInv, NamesAsFar, PresetFree
<1>8. ~doubtful => ValidNames(new) BY <1>6, <1>7, NamesFewer
<1> QED BY <1>4, <1>6, <1>8, OneSetting

\* Turning a model off takes names away.
LEMMA DisableModelInv ==
    ASSUME RoutingInv, NEW m \in RoutedModels, DisableModel(m)
    PROVE  RoutingInv'
<1>1. PICK on : on = config.on \ {m} OBVIOUS
<1>2. PICK new : new = [config EXCEPT !.on = on] OBVIOUS
<1>3. PICK begun : begun = [BeginJob("disable", "unalias") EXCEPT !.model = m] OBVIOUS
<1>4. /\ PresetFree /\ m \in config.on /\ doubtful' = doubtful
      /\ \/ config' = new /\ job' = begun
         \/ config' \in {config, new} /\ job' = Failed1
  BY <1>1, <1>2, <1>3 DEF DisableModel, Request
<1>5. on \in SUBSET RoutedModels BY <1>1, GoalTyped DEF Configs
<1>6. new \in Configs /\ new.on = on /\ new.alias = config.alias /\ new.caps = config.caps
  BY <1>2, <1>5, GoalTyped DEF Configs
<1>7. ~doubtful => ValidNames(config) BY <1>4 DEF RoutingInv, NamesAsFar, PresetFree
<1>8. ~doubtful => ValidNames(new) BY <1>1, <1>6, <1>7, NamesFewer
<1>9. CASE job' = Failed1
  BY <1>4, <1>6, <1>8, <1>9, OneSetting DEF Request
<1>10. CASE config' = new /\ job' = begun
  <2>1. PICK base \in RoutingJobs :
            /\ base = BeginJob("disable", "unalias") /\ base.kind = "disable" /\ base.step = "unalias"
            /\ base.before = config /\ base.result = ""
    BY JobBegun
  <2>2. begun = [base EXCEPT !.model = m] BY <1>3, <2>1
  <2>3. begun \in RoutingJobs /\ begun.model = m /\ begun.kind = "disable" /\ begun.step = "unalias"
        /\ begun.before = config /\ begun.result = ""
    BY <2>1, <2>2 DEF RoutingJobs
  <2>4. JobPhases' BY <1>10, <2>3 DEF JobPhases, PresetSteps
  <2>5. HereAsFar' /\ OnTheWayOut' /\ OnTheWayBack'
    BY <1>10, <2>3 DEF HereAsFar, OnTheWayOut, OnTheWayBack, PresetSteps
  <2>6. DisabledAsFar' BY <1>1, <1>4, <1>6, <1>10, <2>3 DEF DisabledAsFar
  <2>7. NamesAsFar' BY <1>4, <1>7, <1>8, <1>10, <2>3 DEF NamesAsFar
  <2> QED BY <1>4, <1>6, <1>10, <2>3, <2>4, <2>5, <2>6, <2>7 DEF RoutingInv, RoutingTypeOK
<1> QED BY <1>4, <1>9, <1>10

\* The steps of a disabled model leave another configuration of the same job.
LEMMA DisableMoves ==
    ASSUME RoutingInv, job.kind = "disable", config' \in Configs, doubtful' \in BOOLEAN,
           doubtful => doubtful', ~doubtful' => ValidNames(config'),
           NEW step \in {"uncap", "register", "end"}, NEW result \in {"", "undone", "broken"},
           step # "end" => result = "",
           job' = [job EXCEPT !.step = step, !.result = result],
           step = "uncap" => /\ job.step = "unalias" /\ config'.on = config.on /\ config'.caps = config.caps
                             /\ config'.alias = [config.alias EXCEPT ![job.model] = NoAlias]
    PROVE  RoutingInv'
<1>1. job \in RoutingJobs BY GoalTyped
<1>2. job' \in RoutingJobs BY <1>1 DEF RoutingJobs
<1>3. /\ job'.kind = "disable" /\ job'.step = step /\ job'.result = result
      /\ job'.before = job.before /\ job'.model = job.model
  BY <1>1 DEF RoutingJobs
<1>4. JobPhases' BY <1>3 DEF JobPhases, PresetSteps
<1>5. HereAsFar' /\ OnTheWayOut' /\ OnTheWayBack'
  BY <1>3 DEF HereAsFar, OnTheWayOut, OnTheWayBack, PresetSteps
<1>6. DisabledAsFar'
  <2>1. CASE step = "uncap"
    <3>1. /\ job.step = "unalias" /\ config'.on = config.on /\ config'.caps = config.caps
          /\ config'.alias = [config.alias EXCEPT ![job.model] = NoAlias]
      BY <2>1
    <3>2. DisabledAsFar BY DEF RoutingInv
    <3>3. /\ job.model \in job.before.on /\ config.on = job.before.on \ {job.model}
          /\ config.caps = job.before.caps /\ config.alias = job.before.alias
      BY <3>1, <3>2 DEF DisabledAsFar
    <3>4. config'.on = job'.before.on \ {job'.model} /\ config'.caps = job'.before.caps
      BY <1>3, <3>1, <3>3
    <3>5. config'.alias = [job'.before.alias EXCEPT ![job'.model] = NoAlias] BY <1>3, <3>1, <3>3
    <3>6. job'.model \in job'.before.on /\ job'.step = "uncap" BY <1>3, <2>1, <3>3
    <3> QED BY <3>4, <3>5, <3>6 DEF DisabledAsFar
  <2>2. CASE step # "uncap"
    <3>1. job'.step \notin {"unalias", "uncap"} BY <1>3, <2>2
    <3> QED BY <3>1 DEF DisabledAsFar
  <2> QED BY <2>1, <2>2
<1>7. ~doubtful => ValidNames(job.before) BY DEF RoutingInv, NamesAsFar
<1>8. NamesAsFar' BY <1>3, <1>7 DEF NamesAsFar
<1> QED BY <1>2, <1>4, <1>5, <1>6, <1>8 DEF RoutingInv, RoutingTypeOK

\* What is written back is the configuration of before, as far as it is.
LEMMA UndoneTyped ==
    ASSUME RoutingInv, NEW cfg \in Configs, NEW undone \in SUBSET {"on", "alias"}, "on" \in undone,
           Undo(cfg, undone)
    PROVE  /\ config' \in Configs /\ config'.caps = cfg.caps
           /\ \E result \in {"undone", "broken"} :
                 job' = [job EXCEPT !.step = "end", !.result = result] /\ job'.result = result
           /\ job'.result # "broken" =>
                 /\ config'.on = job.before.on
                 /\ config'.alias = IF "alias" \in undone THEN job.before.alias ELSE cfg.alias
<1>1. job \in RoutingJobs /\ job.before \in Configs BY GoalTyped DEF RoutingJobs
<1>2. PICK left \in SUBSET {"on", "alias"} :
        /\ config' = [cfg EXCEPT !.on = IF "on" \in undone \ left THEN job.before.on ELSE @,
                                 !.alias = IF "alias" \in undone \ left THEN job.before.alias ELSE @]
        /\ job' = Ended(IF undone \cap left = {} THEN "undone" ELSE "broken")
  BY DEF Undo
<1>3. PICK on : on = IF "on" \in undone \ left THEN job.before.on ELSE cfg.on OBVIOUS
<1>4. PICK alias : alias = IF "alias" \in undone \ left THEN job.before.alias ELSE cfg.alias OBVIOUS
<1>5. PICK result : result = IF undone \cap left = {} THEN "undone" ELSE "broken" OBVIOUS
<1>6. config' = [cfg EXCEPT !.on = on, !.alias = alias] BY <1>2, <1>3, <1>4
<1>7. on \in SUBSET RoutedModels BY <1>1, <1>3 DEF Configs
<1>8. alias \in [RoutedModels -> UNION {AliasChoices(m) : m \in RoutedModels}] BY <1>1, <1>4 DEF Configs
<1>9. config' \in Configs /\ config'.on = on /\ config'.alias = alias /\ config'.caps = cfg.caps
  BY <1>6, <1>7, <1>8 DEF Configs
<1>10. result \in {"undone", "broken"} /\ job' = [job EXCEPT !.step = "end", !.result = result]
  BY <1>2, <1>5 DEF Ended
<1>11. job'.result = result BY <1>1, <1>10 DEF RoutingJobs
<1> QED BY <1>3, <1>4, <1>5, <1>9, <1>10, <1>11

\* Without its alias, a model that is off has no names; one that is on again
\* without it is not as it was, which is noted.
LEMMA RemoveAliasInv == RoutingInv /\ RemoveAlias => RoutingInv'
<1> SUFFICES ASSUME RoutingInv, RemoveAlias PROVE RoutingInv' OBVIOUS
<1>1. PICK plain : plain = [config.alias EXCEPT ![job.model] = NoAlias] OBVIOUS
<1>2. PICK gone : gone = [config EXCEPT !.alias = plain] OBVIOUS
<1>3. /\ job.kind = "disable" /\ job.step = "unalias"
      /\ \/ /\ config' = gone /\ job' = [job EXCEPT !.step = "uncap"] /\ doubtful' = doubtful
         \/ (\E cfg \in {config, gone} : Undo(cfg, {"on"})) /\ doubtful' = (doubtful \/ config' # job.before)
         \/ Undo(gone, {"on", "alias"}) /\ doubtful' = (doubtful \/ job'.result = "broken")
  BY <1>1, <1>2 DEF RemoveAlias
<1>4. doubtful \in BOOLEAN BY DEF RoutingInv, RoutingTypeOK
<1>5. plain \in [RoutedModels -> UNION {AliasChoices(m) : m \in RoutedModels}]
  <2>1. \A m \in RoutedModels : NoAlias \in UNION {AliasChoices(n) : n \in RoutedModels}
    BY DEF AliasChoices
  <2> QED BY <1>1, <2>1, GoalTyped DEF Configs
<1>6. gone \in Configs /\ gone.on = config.on /\ gone.caps = config.caps /\ gone.alias = plain
  BY <1>2, <1>5, GoalTyped DEF Configs
<1>7. /\ job.model \in job.before.on /\ config.on = job.before.on \ {job.model}
      /\ config.caps = job.before.caps /\ config.alias = job.before.alias
  BY <1>3 DEF RoutingInv, DisabledAsFar
<1>8. ~doubtful => ValidNames(job.before) BY DEF RoutingInv, NamesAsFar
<1>9. CASE config' = gone /\ job' = [job EXCEPT !.step = "uncap"] /\ doubtful' = doubtful
  <2>1. job.result = "" BY <1>3 DEF RoutingInv, JobPhases
  <2>2. job' = [job EXCEPT !.step = "uncap", !.result = ""] BY <1>9, <2>1, GoalTyped DEF RoutingJobs
  <2>3. \A m \in RoutedModels : m \in gone.on => m \in job.before.on /\ gone.alias[m] = job.before.alias[m]
    <3>1. config.alias \in [RoutedModels -> UNION {AliasChoices(m) : m \in RoutedModels}]
      BY GoalTyped DEF Configs
    <3> QED BY <1>1, <1>6, <1>7, <3>1
  <2>4. ~doubtful => ValidNames(config') BY <1>8, <1>9, <2>3, NamesFewer
  <2> QED BY <1>1, <1>3, <1>4, <1>6, <1>9, <2>2, <2>4, DisableMoves
<1>10. CASE (\E cfg \in {config, gone} : Undo(cfg, {"on"})) /\ doubtful' = (doubtful \/ config' # job.before)
  <2>1. PICK cfg \in {config, gone} : Undo(cfg, {"on"}) BY <1>10
  <2>2. /\ config' \in Configs
        /\ \E result \in {"undone", "broken"} :
              job' = [job EXCEPT !.step = "end", !.result = result] /\ job'.result = result
    BY <1>6, <2>1, UndoneTyped, GoalTyped
  <2>3. doubtful' \in BOOLEAN /\ (doubtful => doubtful')
        /\ (~doubtful' => config' = job.before /\ ~doubtful)
    BY <1>4, <1>10
  <2>4. ~doubtful' => ValidNames(config') BY <1>8, <2>3
  <2> QED BY <1>3, <2>2, <2>3, <2>4, DisableMoves
<1>11. CASE Undo(gone, {"on", "alias"}) /\ doubtful' = (doubtful \/ job'.result = "broken")
  <2>1. /\ config' \in Configs
        /\ \E result \in {"undone", "broken"} :
              job' = [job EXCEPT !.step = "end", !.result = result] /\ job'.result = result
        /\ job'.result # "broken" => config'.on = job.before.on /\ config'.alias = job.before.alias
    BY <1>6, <1>11, UndoneTyped
  <2>2. doubtful' \in BOOLEAN /\ (doubtful => doubtful')
        /\ (~doubtful' => job'.result # "broken" /\ ~doubtful)
    BY <1>4, <1>11
  <2>3. ~doubtful' => ValidNames(config') BY <1>8, <2>1, <2>2, NamesFewer
  <2> QED BY <1>3, <2>1, <2>2, <2>3, DisableMoves
<1> QED BY <1>3, <1>9, <1>10, <1>11

\* Efforts have no part in the names; what is undone has those of before.
LEMMA RemoveCapInv == RoutingInv /\ RemoveCap => RoutingInv'
<1> SUFFICES ASSUME RoutingInv, RemoveCap PROVE RoutingInv' OBVIOUS
<1>1. PICK caps : caps = config.caps \ {job.model} OBVIOUS
<1>2. PICK gone : gone = [config EXCEPT !.caps = caps] OBVIOUS
<1>3. /\ job.kind = "disable" /\ job.step = "uncap"
      /\ \/ config' = gone /\ job' = [job EXCEPT !.step = "register"] /\ doubtful' = doubtful
         \/ (\E cfg \in {config, gone} : Undo(cfg, {"on", "alias"}))
            /\ doubtful' = (doubtful \/ job'.result = "broken")
  BY <1>1, <1>2 DEF RemoveCap
<1>4. doubtful \in BOOLEAN BY DEF RoutingInv, RoutingTypeOK
<1>5. caps \in SUBSET Capped BY <1>1, GoalTyped DEF Configs
<1>6. gone \in Configs /\ gone.on = config.on /\ gone.alias = config.alias
  BY <1>2, <1>5, GoalTyped DEF Configs
<1>7. ~doubtful => ValidNames(job.before) /\ ValidNames(config) BY <1>3 DEF RoutingInv, NamesAsFar
<1>8. CASE config' = gone /\ job' = [job EXCEPT !.step = "register"] /\ doubtful' = doubtful
  <2>1. job.result = "" BY <1>3 DEF RoutingInv, JobPhases
  <2>2. job' = [job EXCEPT !.step = "register", !.result = ""] BY <1>8, <2>1, GoalTyped DEF RoutingJobs
  <2>3. ~doubtful => ValidNames(config') BY <1>6, <1>7, <1>8, NamesFewer
  <2> QED BY <1>3, <1>4, <1>6, <1>8, <2>2, <2>3, DisableMoves
<1>9. CASE (\E cfg \in {config, gone} : Undo(cfg, {"on", "alias"}))
           /\ doubtful' = (doubtful \/ job'.result = "broken")
  <2>1. PICK cfg \in {config, gone} : Undo(cfg, {"on", "alias"}) BY <1>9
  <2>2. /\ config' \in Configs
        /\ \E result \in {"undone", "broken"} :
              job' = [job EXCEPT !.step = "end", !.result = result] /\ job'.result = result
        /\ job'.result # "broken" => config'.on = job.before.on /\ config'.alias = job.before.alias
    BY <1>6, <2>1, UndoneTyped, GoalTyped
  <2>3. doubtful' \in BOOLEAN /\ (doubtful => doubtful')
        /\ (~doubtful' => job'.result # "broken" /\ ~doubtful)
    BY <1>4, <1>9
  <2>4. ~doubtful' => ValidNames(config') BY <1>7, <2>2, <2>3, NamesFewer
  <2> QED BY <1>3, <2>2, <2>3, <2>4, DisableMoves
<1> QED BY <1>3, <1>8, <1>9

\* A preset covers the chosen channels and leaves the rest alone.
LEMMA ApplyPresetInv ==
    ASSUME RoutingInv, NEW chosen \in SUBSET ChannelSet, ApplyPreset(chosen)
    PROVE  RoutingInv'
<1>1. PICK preset \in Presets :
          /\ PresetOK(Merge(preset, chosen))
          /\ job' = [BeginJob("apply", "clear") EXCEPT !.target = Merge(preset, chosen), !.todo = chosen]
  BY DEF ApplyPreset
<1>2. chosen # {} /\ config' = config /\ doubtful' = doubtful /\ PresetFree BY DEF ApplyPreset
<1>3. PICK target : target = Merge(preset, chosen) OBVIOUS
<1>4. PICK of : of = UNION {ModelsOf[c] : c \in chosen} OBVIOUS
<1>5. PICK on, caps : on = (config.on \ of) \cup (preset.on \cap of)
                      /\ caps = (config.caps \ of) \cup (preset.caps \cap of)
  OBVIOUS
<1>6. PICK alias : alias = [m \in RoutedModels |-> IF m \in of THEN preset.alias[m] ELSE config.alias[m]]
  OBVIOUS
<1>7. target = [on |-> on, alias |-> alias, caps |-> caps] BY <1>3, <1>4, <1>5, <1>6 DEF Merge
<1>8. preset \in Configs BY DEF Presets
<1>9. target \in Configs
  <2>1. on \in SUBSET RoutedModels /\ caps \in SUBSET Capped BY <1>5, <1>8, GoalTyped DEF Configs
  <2>2. alias \in [RoutedModels -> UNION {AliasChoices(m) : m \in RoutedModels}]
    <3>1. ASSUME NEW m \in RoutedModels PROVE alias[m] \in UNION {AliasChoices(n) : n \in RoutedModels}
      BY <1>6, <1>8, <3>1, GoalTyped DEF Configs
    <3> QED BY <1>6, <3>1
  <2> QED BY <1>7, <2>1, <2>2 DEF Configs
<1>10. target.on = on /\ target.alias = alias /\ target.caps = caps BY <1>7
<1>11. ValidNames(target) BY <1>1, <1>3 DEF PresetOK
<1>12. \A c \in ChannelSet \ chosen : Alike(config, target, c)
  <2>1. ASSUME NEW c \in ChannelSet \ chosen, NEW m \in ModelsOf[c] PROVE AlikeAt(config, target, m)
    <3>1. m \in RoutedModels BY ModelsApart
    <3>2. m \notin of
      <4>1. ASSUME NEW d \in chosen PROVE m \notin ModelsOf[d]
        <5>1. d \in ChannelSet /\ c \in ChannelSet /\ c # d BY <4>1
        <5> QED BY <5>1, ModelsApart
      <4> QED BY <1>4, <4>1
    <3> QED BY <1>5, <1>6, <1>10, <3>1, <3>2 DEF AlikeAt
  <2> QED BY <2>1 DEF Alike
<1>13. PICK begun \in RoutingJobs :
           /\ begun = BeginJob("apply", "clear") /\ begun.kind = "apply" /\ begun.step = "clear"
           /\ begun.before = config /\ begun.tried = {} /\ begun.back = FALSE /\ begun.failed = FALSE
           /\ begun.result = ""
  BY JobBegun
<1>14. job' = [begun EXCEPT !.target = target, !.todo = chosen] BY <1>1, <1>3, <1>13
<1>15. job' \in RoutingJobs BY <1>9, <1>13, <1>14 DEF RoutingJobs
<1>16. /\ job'.kind = "apply" /\ job'.step = "clear" /\ job'.before = config /\ job'.tried = {}
       /\ job'.back = FALSE /\ job'.failed = FALSE /\ job'.result = ""
       /\ job'.target = target /\ job'.todo = chosen
  BY <1>13, <1>14 DEF RoutingJobs
<1>17. JobPhases' BY <1>2, <1>16 DEF JobPhases, PresetSteps
<1>18. HereAsFar' /\ DisabledAsFar' /\ OnTheWayBack' BY <1>16 DEF HereAsFar, DisabledAsFar, OnTheWayBack
<1>19. OnTheWayOut' BY <1>2, <1>12, <1>16, AlikeEqual DEF OnTheWayOut
<1>20. ~doubtful => ValidNames(config) BY <1>2 DEF RoutingInv, NamesAsFar, PresetFree
<1>21. NamesAsFar' BY <1>2, <1>11, <1>16, <1>20 DEF NamesAsFar
<1> QED BY <1>2, <1>15, <1>17, <1>18, <1>19, <1>21 DEF RoutingInv, RoutingTypeOK

\* When nothing is left of a preset, all channels are as the goal has them.
LEMMA AllChannelsDone ==
    ASSUME RoutingInv, job.kind = "apply", job.todo = {}
    PROVE  /\ ~job.back => \A c \in ChannelSet : Alike(config, job.target, c)
           /\ job.back /\ ~job.failed => \A c \in ChannelSet : Alike(config, job.before, c)
<1>1. ASSUME ~job.back, NEW c \in ChannelSet PROVE Alike(config, job.target, c)
  <2>1. CASE c \in job.tried BY <1>1, <2>1 DEF RoutingInv, OnTheWayOut
  <2>2. CASE c \notin job.tried
    <3>1. Alike(config, job.before, c) /\ Alike(job.before, job.target, c)
      BY <1>1, <2>2 DEF RoutingInv, OnTheWayOut
    <3> QED BY <3>1, AlikeEqual
  <2> QED BY <2>1, <2>2
<1>2. ASSUME job.back, ~job.failed, NEW c \in ChannelSet PROVE Alike(config, job.before, c)
  BY <1>2 DEF RoutingInv, OnTheWayBack
<1> QED BY <1>1, <1>2

\* CPA registers what is final, or a preset goes back.
LEMMA RegisterModelsInv == RoutingInv /\ RegisterModels => RoutingInv'
<1> SUFFICES ASSUME RoutingInv, RegisterModels PROVE RoutingInv' OBVIOUS
<1>1. job.step = "register" /\ config' = config /\ doubtful' = doubtful BY DEF RegisterModels
<1>2. job \in RoutingJobs BY GoalTyped
<1>3. job.kind = "apply" => job.todo = {} BY <1>1 DEF RoutingInv, JobPhases, PresetSteps
<1>4. job.kind # "none" BY <1>1 DEF RoutingInv, JobPhases
<1>5. ASSUME NEW result \in {"saved", "applied", "broken", "restored", "unregistered"}, job' = Ended(result),
             result = "applied" => job.kind = "apply" /\ ~job.back,
             result = "restored" => job.kind = "apply" /\ job.back /\ ~job.failed,
             job.kind = "apply" => result \in {"applied", "restored", "broken"}
      PROVE  RoutingInv'
  <2>1. job' = [job EXCEPT !.step = "end", !.result = result] BY <1>5 DEF Ended
  <2>2. job' \in RoutingJobs BY <1>2, <2>1 DEF RoutingJobs
  <2>3. /\ job'.kind = job.kind /\ job'.step = "end" /\ job'.result = result /\ job'.todo = job.todo
        /\ job'.tried = job.tried /\ job'.before = job.before /\ job'.target = job.target
        /\ job'.back = job.back /\ job'.failed = job.failed
    BY <1>2, <2>1 DEF RoutingJobs
  <2>4. JobPhases' BY <1>3, <1>4, <1>5, <2>3 DEF JobPhases, PresetSteps
  <2>5. HereAsFar' /\ DisabledAsFar' BY <2>3 DEF HereAsFar, DisabledAsFar, PresetSteps
  <2>6. OnTheWayOut'
    <3>1. OnTheWayOut BY DEF RoutingInv
    <3> QED BY <1>1, <1>3, <2>3, <3>1 DEF OnTheWayOut
  <2>7. OnTheWayBack' BY <1>1, <2>3 DEF RoutingInv, OnTheWayBack
  <2>8. NamesAsFar' BY <1>1, <2>3 DEF RoutingInv, NamesAsFar
  <2> QED BY <1>1, <2>2, <2>4, <2>5, <2>6, <2>7, <2>8 DEF RoutingInv, RoutingTypeOK
<1>6. CASE job.kind = "apply" /\ ~job.back
           /\ job' = [job EXCEPT !.back = TRUE, !.todo = job.tried, !.step = "clear"]
  <2>1. job' \in RoutingJobs BY <1>2, <1>6 DEF RoutingJobs, PresetSteps
  <2>2. /\ job'.kind = "apply" /\ job'.step = "clear" /\ job'.result = job.result /\ job'.todo = job.tried
        /\ job'.before = job.before /\ job'.target = job.target /\ job'.back = TRUE
    BY <1>2, <1>6 DEF RoutingJobs
  <2>3. job.result = "" BY <1>1 DEF RoutingInv, JobPhases
  <2>4. job.tried # {} BY <1>3, <1>6 DEF RoutingInv, OnTheWayOut
  <2>5. JobPhases' BY <2>2, <2>3, <2>4 DEF JobPhases, PresetSteps
  <2>6. HereAsFar' /\ DisabledAsFar' /\ OnTheWayOut' BY <2>2 DEF HereAsFar, DisabledAsFar, OnTheWayOut
  <2>7. OnTheWayBack'
    <3>1. \A c \in ChannelSet \ job.tried : Alike(config, job.before, c)
      BY <1>3, <1>6 DEF RoutingInv, OnTheWayOut
    <3> QED BY <1>1, <2>2, <3>1 DEF OnTheWayBack
  <2>8. NamesAsFar' BY <1>1, <1>6, <2>2 DEF RoutingInv, NamesAsFar
  <2> QED BY <1>1, <2>1, <2>5, <2>6, <2>7, <2>8 DEF RoutingInv, RoutingTypeOK
<1>7. CASE job' = Ended(IF job.kind # "apply" THEN "saved"
                        ELSE IF ~job.back THEN "applied" ELSE IF job.failed THEN "broken" ELSE "restored")
  BY <1>5, <1>7
<1>8. CASE job.kind # "apply" /\ job' = Ended("unregistered") BY <1>5, <1>8
<1>9. CASE job.kind = "apply" /\ job.back /\ job' = Ended("broken") BY <1>5, <1>9
<1> QED BY <1>6, <1>7, <1>8, <1>9 DEF RegisterModels

\* When a job is over, names are as they were before it or as its goal has them.
LEMMA NamesSettled ==
    ASSUME RoutingInv, job.step \in {"idle", "end"}, job.result # "broken", ~doubtful
    PROVE  ValidNames(config)
<1>1. CASE job.kind # "apply" BY <1>1 DEF RoutingInv, NamesAsFar
<1>2. CASE job.kind = "apply"
  <2>1. job.step = "end" /\ job.todo = {} /\ job.result \in {"applied", "restored"}
    BY <1>2 DEF RoutingInv, JobPhases, PresetSteps
  <2>2. ValidNames(job.target) /\ ValidNames(job.before) BY <1>2 DEF RoutingInv, NamesAsFar
  <2>3. CASE job.result = "applied"
    <3>1. ~job.back BY <2>3 DEF RoutingInv, JobPhases
    <3> QED BY <1>2, <2>1, <2>2, <3>1, AllChannelsDone, AlikeNames
  <2>4. CASE job.result = "restored"
    <3>1. job.back /\ ~job.failed BY <2>4 DEF RoutingInv, JobPhases
    <3> QED BY <1>2, <2>1, <2>2, <3>1, AllChannelsDone, AlikeNames
  <2> QED BY <2>1, <2>3, <2>4
<1> QED BY <1>1, <1>2

\* The next administrator finds the names settled.
LEMMA LeaveInv == RoutingInv /\ Leave => RoutingInv'
<1> SUFFICES ASSUME RoutingInv, Leave PROVE RoutingInv' OBVIOUS
<1>1. job.step = "end" /\ job.result # "broken" /\ job' = NoJob /\ config' = config /\ doubtful' = doubtful
  BY DEF Leave
<1>2. NoJob \in RoutingJobs BY PlainNames DEF NoJob, RoutingJobs
<1>3. NoJob.kind = "none" /\ NoJob.step = "idle" /\ NoJob.result = "" /\ NoJob.before = AllPlain
  BY DEF NoJob
<1>4. ~doubtful => ValidNames(config) BY <1>1, NamesSettled
<1>5. JobPhases' BY <1>1, <1>3 DEF JobPhases, PresetSteps
<1>6. HereAsFar' /\ OnTheWayOut' /\ OnTheWayBack' /\ DisabledAsFar'
  BY <1>1, <1>3 DEF HereAsFar, OnTheWayOut, OnTheWayBack, DisabledAsFar, PresetSteps
<1>7. NamesAsFar' BY <1>1, <1>3, <1>4, PlainNames DEF NamesAsFar
<1> QED BY <1>1, <1>2, <1>5, <1>6, <1>7 DEF RoutingInv, RoutingTypeOK

\* Everything is plain at the start.
LEMMA RoutingInitially == RoutingInit => RoutingInv
<1> SUFFICES ASSUME RoutingInit PROVE RoutingInv OBVIOUS
<1>1. config = AllPlain /\ job = NoJob /\ doubtful = FALSE BY DEF RoutingInit
<1>2. NoJob \in RoutingJobs BY PlainNames DEF NoJob, RoutingJobs
<1>3. NoJob.kind = "none" /\ NoJob.step = "idle" /\ NoJob.result = "" /\ NoJob.before = AllPlain
  BY DEF NoJob
<1>4. JobPhases BY <1>1, <1>3 DEF JobPhases, PresetSteps
<1>5. HereAsFar /\ OnTheWayOut /\ OnTheWayBack /\ DisabledAsFar
  BY <1>1, <1>3 DEF HereAsFar, OnTheWayOut, OnTheWayBack, DisabledAsFar, PresetSteps
<1>6. NamesAsFar BY <1>1, <1>3, PlainNames DEF NamesAsFar
<1> QED BY <1>1, <1>2, <1>4, <1>5, <1>6, PlainNames DEF RoutingInv, RoutingTypeOK

\* Every step keeps the invariant.
LEMMA RoutingStep == RoutingInv /\ [RoutingNext]_routingVars => RoutingInv'
<1> SUFFICES ASSUME RoutingInv, [RoutingNext]_routingVars PROVE RoutingInv' OBVIOUS
<1>1. CASE UNCHANGED routingVars
  <2>1. config' = config /\ job' = job /\ doubtful' = doubtful BY <1>1 DEF routingVars
  <2>2. RoutingTypeOK' /\ JobPhases' BY <2>1 DEF RoutingInv, RoutingTypeOK, JobPhases
  <2>3. HereAsFar' BY <2>1 DEF RoutingInv, HereAsFar, HereModels, Here, Goal
  <2>4. OnTheWayOut' /\ OnTheWayBack' BY <2>1 DEF RoutingInv, OnTheWayOut, OnTheWayBack, Here
  <2>5. DisabledAsFar' /\ NamesAsFar' BY <2>1 DEF RoutingInv, DisabledAsFar, NamesAsFar
  <2> QED BY <2>2, <2>3, <2>4, <2>5 DEF RoutingInv
<1>2. CASE RoutingNext
  <2>1. ASSUME NEW m \in RoutedModels, EnableModel(m) \/ DisableModel(m) PROVE RoutingInv'
    BY <2>1, EnableModelInv, DisableModelInv
  <2>2. ASSUME NEW c \in ChannelSet, SetAliases(c) \/ SetCaps(c) PROVE RoutingInv'
    BY <2>2, SetAliasesInv, SetCapsInv
  <2>3. ASSUME NEW chosen \in SUBSET ChannelSet, ApplyPreset(chosen) PROVE RoutingInv'
    BY <2>3, ApplyPresetInv
  <2> QED BY <1>2, <2>1, <2>2, <2>3, RemoveAliasInv, RemoveCapInv, ClearAliasesInv, TurnOffInv, TurnOnInv,
             GiveAliasesInv, GiveCapsInv, RegisterModelsInv, LeaveInv
    DEF RoutingNext
<1> QED BY <1>1, <1>2

\* Presets take effect in whole or not at all, and each name users may call is
\* of one model, for any channels, models, aliases, administrators and failures.
THEOREM RoutingSettles == RoutingSpec => []RoutingSettled
<1>1. ASSUME RoutingInv PROVE RoutingSettled
  <2>1. job.before \in Configs /\ job.target \in Configs BY <1>1, GoalTyped DEF RoutingJobs
  <2>2. ASSUME job.result = "applied" PROVE Routes(config) = Routes(job.target)
    <3>1. job.kind = "apply" /\ ~job.back /\ job.step = "end" BY <1>1, <2>2 DEF RoutingInv, JobPhases
    <3>2. job.todo = {} BY <1>1, <3>1 DEF RoutingInv, JobPhases, PresetSteps
    <3> QED BY <1>1, <2>1, <3>1, <3>2, AllChannelsDone, AlikeRoutes, GoalTyped
  <2>3. ASSUME job.result = "restored" PROVE Routes(config) = Routes(job.before)
    <3>1. job.kind = "apply" /\ job.back /\ ~job.failed /\ job.step = "end"
      BY <1>1, <2>3 DEF RoutingInv, JobPhases
    <3>2. job.todo = {} BY <1>1, <3>1 DEF RoutingInv, JobPhases, PresetSteps
    <3> QED BY <1>1, <2>1, <3>1, <3>2, AllChannelsDone, AlikeRoutes, GoalTyped
  <2>4. ASSUME job.step \in {"idle", "end"}, job.result # "broken", ~doubtful PROVE Clear
    BY <1>1, <2>4, NamesSettled, NamesAreClear
  <2> QED BY <2>2, <2>3, <2>4 DEF RoutingSettled
<1> QED BY <1>1, RoutingInitially, RoutingStep, PTL DEF RoutingSpec

\* The types of the routing settings and of the job that changes them.
THEOREM RoutingTypes == RoutingSpec => []RoutingTypeOK
<1>1. RoutingInv => RoutingTypeOK BY DEF RoutingInv
<1> QED BY <1>1, RoutingInitially, RoutingStep, PTL DEF RoutingSpec

-----------------------------------------------------------------------------
(* The pause of the admission.                                             *)

\* The times of the constants and of the log are numbers.
LEMMA PauseTimes ==
    ASSUME PauseTypeOK
    PROVE  /\ HighFor \in Nat /\ HighFor > 0 /\ RecoverFor \in Nat /\ RecoverFor > 0 /\ MaxGap \in Nat
           /\ Longest \in Nat /\ Longest >= HighFor /\ Longest >= RecoverFor
           /\ Enough \in Nat /\ Enough >= HighFor /\ Enough >= RecoverFor
           /\ \A gap \in Gaps : gap \in Nat /\ gap > 0
           /\ \A s \in log : s.ago \in Nat /\ s.kind \in SampleKinds /\ s = Of(s.kind, s.ago)
           /\ highSince \in Int /\ recoverSince \in Int
           /\ highSince # None => highSince \in Nat
           /\ recoverSince # None => recoverSince \in Nat
<1>1. /\ HighFor \in Nat /\ HighFor > 0 /\ RecoverFor \in Nat /\ RecoverFor > 0 /\ MaxGap \in Nat
      /\ \A gap \in Gaps : gap \in Nat /\ gap > 0
  <2>1. HighFor \in Nat \ {0} /\ RecoverFor \in Nat \ {0} /\ MaxGap \in Nat \ {0}
    BY PauseAssumption, Zenon
  <2>2. \A gap \in Gaps : gap \in Nat \ {0} BY PauseAssumption, Zenon
  <2> QED BY <2>1, <2>2
<1>2. Longest \in Nat /\ Longest >= HighFor /\ Longest >= RecoverFor BY <1>1 DEF Longest
<1>3. Enough \in Nat /\ Enough >= HighFor /\ Enough >= RecoverFor BY <1>1 DEF Enough
<1>4. \A s \in log : s.ago \in Nat /\ s.kind \in SampleKinds /\ s = Of(s.kind, s.ago)
  BY DEF PauseTypeOK, Of
<1>5. highSince \in Int /\ (highSince # None => highSince \in Nat) BY <1>2 DEF PauseTypeOK, None
<1>6. recoverSince \in Int /\ (recoverSince # None => recoverSince \in Nat) BY <1>1 DEF PauseTypeOK, None
<1> QED BY <1>1, <1>2, <1>3, <1>4, <1>5, <1>6

\* A sample of the log, when the next one comes a gap later.
LEMMA OlderSample ==
    ASSUME PauseTypeOK, NEW gap \in Gaps
    PROVE  /\ \A s \in log : /\ Of(s.kind, s.ago + gap) \in LogLater(gap)
                             /\ Of(s.kind, s.ago + gap).kind = s.kind
                             /\ Of(s.kind, s.ago + gap).ago = s.ago + gap
           /\ \A u \in LogLater(gap) : /\ u.ago \in Nat /\ u.ago > 0 /\ u.kind \in SampleKinds
                                   /\ u = Of(u.kind, u.ago)
                                   /\ \E s \in log : u.kind = s.kind /\ u.ago = s.ago + gap
<1>1. \A s \in log : /\ Of(s.kind, s.ago + gap) \in LogLater(gap)
                     /\ Of(s.kind, s.ago + gap).kind = s.kind
                     /\ Of(s.kind, s.ago + gap).ago = s.ago + gap
  BY DEF LogLater, Of
<1>2. ASSUME NEW u \in LogLater(gap)
      PROVE  /\ u.ago \in Nat /\ u.ago > 0 /\ u.kind \in SampleKinds /\ u = Of(u.kind, u.ago)
             /\ \E s \in log : u.kind = s.kind /\ u.ago = s.ago + gap
  <2>1. PICK s \in log : u = Of(s.kind, s.ago + gap) BY DEF LogLater
  <2>2. u.kind = s.kind /\ u.ago = s.ago + gap BY <2>1 DEF Of
  <2>3. s.ago \in Nat /\ s.kind \in SampleKinds /\ gap \in Nat /\ gap > 0 BY PauseTimes
  <2> QED BY <2>1, <2>2, <2>3
<1> QED BY <1>1, <1>2

\* The log after a sample.
LEMMA LogAfter ==
    ASSUME PauseTypeOK, NEW gap \in Gaps, NEW kind \in SampleKinds, Sampled(gap, kind)
    PROVE  /\ log' \subseteq [kind : SampleKinds, ago : Nat]
           /\ Of(kind, 0) \in log'
           /\ \A u \in log' : u.ago \in Nat /\ (u = Of(kind, 0) \/ u \in LogLater(gap))
<1>1. log' = {Of(kind, 0)} \cup
         IF gap > MaxGap \/ kind \in {"stale", "middle"} THEN {}
         ELSE {s \in LogLater(gap) : \A t \in LogLater(gap) : t.ago < s.ago => t.ago < Enough}
  BY DEF Sampled, Remember
<1>2. \A u \in log' : u = Of(kind, 0) \/ u \in LogLater(gap) BY <1>1
<1>3. Of(kind, 0) \in [kind : SampleKinds, ago : Nat] BY DEF Of
<1>4. \A u \in LogLater(gap) : u \in [kind : SampleKinds, ago : Nat] BY OlderSample DEF Of
<1>5. \A u \in log' : u \in [kind : SampleKinds, ago : Nat] BY <1>2, <1>3, <1>4
<1>6. \A u \in [kind : SampleKinds, ago : Nat] : u.ago \in Nat OBVIOUS
<1>7. Of(kind, 0) \in log' BY <1>1
<1> QED BY <1>2, <1>5, <1>6, <1>7

\* The newest sample is in every run, or there is none.
LEMMA NewestDecides ==
    ASSUME PauseTypeOK, NEW gap \in Gaps, NEW kind \in SampleKinds, Sampled(gap, kind),
           NEW kinds, kind \notin kinds
    PROVE  RunOf(kinds)' = {}
<1>1. Of(kind, 0).ago = 0 /\ Of(kind, 0).kind = kind BY DEF Of
<1>2. ASSUME NEW s \in log', \A t \in log' : t.ago <= s.ago => t.kind \in kinds PROVE FALSE
  <2>1. Of(kind, 0).ago <= s.ago BY <1>1, LogAfter
  <2>2. Of(kind, 0) \in log' BY LogAfter
  <2> QED BY <1>1, <1>2, <2>1, <2>2
<1> QED BY <1>2 DEF RunOf

\* A run that goes on is as much longer as the gap, or long enough for all.
LEMMA RunGoesOn ==
    ASSUME PauseTypeOK, NEW gap \in Gaps, gap <= MaxGap, NEW kind \in SampleKinds \ {"stale", "middle"},
           Sampled(gap, kind), NEW kinds, kind \in kinds, NEW s \in RunOf(kinds)
    PROVE  \E t \in RunOf(kinds)' : t.ago = s.ago + gap \/ (t.ago >= Enough /\ t.ago <= s.ago + gap)
<1>1. s \in log /\ \A t \in log : t.ago <= s.ago => t.kind \in kinds BY DEF RunOf
<1>2. gap \in Nat /\ MaxGap \in Nat /\ Enough \in Nat /\ s.ago \in Nat BY <1>1, PauseTimes
<1>3. log' = {Of(kind, 0)} \cup {u \in LogLater(gap) : \A t \in LogLater(gap) : t.ago < u.ago => t.ago < Enough}
  BY <1>2 DEF Sampled, Remember
<1>4. ASSUME NEW u \in log', u.ago <= s.ago + gap PROVE u \in RunOf(kinds)'
  <2>1. ASSUME NEW t \in log', t.ago <= u.ago PROVE t.kind \in kinds
    <3>1. CASE t = Of(kind, 0) BY <3>1 DEF Of
    <3>2. CASE t \in LogLater(gap)
      <4>1. PICK t0 \in log : t.kind = t0.kind /\ t.ago = t0.ago + gap BY <3>2, OlderSample
      <4>2. t0.ago \in Nat BY PauseTimes
      <4>3. u.ago \in Nat BY LogAfter
      <4>4. t0.ago <= s.ago BY <1>2, <1>4, <2>1, <4>1, <4>2, <4>3
      <4> QED BY <1>1, <4>1, <4>4
    <3> QED BY <3>1, <3>2, LogAfter
  <2> QED BY <2>1 DEF RunOf
<1>5. PICK o \in LogLater(gap) : o.kind = s.kind /\ o.ago = s.ago + gap BY <1>1, OlderSample
<1>6. CASE o \in log' BY <1>2, <1>4, <1>5, <1>6
<1>7. CASE o \notin log'
  <2>1. PICK T : T = {t.ago : t \in {t \in LogLater(gap) : t.ago < o.ago /\ t.ago >= Enough}} OBVIOUS
  <2>2. \A t \in LogLater(gap) : t.ago \in Nat BY OlderSample
  <2>3. \E t \in LogLater(gap) : t.ago < o.ago /\ t.ago >= Enough BY <1>2, <1>3, <1>7, <2>2
  <2>4. T \subseteq Nat /\ T # {} BY <2>1, <2>2, <2>3
  <2>5. PICK n \in T : \A m \in T : n <= m BY <2>4, SmallestPlace
  <2>6. PICK t \in LogLater(gap) : t.ago = n /\ t.ago < o.ago /\ t.ago >= Enough BY <2>1, <2>5
  <2>7. ASSUME NEW u \in LogLater(gap), u.ago < t.ago PROVE u.ago < Enough
    <3>1. CASE u.ago >= Enough
      <4>1. u.ago < o.ago BY <2>2, <2>6, <2>7, <1>5
      <4>2. u.ago \in T BY <2>1, <3>1, <4>1
      <4>3. n <= u.ago BY <2>5, <4>2
      <4> QED BY <2>2, <2>6, <2>7, <4>3
    <3> QED BY <1>2, <2>2, <3>1
  <2>8. t \in log' BY <1>3, <2>7
  <2>9. t.ago <= s.ago + gap BY <1>2, <1>5, <2>2, <2>6
  <2> QED BY <1>4, <2>6, <2>8, <2>9
<1> QED BY <1>6, <1>7

\* A run with an older sample than the newest went on from one in the old log.
LEMMA RunCameFrom ==
    ASSUME PauseTypeOK, NEW gap \in Gaps, NEW kind \in SampleKinds, Sampled(gap, kind),
           NEW kinds, NEW s \in RunOf(kinds)', s.ago # 0
    PROVE  /\ gap <= MaxGap /\ kind \notin {"stale", "middle"} /\ kind \in kinds
           /\ \E o \in RunOf(kinds) : s.kind = o.kind /\ s.ago = o.ago + gap
<1>1. s \in log' /\ \A t \in log' : t.ago <= s.ago => t.kind \in kinds BY DEF RunOf
<1>2. gap \in Nat /\ MaxGap \in Nat /\ Enough \in Nat BY PauseTimes
<1>3. s # Of(kind, 0) /\ Of(kind, 0).kind = kind BY DEF Of
<1>4. s \in LogLater(gap) BY <1>1, <1>3, LogAfter
<1>5. ~(gap > MaxGap \/ kind \in {"stale", "middle"}) BY <1>1, <1>3 DEF Sampled, Remember
<1>6. log' = {Of(kind, 0)} \cup {u \in LogLater(gap) : \A t \in LogLater(gap) : t.ago < u.ago => t.ago < Enough}
  BY <1>5 DEF Sampled, Remember
<1>7. PICK o \in log : s.kind = o.kind /\ s.ago = o.ago + gap BY <1>4, OlderSample
<1>8. ASSUME NEW t \in log, t.ago <= o.ago PROVE t.kind \in kinds
  <2>1. PICK u \in LogLater(gap) : u.kind = t.kind /\ u.ago = t.ago + gap BY OlderSample
  <2>2. t.ago \in Nat /\ o.ago \in Nat BY PauseTimes
  <2>3. u.ago <= s.ago BY <1>2, <1>7, <1>8, <2>1, <2>2
  <2>4. \A v \in LogLater(gap) : v.ago \in Nat BY OlderSample
  <2>5. \A v \in LogLater(gap) : v.ago < s.ago => v.ago < Enough BY <1>1, <1>3, <1>6
  <2>6. \A v \in LogLater(gap) : v.ago < u.ago => v.ago < Enough BY <1>4, <2>3, <2>4, <2>5
  <2>7. u \in log' BY <1>6, <2>6
  <2> QED BY <1>1, <2>1, <2>3, <2>7
<1>9. kind \in kinds BY NewestDecides
<1> QED BY <1>2, <1>5, <1>7, <1>8, <1>9 DEF RunOf

\* The newest sample is a run of its own.
LEMMA NewestRun ==
    ASSUME PauseTypeOK, NEW gap \in Gaps, NEW kind \in SampleKinds, Sampled(gap, kind),
           NEW kinds, kind \in kinds
    PROVE  /\ Of(kind, 0) \in RunOf(kinds)' /\ Of(kind, 0).ago = 0
           /\ \A s \in RunOf(kinds)' : s.ago = 0 => s.kind = kind
<1>1. Of(kind, 0).ago = 0 /\ Of(kind, 0).kind = kind BY DEF Of
<1>2. ASSUME NEW t \in log', t.ago <= 0 PROVE t.kind = kind
  <2>1. t.ago \in Nat BY LogAfter
  <2>2. t \notin LogLater(gap) BY <1>2, <2>1, OlderSample
  <2> QED BY <1>1, <2>2, LogAfter
<1>3. Of(kind, 0) \in log' BY LogAfter
<1>4. Of(kind, 0) \in RunOf(kinds)' BY <1>1, <1>2, <1>3 DEF RunOf
<1>5. \A s \in RunOf(kinds)' : s \in log' BY DEF RunOf
<1> QED BY <1>1, <1>2, <1>4, <1>5

\* The time of high samples goes on with their run.
LEMMA HighGoesOn ==
    ASSUME PauseInv, NEW gap \in Gaps, NEW kind \in {"high", "memory"}, Sampled(gap, kind),
           Since(highSince, gap) # None
    PROVE  /\ Since(highSince, gap) \in 0..Longest
           /\ \E t \in RunOf({"high", "memory"})' :
                 \/ t.ago = Since(highSince, gap)
                 \/ t.ago >= HighFor /\ Since(highSince, gap) >= HighFor
<1>1. highSince # None /\ gap <= MaxGap BY PauseTimes DEF Since, PauseInv
<1>2. Since(highSince, gap) = IF highSince + gap > Longest THEN Longest ELSE highSince + gap
  BY <1>1, PauseTimes DEF Since, PauseInv
<1>3. PICK s \in RunOf({"high", "memory"}) :
          s.ago = highSince \/ (s.ago >= HighFor /\ highSince >= HighFor)
  BY <1>1 DEF PauseInv
<1>4. kind \in SampleKinds \ {"stale", "middle"} /\ kind \in {"high", "memory"} BY DEF SampleKinds
<1>5. PICK t \in RunOf({"high", "memory"})' :
          t.ago = s.ago + gap \/ (t.ago >= Enough /\ t.ago <= s.ago + gap)
  BY <1>1, <1>4, RunGoesOn DEF PauseInv
<1>6. s.ago \in Nat /\ highSince \in Nat /\ gap \in Nat BY <1>1, PauseTimes DEF PauseInv, RunOf
<1>7. t \in log' BY DEF RunOf
<1>8. t.ago \in Nat BY <1>4, <1>7, LogAfter DEF PauseInv
<1>9. /\ HighFor \in Nat /\ Longest \in Nat /\ Longest >= HighFor /\ Enough \in Nat /\ Enough >= HighFor
  BY PauseTimes DEF PauseInv
<1>10. Since(highSince, gap) \in 0..Longest BY <1>2, <1>6, <1>9
<1>11. \/ t.ago = Since(highSince, gap)
       \/ t.ago >= HighFor /\ Since(highSince, gap) >= HighFor
  BY <1>2, <1>3, <1>5, <1>6, <1>8, <1>9
<1> QED BY <1>10, <1>11

\* A sample that is neither high nor low ends all runs.
LEMMA NeutralSample ==
    ASSUME PauseInv, NEW gap \in Gaps, StaleSample(gap) \/ MiddleSample(gap)
    PROVE  PauseInv' /\ Earned
<1>1. PICK kind \in {"stale", "middle"} : Sampled(gap, kind) BY DEF StaleSample, MiddleSample
<1>2. paused' = paused /\ highSince' = None /\ recoverSince' = None BY DEF StaleSample, MiddleSample
<1>3. kind \in SampleKinds /\ PauseTypeOK BY DEF SampleKinds, PauseInv
<1>4. /\ RunOf({"high"})' = {} /\ RunOf({"high", "memory"})' = {}
      /\ RunOf({"low"})' = {} /\ RunOf({"memory"})' = {}
  BY <1>1, <1>3, NewestDecides
<1>5. log' \subseteq [kind : SampleKinds, ago : Nat] BY <1>1, <1>3, LogAfter
<1>6. PauseTypeOK' BY <1>2, <1>3, <1>5, PauseTimes DEF PauseTypeOK, None
<1> QED BY <1>2, <1>4, <1>6 DEF PauseInv, Earned, Held

\* Memory over its limit pauses at once.
LEMMA MemorySampleInv ==
    ASSUME PauseInv, NEW gap \in Gaps, MemorySample(gap)
    PROVE  PauseInv' /\ Earned
<1>1. /\ Sampled(gap, "memory") /\ paused' = "memory_pressure"
      /\ highSince' = Since(highSince, gap) /\ recoverSince' = None
  BY DEF MemorySample
<1>2. "memory" \in SampleKinds /\ PauseTypeOK BY DEF SampleKinds, PauseInv
<1>3. RunOf({"high"})' = {} /\ RunOf({"low"})' = {} BY <1>1, <1>2, NewestDecides
<1>4. log' \subseteq [kind : SampleKinds, ago : Nat] BY <1>1, <1>2, LogAfter
<1>5. highSince' # None =>
          /\ highSince' \in 0..Longest
          /\ \E s \in RunOf({"high", "memory"})' :
                s.ago = highSince' \/ (s.ago >= HighFor /\ highSince' >= HighFor)
  BY <1>1, HighGoesOn
<1>6. PauseTypeOK'
  <2>1. highSince' \in None..Longest BY <1>2, <1>5, PauseTimes DEF None
  <2>2. recoverSince' \in None..RecoverFor BY <1>1, <1>2, PauseTimes DEF None
  <2> QED BY <1>1, <1>4, <2>1, <2>2 DEF PauseTypeOK
<1> QED BY <1>1, <1>3, <1>5, <1>6 DEF PauseInv, Earned, Held

\* High CPU pauses when it was high for so long.
LEMMA HighSampleInv ==
    ASSUME PauseInv, NEW gap \in Gaps, HighSample(gap)
    PROVE  PauseInv' /\ Earned
<1>0. PICK high : high = StartedBy(Since(highSince, gap)) OBVIOUS
<1>1. /\ Sampled(gap, "high") /\ highSince' = high /\ recoverSince' = None
      /\ paused' = IF high >= HighFor THEN "cpu_pressure" ELSE paused
  BY <1>0 DEF HighSample
<1>2. "high" \in SampleKinds /\ PauseTypeOK BY DEF SampleKinds, PauseInv
<1>3. RunOf({"low"})' = {} /\ RunOf({"memory"})' = {} BY <1>1, <1>2, NewestDecides
<1>4. log' \subseteq [kind : SampleKinds, ago : Nat] BY <1>1, <1>2, LogAfter
<1>5. /\ HighFor \in Nat /\ HighFor > 0 /\ Longest \in Nat /\ Longest >= HighFor /\ gap \in Nat
      /\ RecoverFor \in Nat
  BY <1>2, PauseTimes
<1>6. /\ high \in 0..Longest
      /\ \E s \in RunOf({"high", "memory"})' : s.ago = high \/ (s.ago >= HighFor /\ high >= HighFor)
  <2>1. CASE Since(highSince, gap) = None
    <3>1. high = 0 BY <1>0, <2>1 DEF StartedBy
    <3>2. Of("high", 0) \in RunOf({"high", "memory"})' /\ Of("high", 0).ago = 0
      BY <1>1, <1>2, NewestRun
    <3> QED BY <1>5, <3>1, <3>2
  <2>2. CASE Since(highSince, gap) # None
    <3>1. high = Since(highSince, gap) BY <1>0, <2>2 DEF StartedBy
    <3> QED BY <1>1, <2>2, <3>1, HighGoesOn
  <2> QED BY <2>1, <2>2
<1>7. PauseTypeOK'
  <2>1. high \in None..Longest BY <1>5, <1>6 DEF None
  <2>2. recoverSince' \in None..RecoverFor BY <1>1, <1>5 DEF None
  <2> QED BY <1>1, <1>2, <1>4, <2>1, <2>2 DEF PauseTypeOK
<1>8. high # None /\ high \in Nat BY <1>5, <1>6 DEF None
<1>9. ASSUME NEW s \in RunOf({"high"})' PROVE high >= s.ago \/ high >= HighFor
  <2>1. s \in log' BY DEF RunOf
  <2>2. s.ago \in Nat BY <1>1, <1>2, <2>1, LogAfter
  <2>3. CASE s.ago = 0 BY <1>8, <2>3
  <2>4. CASE s.ago # 0
    <3>1. gap <= MaxGap /\ \E o \in RunOf({"high"}) : s.kind = o.kind /\ s.ago = o.ago + gap
      BY <1>1, <1>2, <2>4, RunCameFrom
    <3>2. PICK o \in RunOf({"high"}) : s.ago = o.ago + gap BY <3>1
    <3>3. o.ago \in Nat BY <1>2, PauseTimes DEF RunOf
    <3>4. highSince # None /\ (highSince >= o.ago \/ highSince >= HighFor) BY DEF PauseInv
    <3>5. highSince \in Nat /\ MaxGap \in Nat BY <1>2, <3>4, PauseTimes
    <3>6. Since(highSince, gap) = IF highSince + gap > Longest THEN Longest ELSE highSince + gap
      BY <1>5, <3>1, <3>4, <3>5 DEF Since
    <3>7. high = IF highSince + gap > Longest THEN Longest ELSE highSince + gap
      BY <1>0, <1>5, <3>5, <3>6 DEF StartedBy, None
    <3> QED BY <1>5, <3>2, <3>3, <3>4, <3>5, <3>7
  <2> QED BY <2>3, <2>4
<1>10. ASSUME paused = "no", NEW s \in RunOf({"high", "memory"})' PROVE s.kind # "memory"
  <2>1. CASE s.ago = 0 BY <1>1, <1>2, <2>1, NewestRun
  <2>2. CASE s.ago # 0
    <3>1. \E o \in RunOf({"high", "memory"}) : s.kind = o.kind BY <1>1, <1>2, <2>2, RunCameFrom
    <3> QED BY <1>10, <3>1 DEF PauseInv
  <2> QED BY <2>1, <2>2
<1>11. ASSUME high >= HighFor PROVE Held({"high", "memory"}, HighFor)' BY <1>5, <1>6, <1>8, <1>11 DEF Held
<1>12. ASSUME paused = "no", high >= HighFor PROVE Held({"high"}, HighFor)'
  <2>1. PICK s \in RunOf({"high", "memory"})' : s.ago >= HighFor BY <1>11, <1>12 DEF Held
  <2>2. s \in log' /\ \A t \in log' : t.ago <= s.ago => t.kind \in {"high", "memory"} BY DEF RunOf
  <2>3. \A t \in log' : t.ago \in Nat BY <1>1, <1>2, LogAfter
  <2>4. ASSUME NEW t \in log', t.ago <= s.ago PROVE t.kind \in {"high"}
    <3>1. \A u \in log' : u.ago <= t.ago => u.ago <= s.ago BY <2>2, <2>3, <2>4
    <3>2. t \in RunOf({"high", "memory"})' BY <2>2, <3>1 DEF RunOf
    <3> QED BY <1>10, <1>12, <2>2, <2>4, <3>2
  <2>5. s \in RunOf({"high"})' BY <2>2, <2>4 DEF RunOf
  <2> QED BY <2>1, <2>5 DEF Held
<1>13. Held({"high"}, HighFor)' => high >= HighFor
  <2>1. ASSUME NEW s \in RunOf({"high"})', s.ago >= HighFor PROVE high >= HighFor
    <3>1. s \in log' BY DEF RunOf
    <3>2. s.ago \in Nat BY <1>1, <1>2, <3>1, LogAfter
    <3> QED BY <1>5, <1>8, <1>9, <2>1, <3>2
  <2> QED BY <2>1 DEF Held
<1>14. PauseInv' BY <1>1, <1>3, <1>6, <1>7, <1>8, <1>9, <1>10 DEF PauseInv
<1>15. Earned BY <1>1, <1>3, <1>11, <1>12, <1>13 DEF Earned, Held
<1> QED BY <1>14, <1>15

\* Low samples end a pause when they were low for so long.
LEMMA LowSampleInv ==
    ASSUME PauseInv, NEW gap \in Gaps, LowSample(gap)
    PROVE  PauseInv' /\ Earned
<1>0. PICK low : low = StartedBy(Since(recoverSince, gap)) OBVIOUS
<1>1. /\ Sampled(gap, "low") /\ highSince' = None
      /\ IF paused = "no" \/ low >= RecoverFor
         THEN paused' = "no" /\ recoverSince' = None
         ELSE paused' = paused /\ recoverSince' = low
  BY <1>0 DEF LowSample
<1>2. "low" \in SampleKinds /\ "low" \in SampleKinds \ {"stale", "middle"} /\ PauseTypeOK
  BY DEF SampleKinds, PauseInv
<1>3. RunOf({"high"})' = {} /\ RunOf({"high", "memory"})' = {} /\ RunOf({"memory"})' = {}
  BY <1>1, <1>2, NewestDecides
<1>4. log' \subseteq [kind : SampleKinds, ago : Nat] BY <1>1, <1>2, LogAfter
<1>5. /\ RecoverFor \in Nat /\ RecoverFor > 0 /\ Longest \in Nat /\ Longest >= RecoverFor
      /\ gap \in Nat /\ MaxGap \in Nat /\ Enough \in Nat /\ Enough >= RecoverFor
  BY <1>2, PauseTimes
<1>6. \A s \in RunOf({"low"})' : s.ago \in Nat
  <2>1. \A s \in RunOf({"low"})' : s \in log' BY DEF RunOf
  <2> QED BY <1>1, <1>2, <2>1, LogAfter
<1>7. CASE paused = "no"
  <2>1. paused' = "no" /\ recoverSince' = None BY <1>1, <1>7
  <2>2. PauseTypeOK' BY <1>1, <1>2, <1>4, <1>5, <2>1, PauseTimes DEF PauseTypeOK, None
  <2> QED BY <1>1, <1>3, <1>7, <2>1, <2>2 DEF PauseInv, Earned, Held
<1>8. CASE paused # "no"
  <2>1. low \in Nat /\ \E t \in RunOf({"low"})' : \/ t.ago = low
                                                  \/ t.ago >= RecoverFor /\ low >= RecoverFor
    <3>1. CASE Since(recoverSince, gap) = None
      <4>1. low = 0 BY <1>0, <3>1 DEF StartedBy
      <4>2. Of("low", 0) \in RunOf({"low"})' /\ Of("low", 0).ago = 0 BY <1>1, <1>2, NewestRun
      <4> QED BY <4>1, <4>2
    <3>2. CASE Since(recoverSince, gap) # None
      <4>1. recoverSince # None /\ gap <= MaxGap BY <1>5, <3>2 DEF Since
      <4>2. low = IF recoverSince + gap > Longest THEN Longest ELSE recoverSince + gap
        BY <1>0, <1>5, <3>2, <4>1 DEF Since, StartedBy
      <4>3. PICK s \in RunOf({"low"}) : s.ago = recoverSince BY <4>1 DEF PauseInv
      <4>4. PICK t \in RunOf({"low"})' :
                t.ago = s.ago + gap \/ (t.ago >= Enough /\ t.ago <= s.ago + gap)
        BY <1>1, <1>2, <4>1, RunGoesOn
      <4>5. recoverSince \in Nat BY <1>2, <4>1, PauseTimes
      <4>6. t.ago \in Nat BY <1>6
      <4>7. low \in Nat BY <1>5, <4>2, <4>5
      <4>8. t.ago = low \/ (t.ago >= RecoverFor /\ low >= RecoverFor)
        BY <1>5, <4>2, <4>3, <4>4, <4>5, <4>6
      <4> QED BY <4>7, <4>8
    <3> QED BY <3>1, <3>2
  <2>2. ASSUME NEW s \in RunOf({"low"})' PROVE low >= s.ago \/ low >= RecoverFor
    <3>1. CASE s.ago = 0 BY <2>1, <3>1
    <3>2. CASE s.ago # 0
      <4>1. gap <= MaxGap /\ \E o \in RunOf({"low"}) : s.kind = o.kind /\ s.ago = o.ago + gap
        BY <1>1, <1>2, <3>2, RunCameFrom
      <4>2. PICK o \in RunOf({"low"}) : s.ago = o.ago + gap BY <4>1
      <4>3. o.ago \in Nat BY <1>2, PauseTimes DEF RunOf
      <4>4. recoverSince # None /\ recoverSince >= o.ago BY <1>8 DEF PauseInv
      <4>5. recoverSince \in Nat BY <1>2, <4>4, PauseTimes
      <4>6. Since(recoverSince, gap) = IF recoverSince + gap > Longest THEN Longest ELSE recoverSince + gap
        BY <1>5, <4>1, <4>4 DEF Since
      <4>7. low = IF recoverSince + gap > Longest THEN Longest ELSE recoverSince + gap
        BY <1>0, <1>5, <4>5, <4>6 DEF StartedBy, None
      <4> QED BY <1>5, <4>2, <4>3, <4>4, <4>5, <4>7
    <3> QED BY <3>1, <3>2
  <2>3. CASE low >= RecoverFor
    <3>1. paused' = "no" /\ recoverSince' = None BY <1>1, <2>3
    <3>2. PauseTypeOK' BY <1>1, <1>4, <1>5, <1>2, <3>1, PauseTimes DEF PauseTypeOK, None
    <3>3. Held({"low"}, RecoverFor)' BY <1>5, <2>1, <2>3 DEF Held
    <3> QED BY <1>1, <1>3, <3>1, <3>2, <3>3 DEF PauseInv, Earned, Held
  <2>4. CASE ~(low >= RecoverFor)
    <3>1. paused' = paused /\ recoverSince' = low BY <1>1, <1>8, <2>4
    <3>2. low < RecoverFor BY <1>5, <2>1, <2>4
    <3>3. PauseTypeOK'
      <4>1. low \in None..RecoverFor BY <1>5, <2>1, <3>2 DEF None
      <4>2. highSince' \in None..Longest BY <1>1, <1>5 DEF None
      <4> QED BY <1>2, <1>4, <3>1, <4>1, <4>2 DEF PauseTypeOK
    <3>4. \E t \in RunOf({"low"})' : t.ago = low BY <2>1, <2>4
    <3>5. low # None BY <2>1 DEF None
    <3>6. \A s \in RunOf({"low"})' : low >= s.ago BY <2>2, <2>4
    <3>7. ~Held({"low"}, RecoverFor)'
      <4>1. \A s \in RunOf({"low"})' : ~(s.ago >= RecoverFor) BY <1>5, <1>6, <2>1, <3>2, <3>6
      <4> QED BY <4>1 DEF Held
    <3>8. PauseInv' BY <1>1, <1>3, <1>8, <3>1, <3>2, <3>3, <3>4, <3>5, <3>6 DEF PauseInv
    <3> QED BY <1>1, <1>3, <1>8, <3>1, <3>7, <3>8 DEF Earned, Held
  <2> QED BY <2>3, <2>4
<1> QED BY <1>7, <1>8

\* A new policy forgets everything.
LEMMA NewPolicyInv ==
    ASSUME PauseInv, NewPolicy
    PROVE  PauseInv' /\ Earned
<1>1. paused' = "no" /\ highSince' = None /\ recoverSince' = None /\ log' = {} BY DEF NewPolicy
<1>2. \A kinds : RunOf(kinds)' = {} BY <1>1 DEF RunOf
<1>3. /\ RunOf({"high"})' = {} /\ RunOf({"high", "memory"})' = {}
      /\ RunOf({"low"})' = {} /\ RunOf({"memory"})' = {}
  BY <1>2
<1>4. PauseTypeOK' BY <1>1, PauseTimes DEF PauseTypeOK, PauseInv, None
<1> QED BY <1>1, <1>3, <1>4 DEF PauseInv, Earned, Held

\* Every sample keeps the invariant, and what it does to the pause is earned.
LEMMA PauseStep == PauseInv /\ [PauseNext]_pauseVars => PauseInv' /\ [Earned]_pauseVars
<1>1. ASSUME PauseInv, PauseNext PROVE PauseInv' /\ Earned
  BY <1>1, NeutralSample, MemorySampleInv, HighSampleInv, LowSampleInv, NewPolicyInv DEF PauseNext
<1>2. ASSUME PauseInv, UNCHANGED pauseVars PROVE PauseInv'
  <2>1. paused' = paused /\ highSince' = highSince /\ recoverSince' = recoverSince /\ log' = log
    BY <1>2 DEF pauseVars
  <2>2. \A kinds : RunOf(kinds)' = RunOf(kinds) BY <2>1 DEF RunOf
  <2>3. RunOf({"high"})' = RunOf({"high"}) /\ RunOf({"high", "memory"})' = RunOf({"high", "memory"})
        /\ RunOf({"low"})' = RunOf({"low"})
    BY <2>2
  <2>4. PauseTypeOK' BY <1>2, <2>1 DEF PauseInv, PauseTypeOK
  <2> QED BY <1>2, <2>1, <2>3, <2>4 DEF PauseInv
<1> QED BY <1>1, <1>2

\* There is no pause at the start.
LEMMA PauseInitially == PauseInit => PauseInv
<1> SUFFICES ASSUME PauseInit PROVE PauseInv OBVIOUS
<1>1. paused = "no" /\ highSince = None /\ recoverSince = None /\ log = {} BY DEF PauseInit
<1>2. \A kinds : RunOf(kinds) = {} BY <1>1 DEF RunOf
<1>3. RunOf({"high"}) = {} /\ RunOf({"high", "memory"}) = {} /\ RunOf({"low"}) = {} BY <1>2
<1>4. None \in None..Longest /\ None \in None..RecoverFor
  BY PauseAssumption DEF None, Longest
<1>5. PauseTypeOK BY <1>1, <1>4 DEF PauseTypeOK
<1> QED BY <1>1, <1>3, <1>5 DEF PauseInv

\* For any thresholds and any times between samples: requests are refused only
\* for a reason that lasted, and admitted again when it has gone for long enough.
THEOREM PausesAreEarned == PauseSpec => PauseIsEarned
BY PauseInitially, PauseStep, PTL DEF PauseSpec, PauseIsEarned

\* The types of the pause, its times and the log.
THEOREM PauseTypes == PauseSpec => []PauseTypeOK
<1>1. PauseInv => PauseTypeOK BY DEF PauseInv
<1> QED BY <1>1, PauseInitially, PauseStep, PTL DEF PauseSpec

-----------------------------------------------------------------------------
(* The messages of a websocket.                                            *)

\* A connection starts between messages.
LEMMA WebsocketInitially == WebsocketInit => WebsocketInv
<1> SUFFICES ASSUME WebsocketInit PROVE WebsocketInv
  OBVIOUS
<1>1. 0 \in 0..(Limit + 1) /\ 0 \in 0..Limit /\ 0 <= Limit BY WebsocketAssumption
<1>2. frame \in Frames BY <1>1 DEF WebsocketInit, FirstFrame, Frames, Opcodes
<1>3. /\ receiver \in [within : BOOLEAN, payload : Nat, due : 0..(Limit + 1), confused : BOOLEAN]
      /\ receiver.within = FALSE /\ receiver.payload = 0 /\ receiver.due = 0
      /\ receiver.confused = FALSE
  BY <1>1 DEF WebsocketInit
<1>4. WebsocketTypeOK
  <2>1. remaining \in 0..(Limit + 1) /\ message \in 0..Limit /\ recorded \in 0..1
    BY <1>1 DEF WebsocketInit
  <2>2. messageOpen \in BOOLEAN /\ rejected \in BOOLEAN /\ broken \in BOOLEAN
    BY DEF WebsocketInit
  <2> QED BY <1>2, <1>3, <2>1, <2>2 DEF WebsocketTypeOK
<1>5. MessagesWithinLimit BY <1>1, <1>3 DEF WebsocketInit, MessagesWithinLimit
<1>6. ~InData BY DEF WebsocketInit, InData
<1> QED BY <1>3, <1>4, <1>5, <1>6 DEF WebsocketInit, WebsocketInv

\* A rejection changes neither what the upstream has read nor what is due.
LEMMA RejectRecords ==
    ASSUME WebsocketInv, Reject, frame' \in Frames, message' \in 0..Limit, messageOpen' \in BOOLEAN
    PROVE  WebsocketInv'
BY WebsocketAssumption DEF Reject, WebsocketInv, WebsocketTypeOK, MessagesWithinLimit

\* A header of a frame that may stand there.
LEMMA HeaderForwarded ==
    ASSUME WebsocketInv, NEW f \in Frames, Header(f), ~rejected'
    PROVE  WebsocketInv'
<1> DEFINE counted == IF f.opcode = "data" THEN 0 ELSE message
           open == messageOpen \/ f.opcode = "data"
           count == IF IsControl(f) THEN message ELSE counted + f.length
<1>1. /\ remaining = 0 /\ ~rejected /\ frame' = f
      /\ ~(f.opcode = "continuation" /\ ~messageOpen) /\ ~(f.opcode = "data" /\ messageOpen)
      /\ IsControl(f) \/ f.length <= Limit - counted
      /\ Receives(f) /\ remaining' = f.length /\ UNCHANGED <<rejected, recorded, broken>>
      /\ IF f.length = 0 THEN EndFrame(f, count) ELSE message' = count /\ messageOpen' = open
  BY WebsocketAssumption DEF Header, Reject, Frames, WebsocketInv, WebsocketTypeOK
<1>2. /\ f.opcode \in {"continuation", "data", "control"} /\ f.final \in BOOLEAN
      /\ f.length \in 0..(Limit + 1) /\ Limit \in Nat
  BY WebsocketAssumption DEF Frames, Opcodes
<1>3. /\ receiver.within \in BOOLEAN /\ receiver.payload \in Nat /\ receiver.payload <= Limit
      /\ receiver.due = 0 /\ receiver.confused = FALSE
      /\ message \in 0..Limit /\ messageOpen \in BOOLEAN
      /\ messageOpen <=> receiver.within
      /\ messageOpen => message = receiver.payload
  BY <1>1, <1>2 DEF WebsocketInv, WebsocketTypeOK, MessagesWithinLimit, InData
<1>4. /\ receiver'.within = IF IsControl(f) THEN receiver.within ELSE ~f.final
      /\ receiver'.payload = (IF f.opcode = "data" THEN 0 ELSE receiver.payload)
                             + (IF IsControl(f) THEN 0 ELSE f.length)
      /\ receiver'.due = f.length
      /\ receiver'.confused = FALSE
      /\ receiver' = [within |-> receiver'.within, payload |-> receiver'.payload,
                      due |-> receiver'.due, confused |-> receiver'.confused]
  BY <1>1, <1>3 DEF Receives
<1>5. /\ receiver'.payload \in Nat /\ receiver'.payload <= Limit
      /\ count \in 0..Limit /\ (open => count = receiver'.payload)
  BY <1>1, <1>2, <1>3, <1>4 DEF IsControl
<1>6. /\ receiver' \in [within : BOOLEAN, payload : Nat, due : 0..(Limit + 1), confused : BOOLEAN]
      /\ remaining' \in 0..(Limit + 1) /\ frame' \in Frames
  BY <1>1, <1>2, <1>3, <1>4, <1>5
<1> HIDE DEF counted, count
<1>7. CASE f.length = 0
  <2>1. /\ message' \in 0..Limit /\ messageOpen' \in BOOLEAN
        /\ messageOpen' <=> receiver'.within
        /\ messageOpen' => message' = receiver'.payload
    <3>1. CASE f.final /\ ~IsControl(f)
      <4>1. message' = 0 /\ messageOpen' = FALSE /\ receiver'.within = FALSE
        BY <1>1, <1>4, <1>7, <3>1 DEF EndFrame
      <4>2. 0 \in 0..Limit BY <1>2
      <4>3. message' \in 0..Limit BY <4>1, <4>2
      <4> QED BY <4>1, <4>3, Zenon
    <3>2. CASE ~(f.final /\ ~IsControl(f))
      <4>1. message' = count /\ messageOpen' = open BY <1>1, <1>7, <3>2 DEF EndFrame
      <4>2. CASE IsControl(f)
        <5>1. open = messageOpen /\ receiver'.within = receiver.within BY <1>3, <1>4, <4>2 DEF IsControl
        <5> QED BY <1>3, <1>5, <4>1, <5>1
      <4>3. CASE ~IsControl(f)
        <5>1. open = TRUE /\ receiver'.within = TRUE BY <1>1, <1>2, <1>3, <1>4, <3>2, <4>3 DEF IsControl
        <5> QED BY <1>3, <1>5, <4>1, <5>1
      <4> QED BY <4>2, <4>3
    <3> QED BY <3>1, <3>2
  <2>2. ~InData' BY <1>1, <1>7 DEF InData
  <2> QED BY <1>1, <1>4, <1>5, <1>6, <1>7, <2>1, <2>2
          DEF WebsocketInv, WebsocketTypeOK, MessagesWithinLimit
<1>8. CASE f.length # 0
  <2>1. /\ message' \in 0..Limit /\ messageOpen' \in BOOLEAN
        /\ messageOpen' <=> receiver'.within \/ ~IsControl(f)
        /\ messageOpen' => message' = receiver'.payload
    BY <1>1, <1>2, <1>3, <1>4, <1>5, <1>8 DEF IsControl
  <2>2. InData' <=> ~IsControl(f) BY <1>1, <1>2, <1>8 DEF InData, IsControl
  <2>3. InData' => (frame'.final <=> ~receiver'.within) BY <1>1, <1>2, <1>4, <2>2
  <2> QED BY <1>1, <1>4, <1>5, <1>6, <1>8, <2>1, <2>2, <2>3
          DEF WebsocketInv, WebsocketTypeOK, MessagesWithinLimit
<1> QED BY <1>7, <1>8

\* A header, forwarded or rejected.
LEMMA HeaderHolds ==
    ASSUME WebsocketInv, NEW f \in Frames, Header(f)
    PROVE  WebsocketInv'
<1>1. CASE ~rejected' BY <1>1, HeaderForwarded
<1>2. CASE rejected'
  <2> DEFINE counted == IF f.opcode = "data" THEN 0 ELSE message
  <2>1. ~rejected BY DEF Header
  <2>2. /\ Reject /\ frame' = f /\ messageOpen' = (messageOpen \/ f.opcode = "data")
        /\ message' = IF ~IsControl(f) /\ f.length > Limit - counted THEN counted
                      ELSE IF IsControl(f) THEN message ELSE counted + f.length
    BY <1>2, <2>1 DEF Header
  <2>3. counted \in 0..Limit /\ f.length \in 0..(Limit + 1) /\ message \in 0..Limit /\ messageOpen \in BOOLEAN
    BY WebsocketAssumption DEF WebsocketInv, WebsocketTypeOK, Frames
  <2> HIDE DEF counted
  <2>4. message' \in 0..Limit /\ messageOpen' \in BOOLEAN BY WebsocketAssumption, <2>2, <2>3
  <2> QED BY <2>2, <2>4, RejectRecords
<1> QED BY <1>1, <1>2

\* The payload, or the part that is taken of it.
LEMMA PayloadHolds ==
    ASSUME WebsocketInv, NEW n \in 0..(Limit + 1), Payload(n) \/ ShortWrite(n)
    PROVE  WebsocketInv'
<1>1. /\ ~rejected /\ ReceivesBytes(n) /\ remaining' = remaining - n /\ n <= remaining
      /\ UNCHANGED <<frame, rejected, recorded>> /\ broken' \in BOOLEAN
  <2>1. CASE Payload(n)
    BY <2>1, WebsocketAssumption DEF Payload, WebsocketInv, WebsocketTypeOK
  <2>2. CASE ShortWrite(n)
    BY <2>2, WebsocketAssumption DEF ShortWrite, WebsocketInv, WebsocketTypeOK
  <2> QED BY <2>1, <2>2
<1>2. /\ remaining \in 0..(Limit + 1) /\ Limit \in Nat /\ receiver.due = remaining
      /\ receiver.within \in BOOLEAN /\ receiver.payload \in Nat /\ receiver.payload <= Limit
      /\ frame.final \in BOOLEAN /\ frame \in Frames
      /\ message \in 0..Limit /\ messageOpen \in BOOLEAN
      /\ messageOpen <=> receiver.within \/ InData
      /\ messageOpen => message = receiver.payload
      /\ InData => (frame.final <=> ~receiver.within)
  BY <1>1, WebsocketAssumption DEF WebsocketInv, WebsocketTypeOK, MessagesWithinLimit, Frames
<1>3. /\ receiver'.due = remaining' /\ receiver'.within = receiver.within
      /\ receiver'.payload = receiver.payload /\ receiver'.confused = receiver.confused
      /\ receiver' \in [within : BOOLEAN, payload : Nat, due : 0..(Limit + 1), confused : BOOLEAN]
      /\ remaining' \in 0..(Limit + 1)
  BY <1>1, <1>2 DEF ReceivesBytes, WebsocketInv, WebsocketTypeOK
<1>4. CASE n = remaining /\ Payload(n)
  <2>1. EndFrame(frame, message) /\ remaining > 0 /\ remaining' = 0 BY <1>1, <1>2, <1>4 DEF Payload
  <2>2. ~InData' BY <2>1 DEF InData
  <2>3. InData <=> ~IsControl(frame) BY <2>1 DEF InData
  <2>4. frame.opcode = "data" => messageOpen BY <1>2, <2>3 DEF IsControl
  <2>5. /\ message' \in 0..Limit /\ messageOpen' \in BOOLEAN
        /\ messageOpen' <=> receiver.within
        /\ messageOpen' => message' = receiver.payload
    <3>1. CASE frame.final /\ ~IsControl(frame)
      <4>1. message' = 0 /\ messageOpen' = FALSE BY <2>1, <3>1 DEF EndFrame
      <4>2. ~receiver.within BY <1>2, <2>3, <3>1
      <4>3. 0 \in 0..Limit BY <1>2
      <4>4. message' \in 0..Limit BY <4>1, <4>3
      <4> QED BY <4>1, <4>2, <4>4, Zenon
    <3>2. CASE ~(frame.final /\ ~IsControl(frame))
      <4>1. message' = message /\ messageOpen' = messageOpen
        BY <1>2, <2>1, <2>4, <3>2 DEF EndFrame
      <4>2. messageOpen <=> receiver.within BY <1>2, <2>3, <3>2
      <4> QED BY <1>2, <1>3, <4>1, <4>2
    <3> QED BY <3>1, <3>2
  <2> QED BY <1>1, <1>2, <1>3, <2>2, <2>5 DEF WebsocketInv, WebsocketTypeOK, MessagesWithinLimit
<1>5. CASE ~(n = remaining /\ Payload(n))
  <2>1. UNCHANGED <<message, messageOpen>> /\ remaining > 0 /\ remaining' > 0
    BY <1>1, <1>2, <1>5 DEF Payload, ShortWrite
  <2>2. InData' <=> InData BY <1>1, <2>1 DEF InData
  <2> QED BY <1>1, <1>2, <1>3, <2>1, <2>2 DEF WebsocketInv, WebsocketTypeOK, MessagesWithinLimit
<1> QED BY <1>4, <1>5

\* Every step keeps it.
LEMMA WebsocketStep ==
    ASSUME WebsocketInv, [WebsocketNext]_frameVars
    PROVE  WebsocketInv'
<1>1. CASE UNCHANGED frameVars
  BY <1>1 DEF frameVars, WebsocketInv, WebsocketTypeOK, MessagesWithinLimit, InData, IsControl
<1>2. ASSUME NEW f \in Frames, Header(f) PROVE WebsocketInv' BY <1>2, HeaderHolds
<1>3. ASSUME NEW n \in 0..(Limit + 1), Payload(n) \/ ShortWrite(n) PROVE WebsocketInv'
  BY <1>3, PayloadHolds
<1>4. CASE HeaderAgain
  <2>1. Reject /\ frame' \in Frames /\ message' \in 0..Limit /\ messageOpen' \in BOOLEAN
    BY <1>4 DEF HeaderAgain, WebsocketInv, WebsocketTypeOK
  <2> QED BY <2>1, RejectRecords
<1> QED BY <1>1, <1>2, <1>3, <1>4 DEF WebsocketNext

\* The inductive invariant of the writer.
LEMMA WebsocketHolds == WebsocketSpec => []WebsocketInv
<1>1. WebsocketInv /\ [WebsocketNext]_frameVars => WebsocketInv' BY WebsocketStep
<1> QED BY <1>1, WebsocketInitially, PTL DEF WebsocketSpec

\* No message of more than the limit goes upstream, and what goes there can be
\* read, for any limit, any number of frames and any pieces.
THEOREM LongMessagesStop == WebsocketSpec => []MessagesWithinLimit
<1>1. WebsocketInv => MessagesWithinLimit BY DEF WebsocketInv
<1> QED BY <1>1, WebsocketHolds, PTL

\* The writer's variables keep their types; the message never passes the limit.
THEOREM WebsocketTypes == WebsocketSpec => []WebsocketTypeOK
<1>1. WebsocketInv => WebsocketTypeOK BY DEF WebsocketInv
<1> QED BY <1>1, WebsocketHolds, PTL

-----------------------------------------------------------------------------
(* Accounts: an administrator remains, and what credentials open is closed *)
(* with them.                                                              *)

\* What a request knows at each of its steps.
Knows(r) ==
    /\ r.op # "none" => r.user \in People
    /\ r.step # "idle" => r.op # "none"
    /\ r.op = "reset" => r.code \in Codes
    /\ r.op = "password" => r.code = "none"
    /\ r.op \in {"promote", "demote", "suspend", "delete"} => r.token = "none"
Shaped ==
    /\ \A h \in Handlers : Knows(request[h])
    /\ \A t \in Tokens : session[t] = NoSession \/ session[t].user \in People

\* At first no request is served and no session is open.
LEMMA AccountsInitially == AccountsInit => AccountsTypeOK /\ Shaped
<1> SUFFICES ASSUME AccountsInit PROVE AccountsTypeOK /\ Shaped
  OBVIOUS
<1> USE AccountsAssumption DEF AccountsInit
<1>1. status \in [People -> AccountStatuses] /\ role \in [People -> {"user", "admin"}]
  BY DEF AccountStatuses
<1>2. session \in [Tokens -> [user : People \cup {"none"}, since : Nat]]
  BY DEF NoSession
<1>3. code \in [Codes -> [user : People \cup {"none"}, state : {"none", "fresh", "used", "gone"},
                          served : Nat]]
  BY DEF NoCode
<1>4. request \in [Handlers -> Requests] /\ \A h \in Handlers : request[h] = NoRequest
  BY DEF NoRequest, Requests, Steps, Operations
<1>5. AccountsTypeOK
  <2>1. epoch \in [People -> Nat]
    OBVIOUS
  <2>2. cuts \in 0..MaxCuts
    OBVIOUS
  <2>3. raced \in BOOLEAN /\ focus \in Focuses /\ queue \subseteq RemovalJobs /\ ticker \subseteq RemovalJobs
    OBVIOUS
  <2> QED BY <1>1, <1>2, <1>3, <1>4, <2>1, <2>2, <2>3 DEF AccountsTypeOK
<1>6. Shaped
  BY <1>4 DEF Shaped, Knows, NoRequest
<1> QED BY <1>5, <1>6

\* A request that begins, goes on or ends.
LEMMA BeginShape ==
    ASSUME AccountsTypeOK, Shaped, NEW h \in Handlers, NEW u \in People,
           NEW t \in Tokens \cup {"none"}, NEW step \in Steps,
           NEW op \in Operations \ {"none", "reset"}, Begin(h, op, step, u, t)
    PROVE  /\ request' \in [Handlers -> Requests]
           /\ \A g \in Handlers \ {h} : request'[g] = request[g]
           /\ request'[h].op = op /\ request'[h].step = step /\ request'[h].user = u
           /\ request'[h].token = t /\ request'[h].code = "none"
BY DEF AccountsTypeOK, Begin, NoRequest, Requests, Steps, Operations

\* A request goes to another step and keeps what it knows.
LEMMA StepShape ==
    ASSUME AccountsTypeOK, NEW h \in Handlers, NEW step \in Steps, Step(h, step)
    PROVE  /\ request' \in [Handlers -> Requests]
           /\ \A g \in Handlers \ {h} : request'[g] = request[g]
           /\ request'[h].op = request[h].op /\ request'[h].step = step
           /\ request'[h].user = request[h].user /\ request'[h].token = request[h].token
           /\ request'[h].code = request[h].code
BY SMTT(20) DEF AccountsTypeOK, Step, Requests

\* A request is over.
LEMMA DoneShape ==
    ASSUME AccountsTypeOK, NEW h \in Handlers, Done(h)
    PROVE  /\ request' \in [Handlers -> Requests]
           /\ \A g \in Handlers \ {h} : request'[g] = request[g]
           /\ request'[h].op = "none" /\ request'[h].step = "idle"
BY DEF AccountsTypeOK, Done, NoRequest, Requests, Steps, Operations

\* Every step keeps the types, and what a request knows at each of its steps.
LEMMA TypesStep ==
    ASSUME AccountsTypeOK, Shaped, [AccountsNext]_accountVars
    PROVE  AccountsTypeOK' /\ Shaped'
<1>0. /\ NoRequest.op = "none" /\ NoRequest.step = "idle"
      /\ \A h \in Handlers : /\ request[h].op \in Operations /\ request[h].step \in Steps
                             /\ request[h].user \in People \cup {"none"}
                             /\ request[h].token \in Tokens \cup {"none"}
                             /\ request[h].code \in Codes \cup {"none"}
  BY DEF NoRequest, AccountsTypeOK, Requests
<1>a. ASSUME UNCHANGED <<role, epoch, session, code, queue, ticker, request, focus, raced, cuts>>,
             status' \in [People -> AccountStatuses]
      PROVE  AccountsTypeOK' /\ Shaped'
  BY <1>a DEF AccountsTypeOK, Shaped, Knows
<1>1. ASSUME NEW u \in People, Register(u) PROVE AccountsTypeOK' /\ Shaped'
  BY <1>1 DEF Register, AccountsTypeOK, Shaped, Knows, AccountStatuses
<1>2. ASSUME NEW u \in People, Decide(u) PROVE AccountsTypeOK' /\ Shaped'
  BY <1>2, <1>a DEF Decide, AccountsTypeOK, AccountStatuses
<1>3. ASSUME NEW u \in People, Resume(u) PROVE AccountsTypeOK' /\ Shaped'
  BY <1>3, <1>a DEF Resume, AccountsTypeOK, AccountStatuses
<1>b. ASSUME NEW h \in Handlers, NEW u \in People, NEW t \in Tokens \cup {"none"},
             NEW step \in Steps, NEW op \in Operations \ {"none", "reset"}, step # "idle",
             op \in {"promote", "demote", "suspend", "delete"} => t = "none",
             Begin(h, op, step, u, t),
             UNCHANGED <<status, role, epoch, session, code, queue, ticker, focus, raced, cuts>>
      PROVE  AccountsTypeOK' /\ Shaped'
  <2>1. /\ request' \in [Handlers -> Requests]
        /\ \A g \in Handlers \ {h} : request'[g] = request[g]
        /\ request'[h].op = op /\ request'[h].step = step /\ request'[h].user = u
        /\ request'[h].code = "none" /\ request'[h].token = t
    BY <1>b, BeginShape
  <2> QED BY <1>b, <2>1 DEF AccountsTypeOK, Shaped, Knows
<1>c. ASSUME NEW h \in Handlers, NEW step \in Steps \ {"idle"}, Step(h, step),
             request[h].step # "idle"
      PROVE  /\ request' \in [Handlers -> Requests]
             /\ \A g \in Handlers : Knows(request'[g])
  BY <1>c, StepShape DEF Shaped, Knows
<1>d. ASSUME NEW h \in Handlers, Done(h)
      PROVE  /\ request' \in [Handlers -> Requests]
             /\ \A g \in Handlers : Knows(request'[g])
  BY <1>d, DoneShape DEF Shaped, Knows
<1>4. ASSUME NEW h \in Handlers, NEW u \in People, Authenticate(h, u) PROVE AccountsTypeOK' /\ Shaped'
  BY <1>4, <1>b DEF Authenticate, Steps, Operations
<1>5. ASSUME NEW h \in Handlers, NEW t \in Tokens, CreateSession(h, t)
      PROVE AccountsTypeOK' /\ Shaped'
  <2>1. request[h].user \in People
    BY <1>5, <1>0 DEF CreateSession, Does, Shaped, Knows
  <2>2. epoch[request[h].user] \in Nat
    BY <2>1 DEF AccountsTypeOK
  <2>3. /\ session' \in [Tokens -> [user : People \cup {"none"}, since : Nat]]
        /\ \A x \in Tokens : session'[x] = NoSession \/ session'[x].user \in People
    BY <1>5, <2>1, <2>2 DEF CreateSession, AccountsTypeOK, Shaped
  <2>4. Done(h) /\ UNCHANGED <<status, role, epoch, code, queue, ticker, focus, raced, cuts>>
    BY <1>5 DEF CreateSession
  <2> QED BY <1>d, <2>3, <2>4 DEF AccountsTypeOK, Shaped
<1>6. ASSUME NEW t \in Tokens, EndSession(t) PROVE AccountsTypeOK' /\ Shaped'
  <2>1. /\ session' \in [Tokens -> [user : People \cup {"none"}, since : Nat]]
        /\ \A x \in Tokens : session'[x] = NoSession \/ session'[x].user \in People
    BY <1>6 DEF EndSession, AccountsTypeOK, Shaped, Knows, NoSession
  <2> QED BY <1>6, <2>1 DEF EndSession, AccountsTypeOK, Shaped, Knows
<1>7. ASSUME NEW h \in Handlers, NEW t \in Tokens, OpenPassword(h, t) PROVE AccountsTypeOK' /\ Shaped'
  BY <1>7, <1>b DEF OpenPassword, Shaped, Knows, Steps, Operations
<1>8. ASSUME NEW h \in Handlers, SetPassword(h) PROVE AccountsTypeOK' /\ Shaped'
  <2>1. request[h].step # "idle" /\ request[h].user \in People
    BY <1>8, <1>0 DEF SetPassword, Shaped, Knows
  <2>2. epoch' \in [People -> Nat]
    BY <1>8, <2>1 DEF SetPassword, AccountsTypeOK
  <2>3. /\ session' \in [Tokens -> [user : People \cup {"none"}, since : Nat]]
        /\ \A x \in Tokens : session'[x] = NoSession \/ session'[x].user \in People
    <3> DEFINE u == request[h].user
               New(x) == IF x = request[h].token /\ session[x].user = u
                         THEN [session[x] EXCEPT !.since = epoch[u] + 1] ELSE session[x]
    <3>1. session' = [x \in Tokens |-> New(x)]
      BY <1>8 DEF SetPassword
    <3>2. epoch[u] + 1 \in Nat
      BY <2>1 DEF AccountsTypeOK
    <3>3. ASSUME NEW x \in Tokens
          PROVE  /\ New(x) \in [user : People \cup {"none"}, since : Nat]
                 /\ New(x) = NoSession \/ New(x).user \in People
      <4>1. session[x] \in [user : People \cup {"none"}, since : Nat]
        BY DEF AccountsTypeOK
      <4>2. CASE x = request[h].token /\ session[x].user = u
        BY <2>1, <3>2, <4>1, <4>2
      <4>3. CASE ~(x = request[h].token /\ session[x].user = u)
        BY <4>1, <4>3 DEF Shaped, Knows
      <4> QED BY <4>2, <4>3
    <3> HIDE DEF New
    <3> QED BY <3>1, <3>3
  <2>4. code' \in [Codes -> [user : People \cup {"none"}, state : {"none", "fresh", "used", "gone"},
                             served : Nat]]
    BY <1>8 DEF SetPassword, AccountsTypeOK
  <2>5. Step(h, "sessions") /\ UNCHANGED <<status, role, queue, ticker, focus, raced, cuts>> /\ "sessions" \in Steps \ {"idle"}
    BY <1>8 DEF SetPassword, Steps
  <2> QED BY <1>c, <2>1, <2>2, <2>3, <2>4, <2>5 DEF AccountsTypeOK, Shaped, Knows
<1>9. ASSUME NEW h \in Handlers, DropSessions(h) PROVE AccountsTypeOK' /\ Shaped'
  <2>1. /\ session' \in [Tokens -> [user : People \cup {"none"}, since : Nat]]
        /\ \A x \in Tokens : session'[x] = NoSession \/ session'[x].user \in People
    BY <1>9 DEF DropSessions, AccountsTypeOK, Shaped, Knows, NoSession
  <2> QED BY <1>9, <1>d, <2>1 DEF DropSessions, AccountsTypeOK, Shaped, Knows
<1>10. ASSUME NEW u \in People, NEW c \in Codes, IssueCode(u, c) PROVE AccountsTypeOK' /\ Shaped'
  <2>1. code' \in [Codes -> [user : People \cup {"none"}, state : {"none", "fresh", "used", "gone"},
                             served : Nat]]
    BY <1>10 DEF IssueCode, AccountsTypeOK
  <2> QED BY <1>10, <2>1 DEF IssueCode, AccountsTypeOK, Shaped, Knows
<1>11. ASSUME NEW h \in Handlers, NEW u \in People, NEW c \in Codes, OpenReset(h, u, c)
       PROVE AccountsTypeOK' /\ Shaped'
  <2>1. /\ request' \in [Handlers -> Requests]
        /\ \A g \in Handlers \ {h} : request'[g] = request[g]
        /\ request'[h].op = "reset" /\ request'[h].user = u /\ request'[h].code = c
    BY <1>11 DEF OpenReset, AccountsTypeOK, NoRequest, Requests, Steps, Operations
  <2> QED BY <1>11, <2>1 DEF OpenReset, AccountsTypeOK, Shaped, Knows
<1>12. ASSUME NEW h \in Handlers, UseCode(h) PROVE AccountsTypeOK' /\ Shaped'
  <2>1. request[h].step # "idle" /\ "set" \in Steps \ {"idle"}
    BY <1>12 DEF UseCode, Does, Steps
  <2>2. code' \in [Codes -> [user : People \cup {"none"}, state : {"none", "fresh", "used", "gone"},
                             served : Nat]]
    <3>1. request[h].code \in Codes
      BY <1>12 DEF UseCode, Does, Shaped, Knows
    <3> QED BY <1>12, <3>1 DEF UseCode, AccountsTypeOK
  <2>3. (Step(h, "set") \/ Done(h)) /\ UNCHANGED <<status, role, epoch, session, queue, ticker, focus, raced, cuts>>
    BY <1>12 DEF UseCode
  <2> QED BY <1>c, <1>d, <2>1, <2>2, <2>3 DEF AccountsTypeOK, Shaped, Knows
<1>13. ASSUME NEW c \in Codes, CodeExpires(c) PROVE AccountsTypeOK' /\ Shaped'
  <2>1. code' \in [Codes -> [user : People \cup {"none"}, state : {"none", "fresh", "used", "gone"},
                             served : Nat]]
    BY <1>13 DEF CodeExpires, AccountsTypeOK
  <2> QED BY <1>13, <2>1 DEF CodeExpires, AccountsTypeOK, Shaped, Knows
<1>14. ASSUME NEW h \in Handlers, NEW u \in People, NEW op \in {"suspend", "delete"},
              OpenRemoval(h, op, u)
       PROVE AccountsTypeOK' /\ Shaped'
  BY <1>14, <1>b DEF OpenRemoval, Steps, Operations
<1>e. ASSUME NEW u \in People, Anonymize(u)
      PROVE  /\ status' \in [People -> AccountStatuses]
             /\ session' \in [Tokens -> [user : People \cup {"none"}, since : Nat]]
             /\ \A x \in Tokens : session'[x] = NoSession \/ session'[x].user \in People
             /\ code' \in [Codes -> [user : People \cup {"none"},
                                     state : {"none", "fresh", "used", "gone"}, served : Nat]]
  <2>1. status' \in [People -> AccountStatuses]
    BY <1>e DEF Anonymize, AccountsTypeOK, AccountStatuses
  <2>2. /\ session' \in [Tokens -> [user : People \cup {"none"}, since : Nat]]
        /\ \A x \in Tokens : session'[x] = NoSession \/ session'[x].user \in People
    BY <1>e DEF Anonymize, AccountsTypeOK, Shaped, Knows, NoSession
  <2>3. code' \in [Codes -> [user : People \cup {"none"},
                           state : {"none", "fresh", "used", "gone"}, served : Nat]]
    BY <1>e DEF Anonymize, AccountsTypeOK
  <2> QED BY <2>1, <2>2, <2>3
<1>f. ASSUME NEW u \in People, NEW op, RemoveAccount(op, u)
      PROVE  /\ status' \in [People -> AccountStatuses]
             /\ session' \in [Tokens -> [user : People \cup {"none"}, since : Nat]]
             /\ \A x \in Tokens : session'[x] = NoSession \/ session'[x].user \in People
             /\ code' \in [Codes -> [user : People \cup {"none"},
                                     state : {"none", "fresh", "used", "gone"}, served : Nat]]
  <2>1. CASE Anonymize(u)
    BY <1>e, <2>1
  <2>2. CASE status' = [status EXCEPT ![u] = "suspended"] /\ UNCHANGED <<session, code>>
    BY <2>2 DEF AccountsTypeOK, Shaped, AccountStatuses
  <2> QED BY <1>f, <2>1, <2>2 DEF RemoveAccount
<1>15. ASSUME NEW h \in Handlers, Settle(h) PROVE AccountsTypeOK' /\ Shaped'
  <2>1. /\ request[h].user \in People /\ request[h].step # "idle" /\ "queue" \in Steps \ {"idle"}
        /\ UNCHANGED <<role, epoch, queue, ticker, focus>>
    BY <1>15 DEF Settle, Removing, Shaped, Knows, Steps
  <2>2. raced' \in BOOLEAN /\ cuts' \in 0..MaxCuts
    <3>1. raced' = raced \/ NoteRace(request[h].user)
      BY <1>15 DEF Settle
    <3>2. cuts' = cuts \/ (cuts < MaxCuts /\ cuts' = cuts + 1)
      BY <1>15 DEF Settle
    <3>3. raced' \in BOOLEAN BY <3>1 DEF NoteRace, AccountsTypeOK
    <3>4. cuts' \in 0..MaxCuts BY <3>2, AccountsAssumption DEF AccountsTypeOK
    <3> QED BY <3>3, <3>4
  <2>3. request' \in [Handlers -> Requests] /\ \A g \in Handlers : Knows(request'[g])
    BY <1>15, <1>c, <1>d, <2>1 DEF Settle
  <2>4. /\ status' \in [People -> AccountStatuses]
        /\ session' \in [Tokens -> [user : People \cup {"none"}, since : Nat]]
        /\ \A x \in Tokens : session'[x] = NoSession \/ session'[x].user \in People
        /\ code' \in [Codes -> [user : People \cup {"none"},
                                state : {"none", "fresh", "used", "gone"}, served : Nat]]
    <3>1. CASE RemoveAccount(request[h].op, request[h].user)
      BY <1>f, <2>1, <3>1
    <3>2. CASE /\ UNCHANGED <<session, code>>
               /\ \/ status' = status
                  \/ \E s \in AccountStatuses : status' = [status EXCEPT ![request[h].user] = s]
      BY <2>1, <3>2 DEF AccountsTypeOK, Shaped
    <3> QED BY <1>15, <3>1, <3>2 DEF Settle, AccountStatuses
  <2> QED BY <2>1, <2>2, <2>3, <2>4 DEF AccountsTypeOK, Shaped
<1>16. ASSUME NEW j \in queue, SettleJob(j) PROVE AccountsTypeOK' /\ Shaped'
  <2>1. j \in RemovalJobs /\ j.user \in People
    BY DEF AccountsTypeOK, RemovalJobs
  <2>2. /\ RemoveAccount(j.action, j.user) /\ raced' \in BOOLEAN /\ ticker' \subseteq RemovalJobs
        /\ UNCHANGED <<role, epoch, queue, request, focus, cuts>>
    BY <1>16, <2>1 DEF SettleJob, NoteRace
  <2> QED BY <1>f, <2>1, <2>2 DEF AccountsTypeOK, Shaped, Knows
<1>22. ASSUME NEW h \in Handlers, Enqueue(h) PROVE AccountsTypeOK' /\ Shaped'
  <2>1. request[h].user \in People /\ request[h].op \in {"suspend", "delete"}
    BY <1>22 DEF Enqueue, Removing, Shaped, Knows
  <2>2. queue' \subseteq RemovalJobs
    BY <1>22, <2>1 DEF Enqueue, AccountsTypeOK, RemovalJobs
  <2> QED BY <1>22, <1>d, <2>2 DEF Enqueue, AccountsTypeOK, Shaped
<1>23. ASSUME DropJob \/ TickCutOff PROVE AccountsTypeOK' /\ Shaped'
  <2>1. /\ queue' \subseteq queue /\ ticker' = {}
        /\ UNCHANGED <<status, role, epoch, session, code, request, focus, raced>>
    BY <1>23 DEF DropJob, TickCutOff
  <2>2. cuts' \in 0..MaxCuts
    BY <1>23, AccountsAssumption DEF DropJob, TickCutOff, AccountsTypeOK
  <2> QED BY <2>1, <2>2 DEF AccountsTypeOK, Shaped, Knows
<1>24. ASSUME NEW h \in Handlers, NEW t \in Tokens, OpenResubmit(h, t)
       PROVE AccountsTypeOK' /\ Shaped'
  BY <1>24, <1>b DEF OpenResubmit, Shaped, Steps, Operations
<1>25. ASSUME NEW h \in Handlers, Resubmit(h) PROVE AccountsTypeOK' /\ Shaped'
  <2> DEFINE u == request[h].user
  <2>1. u \in People /\ epoch[u] + 1 \in Nat
    BY <1>25 DEF Resubmit, Does, Shaped, Knows, AccountsTypeOK
  <2>2. status' \in [People -> AccountStatuses] /\ epoch' \in [People -> Nat]
    BY <1>25, <2>1 DEF Resubmit, AccountsTypeOK, AccountStatuses
  <2>3. /\ session' \in [Tokens -> [user : People \cup {"none"}, since : Nat]]
        /\ \A x \in Tokens : session'[x] = NoSession \/ session'[x].user \in People
    <3>1. CASE UNCHANGED session
      BY <3>1 DEF AccountsTypeOK, Shaped
    <3>2. CASE session' = [x \in Tokens |->
                              IF session[x] = [user |-> u, since |-> epoch[u]]
                              THEN [user |-> u, since |-> epoch[u] + 1] ELSE session[x]]
      BY <2>1, <3>2 DEF AccountsTypeOK, Shaped
    <3> QED BY <1>25, <3>1, <3>2 DEF Resubmit
  <2>4. Done(h) /\ UNCHANGED <<role, code, queue, ticker, focus, raced, cuts>>
    BY <1>25 DEF Resubmit
  <2> QED BY <1>d, <2>2, <2>3, <2>4 DEF AccountsTypeOK, Shaped
<1>17. ASSUME NEW h \in Handlers, NEW u \in People, OpenRole(h, u) PROVE AccountsTypeOK' /\ Shaped'
  BY <1>17, <1>b DEF OpenRole, Steps, Operations
<1>18. ASSUME NEW h \in Handlers, Promote(h) PROVE AccountsTypeOK' /\ Shaped'
  <2>1. request[h].step # "idle" /\ request[h].user \in People /\ "sessions" \in Steps \ {"idle"}
    BY <1>18 DEF Promote, Does, Shaped, Knows, Steps
  <2>2. role' \in [People -> {"user", "admin"}] /\ epoch' \in [People -> Nat]
    BY <1>18, <2>1 DEF Promote, AccountsTypeOK
  <2>3. Step(h, "sessions") /\ UNCHANGED <<status, session, code, queue, ticker, focus, raced, cuts>>
    BY <1>18 DEF Promote
  <2> QED BY <1>c, <2>1, <2>2, <2>3 DEF AccountsTypeOK, Shaped, Knows
<1>19. ASSUME NEW h \in Handlers, Demote(h) PROVE AccountsTypeOK' /\ Shaped'
  <2>1. request[h].step # "idle" /\ request[h].user \in People /\ "sessions" \in Steps \ {"idle"}
    BY <1>19 DEF Demote, Does, Shaped, Knows, Steps
  <2>2. role' \in [People -> {"user", "admin"}] /\ epoch' \in [People -> Nat] /\ raced' \in BOOLEAN
    <3>1. CASE UNCHANGED <<role, epoch, raced>>
      BY <3>1 DEF AccountsTypeOK
    <3>2. CASE /\ role' = [role EXCEPT ![request[h].user] = "user"]
               /\ epoch' = [epoch EXCEPT ![request[h].user] = @ + 1]
               /\ NoteRace(request[h].user)
      <4>1. role' \in [People -> {"user", "admin"}]
        BY <2>1, <3>2 DEF AccountsTypeOK
      <4>2. epoch' \in [People -> Nat]
        BY <2>1, <3>2 DEF AccountsTypeOK
      <4>3. raced' \in BOOLEAN
        BY <3>2 DEF NoteRace, AccountsTypeOK
      <4> QED BY <4>1, <4>2, <4>3
    <3> QED BY <1>19, <3>1, <3>2 DEF Demote
  <2>3. (Step(h, "sessions") \/ Done(h)) /\ UNCHANGED <<status, session, code, queue, ticker, focus, cuts>>
    BY <1>19 DEF Demote
  <2> QED BY <1>c, <1>d, <2>1, <2>2, <2>3 DEF AccountsTypeOK, Shaped, Knows
<1>20. ASSUME NEW h \in Handlers, CutOff(h) PROVE AccountsTypeOK' /\ Shaped'
  <2>1. cuts' \in 0..MaxCuts
    BY <1>20, AccountsAssumption DEF CutOff, AccountsTypeOK
  <2> QED BY <1>20, <1>d, <2>1 DEF CutOff, AccountsTypeOK, Shaped, Knows
<1>21. CASE UNCHANGED accountVars
  BY <1>21 DEF accountVars, AccountsTypeOK, Shaped, Knows
<1> QED BY <1>1, <1>2, <1>3, <1>4, <1>5, <1>6, <1>7, <1>8, <1>9, <1>10, <1>11, <1>12, <1>13,
           <1>14, <1>15, <1>16, <1>17, <1>18, <1>19, <1>20, <1>21, <1>22, <1>23, <1>24, <1>25
    DEF AccountsNext

-----------------------------------------------------------------------------
(* An administrator remains.                                               *)

\* A removal under way, in a handler or in the queue, would leave an administrator:
\* OpenRemoval has counted.  AdminRemains alone does not say so.
AdminsLeft ==
    ~raced => /\ Admins # {}
              /\ \A u \in UnderRemoval : Admins \ {u} # {}

\* Of two administrators one is somebody else.
LEMMA AnotherAdmin ==
    ASSUME NEW S, NEW u, Cardinality(S) > 1
    PROVE  S \ {u} # {}
<1> SUFFICES ASSUME S \ {u} = {} PROVE FALSE
  OBVIOUS
<1>1. S = {} \/ S = {u}
  OBVIOUS
<1>2. Cardinality({}) = 0 /\ Cardinality({u}) = 1
  BY FS_EmptySet, FS_Singleton
<1> QED BY <1>1, <1>2

\* Who is under removal.
LEMMA Removals ==
    ASSUME NEW u
    PROVE  u \in UnderRemoval <=> \/ \E h \in Handlers : Removing(h) /\ request[h].user = u
                                 \/ \E j \in queue : j.user = u
BY DEF UnderRemoval

\* Steps that take no administrator away and begin no removal.
LEMMA AdminsGrow ==
    ASSUME AdminsLeft, Admins \subseteq Admins', raced' = raced, queue' \subseteq queue,
           \A h \in Handlers : Removing(h)' => Removing(h) /\ request'[h].user = request[h].user
    PROVE  AdminsLeft'
<1>1. UnderRemoval' \subseteq UnderRemoval
  BY DEF UnderRemoval, Removing
<1> QED BY <1>1 DEF AdminsLeft

\* One goes, and leaves another: nobody else who is under removal is one of them.
LEMMA OneGoes ==
    ASSUME AdminsLeft, NEW u, NoteRace(u), Admins \ {u} # {}, Admins \ {u} \subseteq Admins',
           u \notin Admins => Admins \subseteq Admins', UnderRemoval' \subseteq UnderRemoval
    PROVE  AdminsLeft'
<1> SUFFICES ASSUME ~raced' PROVE Admins' # {} /\ \A v \in UnderRemoval' : Admins' \ {v} # {}
  BY DEF AdminsLeft
<1>1. ~raced /\ (u \in Admins => UnderRemoval \cap Admins \subseteq {u}) BY DEF NoteRace
<1>2. ASSUME NEW v \in UnderRemoval' PROVE Admins' \ {v} # {}
  <2>1. v \in UnderRemoval /\ Admins \ {v} # {} BY <1>1, <1>2 DEF AdminsLeft
  <2>2. CASE u \notin Admins BY <2>1, <2>2
  <2>3. CASE u \in Admins
    <3>1. v = u \/ v \notin Admins BY <1>1, <2>1, <2>3
    <3> QED BY <2>1, <3>1
  <2> QED BY <2>2, <2>3
<1> QED BY <1>2

\* A removal that is carried out, or set aside, by a handler or a job.
LEMMA OneRemoved ==
    ASSUME AccountsTypeOK, AdminsLeft, NEW u \in UnderRemoval, NoteRace(u), UNCHANGED role,
           \E s \in AccountStatuses : status' = [status EXCEPT ![u] = s],
           UnderRemoval' \subseteq UnderRemoval
    PROVE  AdminsLeft'
<1>1. CASE raced BY <1>1 DEF NoteRace, AdminsLeft
<1>2. CASE ~raced
  <2>1. Admins \ {u} # {} BY <1>2 DEF AdminsLeft
  <2>2. Admins \ {u} \subseteq Admins' BY DEF Admins, AccountsTypeOK
  <2> QED BY <2>1, <2>2, OneGoes
<1> QED BY <1>1, <1>2

\* The status a removal leaves.
LEMMA RemovedStatus ==
    ASSUME NEW u, NEW op, RemoveAccount(op, u)
    PROVE  \E s \in AccountStatuses : status' = [status EXCEPT ![u] = s]
BY DEF RemoveAccount, Anonymize, AccountStatuses

\* Every step leaves an administrator, unless removals overlapped.
LEMMA AdminsStep ==
    ASSUME AccountsTypeOK, Shaped, AdminsLeft, [AccountsNext]_accountVars
    PROVE  AdminsLeft'
<1>a. ASSUME UNCHANGED <<role, request, queue, raced>>, Admins \subseteq Admins' PROVE AdminsLeft'
  BY <1>a, AdminsGrow DEF Removing
<1>1. ASSUME NEW u \in People, Register(u) \/ Decide(u) \/ Resume(u) PROVE AdminsLeft'
  <2>1. UNCHANGED <<request, queue, raced>>
    BY <1>1 DEF Register, Decide, Resume
  <2>2. Admins \subseteq Admins'
    BY <1>1 DEF Register, Decide, Resume, Admins, AccountsTypeOK
  <2> QED BY <2>1, <2>2, AdminsGrow DEF Removing
<1>2. ASSUME NEW h \in Handlers, UNCHANGED <<status, role, queue, raced>>,
             \A g \in Handlers \ {h} : request'[g] = request[g], ~Removing(h)'
      PROVE  AdminsLeft'
  <2>1. Admins' = Admins
    BY <1>2 DEF Admins
  <2>2. \A g \in Handlers : Removing(g)' => Removing(g) /\ request'[g].user = request[g].user
    BY <1>2 DEF Removing
  <2> QED BY <1>2, <2>1, <2>2, AdminsGrow
<1>3. ASSUME NEW h \in Handlers, NEW u \in People, Authenticate(h, u) PROVE AdminsLeft'
  BY <1>3, <1>2, BeginShape DEF Authenticate, Removing, Steps, Operations
<1>4. ASSUME NEW h \in Handlers, NEW t \in Tokens, CreateSession(h, t) PROVE AdminsLeft'
  BY <1>4, <1>2, DoneShape DEF CreateSession, Removing
<1>5. ASSUME NEW t \in Tokens, EndSession(t) PROVE AdminsLeft'
  BY <1>5, <1>a DEF EndSession, Admins
<1>6. ASSUME NEW h \in Handlers, NEW t \in Tokens, OpenPassword(h, t) PROVE AdminsLeft'
  BY <1>6, <1>2, BeginShape DEF OpenPassword, Removing, Shaped, Knows, Steps, Operations
<1>7. ASSUME NEW h \in Handlers, SetPassword(h) PROVE AdminsLeft'
  BY <1>7, <1>2, StepShape DEF SetPassword, Removing, Steps
<1>8. ASSUME NEW h \in Handlers, DropSessions(h) PROVE AdminsLeft'
  BY <1>8, <1>2, DoneShape DEF DropSessions, Removing
<1>9. ASSUME NEW u \in People, NEW c \in Codes, IssueCode(u, c) PROVE AdminsLeft'
  BY <1>9, <1>a DEF IssueCode, Admins
<1>10. ASSUME NEW h \in Handlers, NEW u \in People, NEW c \in Codes, OpenReset(h, u, c)
       PROVE  AdminsLeft'
  BY <1>10, <1>2 DEF OpenReset, Removing, AccountsTypeOK, NoRequest
<1>11. ASSUME NEW h \in Handlers, UseCode(h) PROVE AdminsLeft'
  BY <1>11, <1>2, StepShape, DoneShape DEF UseCode, Does, Removing, Steps
<1>12. ASSUME NEW c \in Codes, CodeExpires(c) PROVE AdminsLeft'
  BY <1>12, <1>a DEF CodeExpires, Admins
<1>13. ASSUME NEW h \in Handlers, NEW u \in People, NEW op \in {"suspend", "delete"},
              OpenRemoval(h, op, u)
       PROVE  AdminsLeft'
  <2>1. /\ \A g \in Handlers \ {h} : request'[g] = request[g]
        /\ request'[h].user = u
    BY <1>13, BeginShape DEF OpenRemoval, Steps, Operations
  <2>2. UNCHANGED <<status, role, queue, raced>> /\ Admins' = Admins /\ Admins # {}
    BY <1>13 DEF OpenRemoval, ByAdmin, Admins
  <2>3. Admins \ {u} # {}
    <3>1. CASE u \notin Admins
      BY <2>2, <3>1
    <3>2. CASE u \in Admins
      <4>1. Cardinality(Admins) > 1
        BY <1>13, <3>2 DEF OpenRemoval, MayRemove, Admins
      <4> QED BY <4>1, AnotherAdmin
    <3> QED BY <3>1, <3>2
  <2>4. UnderRemoval' \subseteq UnderRemoval \cup {u}
    BY <2>1, <2>2 DEF UnderRemoval, Removing
  <2> QED BY <2>2, <2>3, <2>4 DEF AdminsLeft
<1>14. ASSUME NEW h \in Handlers, Settle(h) PROVE AdminsLeft'
  <2>1. Removing(h) /\ UNCHANGED <<role, queue>> /\ (Step(h, "queue") \/ Done(h))
    BY <1>14 DEF Settle
  <2>2. \A g \in Handlers : Removing(g)' => Removing(g) /\ request'[g].user = request[g].user
    BY <2>1, StepShape, DoneShape DEF Removing, Steps
  <2>3. UnderRemoval' \subseteq UnderRemoval /\ request[h].user \in UnderRemoval
    BY <2>1, <2>2, Removals DEF UnderRemoval
  <2>4. CASE UNCHANGED <<status, raced>>
    <3>1. Admins' = Admins BY <2>1, <2>4 DEF Admins
    <3> QED BY <2>1, <2>2, <2>4, <3>1, AdminsGrow
  <2>5. CASE /\ NoteRace(request[h].user)
             /\ \E s \in AccountStatuses : status' = [status EXCEPT ![request[h].user] = s]
    BY <2>1, <2>3, <2>5, OneRemoved
  <2> QED BY <1>14, <2>4, <2>5, RemovedStatus DEF Settle, AccountStatuses
<1>15. ASSUME NEW j \in queue, SettleJob(j) PROVE AdminsLeft'
  <2>1. /\ NoteRace(j.user) /\ UNCHANGED <<role, queue, request>> /\ RemoveAccount(j.action, j.user)
    BY <1>15 DEF SettleJob
  <2>2. UnderRemoval' = UnderRemoval /\ j.user \in UnderRemoval
    BY <2>1, Removals DEF UnderRemoval, Removing
  <2> QED BY <2>1, <2>2, RemovedStatus, OneRemoved
<1>21. ASSUME NEW h \in Handlers, Enqueue(h) PROVE AdminsLeft'
  <2>1. /\ Removing(h) /\ Done(h) /\ UNCHANGED <<status, role, raced>>
        /\ \A j \in queue' : j \in queue \/ j.user = request[h].user
    BY <1>21 DEF Enqueue
  <2>2. \A g \in Handlers : Removing(g)' => Removing(g) /\ request'[g].user = request[g].user
    BY <2>1, DoneShape DEF Removing
  <2>3. UnderRemoval' \subseteq UnderRemoval
    BY <2>1, <2>2 DEF UnderRemoval
  <2> QED BY <2>1, <2>3 DEF AdminsLeft, Admins
<1>22. ASSUME DropJob \/ TickCutOff PROVE AdminsLeft'
  <2>1. queue' \subseteq queue /\ UNCHANGED <<status, role, request, raced>>
    BY <1>22 DEF DropJob, TickCutOff
  <2> QED BY <2>1, AdminsGrow DEF Admins, Removing
<1>23. ASSUME NEW h \in Handlers, NEW t \in Tokens, OpenResubmit(h, t) PROVE AdminsLeft'
  BY <1>23, <1>2, BeginShape DEF OpenResubmit, Removing, Shaped, Steps, Operations
<1>24. ASSUME NEW h \in Handlers, Resubmit(h) PROVE AdminsLeft'
  <2>1. Done(h) /\ UNCHANGED <<role, queue, raced>>
    BY <1>24 DEF Resubmit
  <2>2. Admins \subseteq Admins'
    BY <1>24 DEF Resubmit, Admins, AccountsTypeOK
  <2>3. \A g \in Handlers : Removing(g)' => Removing(g) /\ request'[g].user = request[g].user
    BY <2>1, DoneShape DEF Removing
  <2> QED BY <2>1, <2>2, <2>3, AdminsGrow
<1>16. ASSUME NEW h \in Handlers, NEW u \in People, OpenRole(h, u) PROVE AdminsLeft'
  <2>1. PICK op \in {"promote", "demote"} : Begin(h, op, "write", u, "none")
    BY <1>16 DEF OpenRole
  <2>2. request'[h].op = op /\ \A g \in Handlers \ {h} : request'[g] = request[g]
    BY <2>1, BeginShape DEF Steps, Operations
  <2> QED BY <1>16, <1>2, <2>2 DEF OpenRole, Removing
<1>17. ASSUME NEW h \in Handlers, Promote(h) PROVE AdminsLeft'
  <2>1. Admins \subseteq Admins'
    BY <1>17 DEF Promote, Admins, AccountsTypeOK
  <2>2. \A g \in Handlers : Removing(g)' => Removing(g) /\ request'[g].user = request[g].user
    BY <1>17, StepShape DEF Promote, Removing, Steps
  <2> QED BY <1>17, <2>1, <2>2, AdminsGrow DEF Promote
<1>18. ASSUME NEW h \in Handlers, Demote(h) PROVE AdminsLeft'
  <2>1. ~Removing(h)' /\ \A g \in Handlers \ {h} : request'[g] = request[g]
    BY <1>18, StepShape, DoneShape DEF Demote, Does, Removing, Steps
  <2>2. UNCHANGED <<status, queue>>
    BY <1>18 DEF Demote
  <2>3. CASE UNCHANGED <<role, raced>>
    BY <1>2, <2>1, <2>2, <2>3
  <2>4. CASE /\ MayDemote(request[h].user) /\ NoteRace(request[h].user)
             /\ role' = [role EXCEPT ![request[h].user] = "user"]
    <3> DEFINE u == request[h].user
    <3>1. UnderRemoval' \subseteq UnderRemoval
      BY <2>1, <2>2 DEF UnderRemoval, Removing
    <3>2. Admins \ {u} \subseteq Admins' /\ (u \notin Admins => Admins \subseteq Admins')
      BY <2>2, <2>4 DEF Admins, AccountsTypeOK
    <3>3. CASE raced BY <2>4, <3>3 DEF NoteRace, AdminsLeft
    <3>4. CASE ~raced
      <4>1. CASE u \in Admins
        <5>1. Cardinality(Admins) > 1 BY <2>4, <4>1 DEF MayDemote, Admins
        <5>2. Admins \ {u} # {} BY <5>1, AnotherAdmin
        <5> QED BY <2>4, <3>1, <3>2, <5>2, OneGoes
      <4>2. CASE u \notin Admins
        BY <2>4, <3>1, <3>2, <3>4, <4>2, OneGoes DEF AdminsLeft
      <4> QED BY <4>1, <4>2
    <3> QED BY <3>3, <3>4
  <2> QED BY <1>18, <2>3, <2>4 DEF Demote
<1>19. ASSUME NEW h \in Handlers, CutOff(h) PROVE AdminsLeft'
  BY <1>19, <1>2, DoneShape DEF CutOff, Removing
<1>20. CASE UNCHANGED accountVars
  BY <1>20, <1>a DEF accountVars, Admins
<1> QED BY <1>1, <1>3, <1>4, <1>5, <1>6, <1>7, <1>8, <1>9, <1>10, <1>11, <1>12, <1>13,
           <1>14, <1>15, <1>16, <1>17, <1>18, <1>19, <1>20, <1>21, <1>22, <1>23, <1>24
    DEF AccountsNext

\* The portal keeps an approved administrator, unless one goes while the removal of
\* another is under way, in a handler or in the queue (adminUserAction, ProcessJobs,
\* Store.DemoteAdmin).
THEOREM AnAdminRemains == AccountsSpec => []AdminRemains
<1>1. AccountsInit => AdminsLeft
  <2> SUFFICES ASSUME AccountsInit PROVE AdminsLeft
    OBVIOUS
  <2>1. PICK f \in Founders : f \in People
    BY AccountsAssumption
  <2>2. f \in Admins
    BY <2>1 DEF AccountsInit, Admins
  <2>3. UnderRemoval = {}
    BY DEF AccountsInit, UnderRemoval, Removing, NoRequest
  <2> QED BY <2>2, <2>3 DEF AdminsLeft
<1>2. AdminsLeft => AdminRemains
  BY DEF AdminsLeft, AdminRemains
<1> QED BY <1>1, <1>2, AccountsInitially, TypesStep, AdminsStep, PTL DEF AccountsSpec

-----------------------------------------------------------------------------
(* Sessions end with the password or role they were made under.            *)

\* A stale session has a request that is about to delete it: one that was not
\* asked by this very session.  SessionsEndWithChange alone would let the
\* request that spares the session be the only one left.
Stale(t) == session[t] # NoSession /\ session[t].since # epoch[session[t].user]
Doomed(t) ==
    \E h \in Handlers : /\ request[h].user = session[t].user /\ request[h].step = "sessions"
                        /\ request[h].token # t
StaleEnds == cuts = 0 => \A t \in Tokens : Stale(t) => Doomed(t)

\* A request that writes no account and is not at the deletion of sessions
\* disturbs nothing.
LEMMA StaleKept ==
    ASSUME StaleEnds, cuts' = 0 => cuts = 0, epoch' = epoch,
           \A t \in Tokens : session'[t] = session[t] \/ session'[t] = NoSession,
           \A h \in Handlers : request[h].step = "sessions" => request'[h] = request[h]
    PROVE  StaleEnds'
<1> SUFFICES ASSUME cuts' = 0, NEW t \in Tokens, Stale(t)' PROVE Doomed(t)'
  BY DEF StaleEnds
<1>1. session'[t] = session[t] /\ Stale(t)
  BY DEF Stale
<1>2. Doomed(t)
  BY <1>1 DEF StaleEnds
<1> QED BY <1>1, <1>2 DEF Doomed

\* A request that changes an account goes on to delete its sessions, all but the
\* one it came with, which the change has made current.
LEMMA StaleChanged ==
    ASSUME StaleEnds, AccountsTypeOK, Shaped, cuts' = cuts, NEW h \in Handlers,
           request[h].step # "sessions", request'[h].step = "sessions",
           request'[h].user = request[h].user, request'[h].token = request[h].token,
           \A g \in Handlers \ {h} : request'[g] = request[g],
           \A u \in People \ {request[h].user} : epoch'[u] = epoch[u],
           \A t \in Tokens : t # request[h].token => session'[t] = session[t],
           \A t \in Tokens : t = request[h].token =>
               \/ session'[t] = session[t] /\ (session[t].user = request[h].user => epoch' = epoch)
               \/ session'[t].user = request[h].user /\ session'[t].since = epoch'[request[h].user]
    PROVE  StaleEnds'
<1> SUFFICES ASSUME cuts' = 0, NEW t \in Tokens, Stale(t)' PROVE Doomed(t)'
  BY DEF StaleEnds
<1>1. session'[t] = session[t]
  BY DEF Stale
<1>2. CASE session[t].user = request[h].user /\ t # request[h].token
  BY <1>1, <1>2 DEF Doomed
<1>3. CASE ~(session[t].user = request[h].user /\ t # request[h].token)
  <2>1. session[t].user \in People
    BY <1>1 DEF Stale, Shaped, Knows
  <2>2. epoch'[session[t].user] = epoch[session[t].user]
    BY <1>1, <1>3, <2>1 DEF Stale
  <2>3. Stale(t)
    BY <1>1, <2>2 DEF Stale
  <2>4. PICK g \in Handlers : /\ request[g].user = session[t].user /\ request[g].step = "sessions"
                              /\ request[g].token # t
    BY <2>3 DEF StaleEnds, Doomed
  <2> QED BY <1>1, <2>4 DEF Doomed
<1> QED BY <1>2, <1>3

\* Every step leaves each stale session to a request that will delete it.
LEMMA StaleStep ==
    ASSUME AccountsTypeOK, Shaped, StaleEnds, [AccountsNext]_accountVars
    PROVE  StaleEnds'
<1>a. ASSUME UNCHANGED <<epoch, request, cuts>>,
             \A t \in Tokens : session'[t] = session[t] \/ session'[t] = NoSession
      PROVE  StaleEnds'
  BY <1>a, StaleKept
<1>b. ASSUME NEW h \in Handlers, request[h].step # "sessions", UNCHANGED <<epoch, cuts>>,
             \A t \in Tokens : session'[t] = session[t] \/ session'[t] = NoSession,
             \A g \in Handlers \ {h} : request'[g] = request[g]
      PROVE  StaleEnds'
  BY <1>b, StaleKept
<1>c. ASSUME NEW u, Anonymize(u)
      PROVE  \A t \in Tokens : session'[t] = session[t] \/ session'[t] = NoSession
  BY <1>c DEF Anonymize
<1>1. ASSUME NEW u \in People, Register(u) \/ Decide(u) \/ Resume(u) PROVE StaleEnds'
  BY <1>1, <1>a DEF Register, Decide, Resume
<1>2. ASSUME NEW h \in Handlers, NEW u \in People, Authenticate(h, u) PROVE StaleEnds'
  BY <1>2, <1>b, BeginShape DEF Authenticate, Idle, Steps, Operations
<1>3. ASSUME NEW h \in Handlers, NEW t \in Tokens, CreateSession(h, t) PROVE StaleEnds'
  <2> SUFFICES ASSUME cuts' = 0, NEW x \in Tokens, Stale(x)' PROVE Doomed(x)'
    BY DEF StaleEnds
  <2>0. /\ request[h].step = "create" /\ UNCHANGED <<epoch, cuts>>
        /\ \A g \in Handlers \ {h} : request'[g] = request[g]
    BY <1>3, DoneShape DEF CreateSession, Does
  <2>1. x # t
    BY <1>3 DEF CreateSession, Stale, AccountsTypeOK
  <2>2. session'[x] = session[x] /\ Stale(x)
    BY <1>3, <2>1, <2>0 DEF CreateSession, Stale, AccountsTypeOK
  <2>3. Doomed(x)
    BY <2>0, <2>2 DEF StaleEnds
  <2> QED BY <2>0, <2>2, <2>3 DEF Doomed
<1>4. ASSUME NEW t \in Tokens, EndSession(t) PROVE StaleEnds'
  BY <1>4, <1>a DEF EndSession, AccountsTypeOK
<1>5. ASSUME NEW h \in Handlers, NEW t \in Tokens, OpenPassword(h, t) PROVE StaleEnds'
  BY <1>5, <1>b, BeginShape DEF OpenPassword, Idle, Shaped, Knows, Steps, Operations
<1>6. ASSUME NEW h \in Handlers, SetPassword(h) PROVE StaleEnds'
  <2> DEFINE u == request[h].user
             t == request[h].token
  <2>1. /\ request[h].step = "set" /\ u \in People
        /\ epoch' = [epoch EXCEPT ![u] = @ + 1] /\ UNCHANGED cuts
    BY <1>6 DEF SetPassword, Shaped, Knows
  <2>2. /\ request'[h].step = "sessions" /\ request'[h].user = u /\ request'[h].token = t
        /\ \A g \in Handlers \ {h} : request'[g] = request[g]
    BY <1>6, StepShape DEF SetPassword, Steps
  <2>3. \A x \in Tokens : x # t => session'[x] = session[x]
    BY <1>6 DEF SetPassword
  <2>4. ASSUME NEW x \in Tokens, x = t
        PROVE  \/ session'[x] = session[x] /\ (session[x].user = u => epoch' = epoch)
               \/ session'[x].user = u /\ session'[x].since = epoch'[u]
    <3>1. session[x] \in [user : People \cup {"none"}, since : Nat]
      BY DEF AccountsTypeOK
    <3>2. CASE session[x].user = u
      <4>1. session'[x] = [session[x] EXCEPT !.since = epoch[u] + 1]
        BY <1>6, <2>4, <3>2 DEF SetPassword
      <4>2. epoch'[u] = epoch[u] + 1
        BY <2>1 DEF AccountsTypeOK
      <4> QED BY <3>1, <3>2, <4>1, <4>2
    <3>3. CASE session[x].user # u
      BY <1>6, <3>3 DEF SetPassword
    <3> QED BY <3>2, <3>3
  <2>5. \A v \in People \ {u} : epoch'[v] = epoch[v]
    BY <2>1 DEF AccountsTypeOK
  <2> QED BY <2>1, <2>2, <2>3, <2>4, <2>5, StaleChanged
<1>7. ASSUME NEW h \in Handlers, DropSessions(h) PROVE StaleEnds'
  <2> SUFFICES ASSUME cuts' = 0, NEW t \in Tokens, Stale(t)' PROVE Doomed(t)'
    BY DEF StaleEnds
  <2>1. UNCHANGED <<epoch, cuts>> /\ \A g \in Handlers \ {h} : request'[g] = request[g]
    BY <1>7, DoneShape DEF DropSessions
  <2>2. session'[t] = session[t] /\ t \notin Others(h)
    BY <1>7 DEF DropSessions, Stale
  <2>3. PICK g \in Handlers : /\ request[g].user = session[t].user /\ request[g].step = "sessions"
                              /\ request[g].token # t
    BY <2>1, <2>2 DEF StaleEnds, Doomed, Stale
  <2>4. g # h
    BY <2>2, <2>3 DEF Others
  <2> QED BY <2>1, <2>2, <2>3, <2>4 DEF Doomed
<1>8. ASSUME NEW u \in People, NEW c \in Codes, IssueCode(u, c) PROVE StaleEnds'
  BY <1>8, <1>a DEF IssueCode
<1>9. ASSUME NEW h \in Handlers, NEW u \in People, NEW c \in Codes, OpenReset(h, u, c)
      PROVE  StaleEnds'
  BY <1>9, <1>b DEF OpenReset, Idle, AccountsTypeOK
<1>10. ASSUME NEW h \in Handlers, UseCode(h) PROVE StaleEnds'
  BY <1>10, <1>b, StepShape, DoneShape DEF UseCode, Does, Steps
<1>11. ASSUME NEW c \in Codes, CodeExpires(c) PROVE StaleEnds'
  BY <1>11, <1>a DEF CodeExpires
<1>12. ASSUME NEW h \in Handlers, NEW u \in People, NEW op \in {"suspend", "delete"},
              OpenRemoval(h, op, u)
       PROVE  StaleEnds'
  BY <1>12, <1>b, BeginShape DEF OpenRemoval, Idle, Steps, Operations
<1>13. ASSUME NEW h \in Handlers, Settle(h) PROVE StaleEnds'
  <2>1. /\ request[h].step = "settle" /\ epoch' = epoch /\ (cuts' = 0 => cuts = 0)
        /\ Step(h, "queue") \/ Done(h)
    BY <1>13 DEF Settle, AccountsTypeOK
  <2>2. \A t \in Tokens : session'[t] = session[t] \/ session'[t] = NoSession
    BY <1>13, <1>c DEF Settle, RemoveAccount
  <2>3. \A g \in Handlers \ {h} : request'[g] = request[g]
    BY <2>1, StepShape, DoneShape DEF Steps
  <2> QED BY <2>1, <2>2, <2>3, StaleKept
<1>14. ASSUME NEW j \in queue, SettleJob(j) PROVE StaleEnds'
  <2>1. \A t \in Tokens : session'[t] = session[t] \/ session'[t] = NoSession
    BY <1>14, <1>c DEF SettleJob, RemoveAccount
  <2> QED BY <1>14, <2>1, <1>a DEF SettleJob
<1>19. ASSUME NEW h \in Handlers, Enqueue(h) PROVE StaleEnds'
  BY <1>19, <1>b, DoneShape DEF Enqueue
<1>20. ASSUME DropJob \/ TickCutOff PROVE StaleEnds'
  <2>1. UNCHANGED <<epoch, session, request>> /\ (cuts' = 0 => cuts = 0)
    BY <1>20 DEF DropJob, TickCutOff, AccountsTypeOK
  <2> QED BY <2>1, StaleKept
<1>21. ASSUME NEW h \in Handlers, NEW t \in Tokens, OpenResubmit(h, t) PROVE StaleEnds'
  BY <1>21, <1>b, BeginShape DEF OpenResubmit, Idle, Shaped, Steps, Operations
<1>22. ASSUME NEW h \in Handlers, Resubmit(h) PROVE StaleEnds'
  <2> DEFINE u == request[h].user
  <2>1. /\ request[h].step = "write" /\ u \in People /\ UNCHANGED cuts
        /\ \A g \in Handlers \ {h} : request'[g] = request[g]
    BY <1>22, DoneShape DEF Resubmit, Does, Shaped, Knows
  <2>2. CASE UNCHANGED <<epoch, session>>
    BY <2>1, <2>2, <1>b
  <2>3. CASE /\ epoch' = [epoch EXCEPT ![u] = @ + 1]
             /\ session' = [t \in Tokens |->
                               IF session[t] = [user |-> u, since |-> epoch[u]]
                               THEN [user |-> u, since |-> epoch[u] + 1] ELSE session[t]]
    <3> SUFFICES ASSUME cuts' = 0, NEW t \in Tokens, Stale(t)' PROVE Doomed(t)'
      BY DEF StaleEnds
    <3>1. epoch \in [People -> Nat] /\ epoch'[u] = epoch[u] + 1
      BY <2>1, <2>3 DEF AccountsTypeOK
    <3>2. session[t] # [user |-> u, since |-> epoch[u]]
      BY <2>3, <3>1 DEF Stale
    <3>3. session'[t] = session[t] /\ session[t] # NoSession
      BY <2>3, <3>2 DEF Stale
    <3>4. session[t].since # epoch[session[t].user]
      <4>1. session[t] \in [user : People \cup {"none"}, since : Nat] /\ session[t].user \in People
        BY <3>3 DEF AccountsTypeOK, Shaped
      <4>2. CASE session[t].user = u BY <3>2, <4>1, <4>2
      <4>3. CASE session[t].user # u BY <2>3, <3>1, <3>3, <4>1, <4>3 DEF Stale
      <4> QED BY <4>2, <4>3
    <3>5. Doomed(t) BY <2>1, <3>3, <3>4 DEF StaleEnds, Stale
    <3> QED BY <2>1, <3>3, <3>5 DEF Doomed
  <2> QED BY <1>22, <2>2, <2>3 DEF Resubmit
<1>15. ASSUME NEW h \in Handlers, NEW u \in People, OpenRole(h, u) PROVE StaleEnds'
  BY <1>15, <1>b, BeginShape DEF OpenRole, Idle, Steps, Operations
<1>16. ASSUME NEW h \in Handlers, Promote(h) \/ Demote(h) PROVE StaleEnds'
  <2>1. request[h].step = "write" /\ request[h].user \in People /\ UNCHANGED <<session, cuts>>
    BY <1>16 DEF Promote, Demote, Does, Shaped, Knows
  <2>2. CASE Done(h) /\ epoch' = epoch
    BY <1>16, <2>1, <2>2, <1>b, DoneShape DEF Promote, Demote
  <2>3. CASE Step(h, "sessions") /\ \A v \in People \ {request[h].user} : epoch'[v] = epoch[v]
    <3>1. /\ request'[h].step = "sessions" /\ request'[h].user = request[h].user
          /\ request'[h].token = request[h].token
          /\ \A g \in Handlers \ {h} : request'[g] = request[g]
      BY <2>3, StepShape DEF Steps
    <3>2. request[h].token \notin Tokens
      BY <1>16, AccountsAssumption DEF Promote, Demote, Does, Shaped, Knows
    <3> QED BY <2>1, <2>3, <3>1, <3>2, StaleChanged
  <2> QED BY <1>16, <2>1, <2>2, <2>3 DEF Promote, Demote, AccountsTypeOK
<1>17. ASSUME NEW h \in Handlers, CutOff(h) PROVE StaleEnds'
  BY <1>17 DEF CutOff, StaleEnds, AccountsTypeOK
<1>18. CASE UNCHANGED accountVars
  BY <1>18, <1>a DEF accountVars
<1> QED BY <1>1, <1>2, <1>3, <1>4, <1>5, <1>6, <1>7, <1>8, <1>9, <1>10, <1>11, <1>12, <1>13,
           <1>14, <1>15, <1>16, <1>17, <1>18, <1>19, <1>20, <1>21, <1>22
    DEF AccountsNext

-----------------------------------------------------------------------------
(* A reset code sets one password.                                         *)

\* Between the mark and the password one request holds the code, which nobody
\* can use any more.
Holds(h, c) == request[h].step = "set" /\ request[h].code = c
CodesHeld ==
    \A c \in Codes :
        /\ code[c].served <= 1
        /\ code[c].state \in {"none", "fresh"} => code[c].served = 0
        /\ \A h \in Handlers : Holds(h, c) => code[c].state \in {"used", "gone"} /\ code[c].served = 0
        /\ \A g, h \in Handlers : Holds(g, c) /\ Holds(h, c) => g = h

\* Requests that come to no password, and codes that only go.
LEMMA CodesKept ==
    ASSUME CodesHeld, \A h \in Handlers, c \in Codes : Holds(h, c)' => Holds(h, c),
           \A c \in Codes : \/ code'[c] = code[c]
                            \/ code'[c].state = "gone" /\ code'[c].served = code[c].served
    PROVE  CodesHeld'
BY DEF CodesHeld

\* Every step leaves a code that was taken to one request.
LEMMA CodesStep ==
    ASSUME AccountsTypeOK, Shaped, CodesHeld, [AccountsNext]_accountVars
    PROVE  CodesHeld'
<1>a. ASSUME NEW h \in Handlers, request'[h].step # "set", code' = code,
             \A g \in Handlers \ {h} : request'[g] = request[g]
      PROVE  CodesHeld'
  BY <1>a, CodesKept DEF Holds
<1>b. ASSUME request' = request,
             \A c \in Codes : \/ code'[c] = code[c]
                              \/ code'[c].state = "gone" /\ code'[c].served = code[c].served
      PROVE  CodesHeld'
  BY <1>b, CodesKept DEF Holds
<1>c. ASSUME NEW u, Anonymize(u)
      PROVE  \A c \in Codes : \/ code'[c] = code[c]
                              \/ code'[c].state = "gone" /\ code'[c].served = code[c].served
  BY <1>c DEF Anonymize, AccountsTypeOK
<1>1. ASSUME NEW u \in People, Register(u) \/ Decide(u) \/ Resume(u) PROVE CodesHeld'
  BY <1>1, <1>b DEF Register, Decide, Resume
<1>2. ASSUME NEW h \in Handlers, NEW u \in People, Authenticate(h, u) PROVE CodesHeld'
  BY <1>2, <1>a, BeginShape DEF Authenticate, Steps, Operations
<1>3. ASSUME NEW h \in Handlers, NEW t \in Tokens, CreateSession(h, t) PROVE CodesHeld'
  BY <1>3, <1>a, DoneShape DEF CreateSession
<1>4. ASSUME NEW t \in Tokens, EndSession(t) PROVE CodesHeld'
  BY <1>4, <1>b DEF EndSession
<1>5. ASSUME NEW h \in Handlers, NEW t \in Tokens, OpenPassword(h, t) PROVE CodesHeld'
  <2>1. session[t].user \in People
    BY <1>5 DEF OpenPassword, Shaped
  <2>2. /\ request'[h].code = "none" /\ code' = code
        /\ \A g \in Handlers \ {h} : request'[g] = request[g]
    BY <1>5, <2>1, BeginShape DEF OpenPassword, Steps, Operations
  <2>3. \A g \in Handlers, c \in Codes : Holds(g, c)' => Holds(g, c)
    BY <2>2, AccountsAssumption DEF Holds
  <2> QED BY <2>2, <2>3, CodesKept
<1>6. ASSUME NEW h \in Handlers, SetPassword(h) PROVE CodesHeld'
  <2>1. /\ request'[h].step = "sessions" /\ \A g \in Handlers \ {h} : request'[g] = request[g]
    BY <1>6, StepShape DEF SetPassword, Steps
  <2>2. \A g \in Handlers, c \in Codes : Holds(g, c)' => Holds(g, c) /\ g # h
    BY <2>1 DEF Holds
  <2>3. ASSUME NEW c \in Codes, c # request[h].code PROVE code'[c] = code[c]
    BY <1>6, <2>3 DEF SetPassword
  <2>4. ASSUME NEW c \in Codes, c = request[h].code
        PROVE  /\ code[c].served = 0 /\ code[c].state \in {"used", "gone"}
               /\ code'[c].served = 1 /\ code'[c].state = code[c].state
               /\ \A g \in Handlers : ~Holds(g, c)'
    <3>1. Holds(h, c)
      BY <1>6, <2>4 DEF SetPassword, Holds
    <3>2. code[c].served = 0 /\ code[c].state \in {"used", "gone"}
      BY <3>1 DEF CodesHeld
    <3>3. code'[c] = [code[c] EXCEPT !.served = @ + 1]
      BY <1>6, <2>4 DEF SetPassword
    <3>4. code'[c].served = 1 /\ code'[c].state = code[c].state
      BY <3>2, <3>3 DEF AccountsTypeOK
    <3>5. \A g \in Handlers : ~Holds(g, c)'
      BY <2>2, <3>1 DEF CodesHeld
    <3> QED BY <3>2, <3>4, <3>5
  <2> QED BY <2>2, <2>3, <2>4 DEF CodesHeld
<1>7. ASSUME NEW h \in Handlers, DropSessions(h) PROVE CodesHeld'
  BY <1>7, <1>a, DoneShape DEF DropSessions
<1>8. ASSUME NEW u \in People, NEW c \in Codes, IssueCode(u, c) PROVE CodesHeld'
  <2>1. request' = request /\ code[c] = NoCode
    BY <1>8 DEF IssueCode
  <2>2. \A h \in Handlers : ~Holds(h, c) /\ ~Holds(h, c)'
    BY <2>1 DEF CodesHeld, Holds, NoCode
  <2>3. code'[c].served = 0 /\ code'[c].state = "fresh"
    BY <1>8 DEF IssueCode
  <2>4. \A x \in Codes \ {c} : \/ code'[x] = code[x]
                               \/ code'[x].state = "gone" /\ code'[x].served = code[x].served
    BY <1>8 DEF IssueCode, AccountsTypeOK
  <2> QED BY <2>1, <2>2, <2>3, <2>4 DEF CodesHeld, Holds
<1>9. ASSUME NEW h \in Handlers, NEW u \in People, NEW c \in Codes, OpenReset(h, u, c)
      PROVE  CodesHeld'
  BY <1>9, <1>a DEF OpenReset, AccountsTypeOK, NoRequest
<1>10. ASSUME NEW h \in Handlers, UseCode(h) PROVE CodesHeld'
  <2> DEFINE c == request[h].code
  <2>1. c \in Codes
    BY <1>10 DEF UseCode, Does, Shaped, Knows
  <2>2. CASE code[c].state = "fresh"
    <3>1. /\ code' = [code EXCEPT ![c].state = "used"] /\ Step(h, "set")
      BY <1>10, <2>2 DEF UseCode
    <3>2. /\ request'[h].code = c /\ \A g \in Handlers \ {h} : request'[g] = request[g]
      BY <3>1, StepShape DEF Steps
    <3>3. \A g \in Handlers : ~Holds(g, c)
      BY <2>1, <2>2 DEF CodesHeld
    <3>4. \A g \in Handlers, x \in Codes : Holds(g, x)' => Holds(g, x) \/ (g = h /\ x = c)
      BY <3>2 DEF Holds
    <3>5. /\ code'[c].state = "used" /\ code'[c].served = code[c].served /\ code[c].served = 0
          /\ \A x \in Codes \ {c} : code'[x] = code[x]
      BY <2>1, <2>2, <3>1 DEF AccountsTypeOK, CodesHeld
    <3> QED BY <2>1, <3>3, <3>4, <3>5 DEF CodesHeld
  <2>3. CASE code[c].state # "fresh"
    BY <1>10, <2>3, <1>a, DoneShape DEF UseCode
  <2> QED BY <2>2, <2>3
<1>11. ASSUME NEW c \in Codes, CodeExpires(c) PROVE CodesHeld'
  BY <1>11, <1>b DEF CodeExpires, AccountsTypeOK
<1>12. ASSUME NEW h \in Handlers, NEW u \in People, NEW op \in {"suspend", "delete"},
              OpenRemoval(h, op, u)
       PROVE  CodesHeld'
  BY <1>12, <1>a, BeginShape DEF OpenRemoval, Steps, Operations
<1>13. ASSUME NEW h \in Handlers, Settle(h) PROVE CodesHeld'
  <2>1. \A c \in Codes : \/ code'[c] = code[c]
                         \/ code'[c].state = "gone" /\ code'[c].served = code[c].served
    BY <1>13, <1>c DEF Settle, RemoveAccount
  <2>2. Step(h, "queue") \/ Done(h)
    BY <1>13 DEF Settle
  <2>3. \A g \in Handlers, c \in Codes : Holds(g, c)' => Holds(g, c)
    BY <2>2, StepShape, DoneShape DEF Holds, Steps
  <2> QED BY <2>1, <2>3, CodesKept
<1>14. ASSUME NEW j \in queue, SettleJob(j) PROVE CodesHeld'
  <2>1. \A c \in Codes : \/ code'[c] = code[c]
                         \/ code'[c].state = "gone" /\ code'[c].served = code[c].served
    BY <1>14, <1>c DEF SettleJob, RemoveAccount
  <2> QED BY <1>14, <2>1, <1>b DEF SettleJob
<1>19. ASSUME NEW h \in Handlers, Enqueue(h) \/ Resubmit(h) PROVE CodesHeld'
  BY <1>19, <1>a, DoneShape DEF Enqueue, Resubmit
<1>20. ASSUME DropJob \/ TickCutOff PROVE CodesHeld'
  BY <1>20, <1>b DEF DropJob, TickCutOff
<1>21. ASSUME NEW h \in Handlers, NEW t \in Tokens, OpenResubmit(h, t) PROVE CodesHeld'
  BY <1>21, <1>a, BeginShape DEF OpenResubmit, Shaped, Steps, Operations
<1>15. ASSUME NEW h \in Handlers, NEW u \in People, OpenRole(h, u) PROVE CodesHeld'
  <2>1. PICK op \in {"promote", "demote"} : Begin(h, op, "write", u, "none")
    BY <1>15 DEF OpenRole
  <2>2. request'[h].step = "write" /\ \A g \in Handlers \ {h} : request'[g] = request[g]
    BY <2>1, BeginShape DEF Steps, Operations
  <2> QED BY <1>15, <1>a, <2>2 DEF OpenRole
<1>16. ASSUME NEW h \in Handlers, Promote(h) \/ Demote(h) PROVE CodesHeld'
  <2>1. (Step(h, "sessions") \/ Done(h)) /\ code' = code
    BY <1>16 DEF Promote, Demote
  <2> QED BY <2>1, <1>a, StepShape, DoneShape DEF Steps
<1>17. ASSUME NEW h \in Handlers, CutOff(h) PROVE CodesHeld'
  BY <1>17, <1>a, DoneShape DEF CutOff
<1>18. CASE UNCHANGED accountVars
  BY <1>18, <1>b DEF accountVars
<1> QED BY <1>1, <1>2, <1>3, <1>4, <1>5, <1>6, <1>7, <1>8, <1>9, <1>10, <1>11, <1>12, <1>13,
           <1>14, <1>15, <1>16, <1>17, <1>18, <1>19, <1>20, <1>21
    DEF AccountsNext

-----------------------------------------------------------------------------
\* No session from before a change of password or role outlives the request that
\* made it, and no reset code sets two passwords.  A resubmission ends no session:
\* those that were current count from the new password, and a later change ends them
\* too (ChangePassword, ResetPassword, UsePasswordReset, the role form).
THEOREM CredentialsAreClosed == AccountsSpec => []CredentialsEnd
<1>1. AccountsInit => StaleEnds /\ CodesHeld
  BY DEF AccountsInit, StaleEnds, Stale, CodesHeld, Holds, NoSession, NoCode, NoRequest
<1>2. StaleEnds /\ CodesHeld => CredentialsEnd
  BY DEF StaleEnds, Stale, Doomed, CodesHeld, CredentialsEnd, SessionsEndWithChange, CodeServesOnce
<1> QED BY <1>1, <1>2, AccountsInitially, TypesStep, StaleStep, CodesStep, PTL DEF AccountsSpec

\* Every variable keeps its type.
THEOREM AccountsTypes == AccountsSpec => []AccountsTypeOK
<1> QED BY AccountsInitially, TypesStep, PTL DEF AccountsSpec
=============================================================================
