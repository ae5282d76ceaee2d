----------------------------- MODULE CaptureVault -----------------------------
(***************************************************************************)
(* The private records of dialogues: raw files while a request runs, then  *)
(* a marker file for each side, the messages as files that the records of  *)
(* one user share, and the rows of the index.  Files and rows are changed  *)
(* one after the other under sharedMu, the process may die in between, and *)
(* an hourly cleanup removes what no row knows.                            *)
(*                                                                         *)
(* One user is modelled: the name of a shared file is a keyed digest of    *)
(* the user, so that users share nothing.                                  *)
(***************************************************************************)
EXTENDS Naturals, FiniteSets

CONSTANTS
    Captures,      \* numbers of the requests, in the order they started
    Legacy,        \* captures of an obsolete format, at the start
    Messages,      \* messages
    Identified,    \* captures with a request ID of CPA
    KeepNewest,    \* rows kept in each class (100)
    MaxMishaps     \* bound: crashes and failing calls

ASSUME VaultAssumption ==
    /\ Captures \subseteq Nat /\ Legacy \subseteq Captures /\ Identified \subseteq Captures
    /\ KeepNewest \in Nat \ {0} /\ MaxMishaps \in Nat
    /\ Messages # {}
    \* what is there at the start was started before
    /\ \A l \in Legacy, c \in Captures \ Legacy : l < c

VARIABLES
    raw,        \* captures that have raw files
    markers,    \* captures that have marker files
    shared,     \* [message -> "none" | "new" | "old"]: the shared files
    index,      \* [capture -> messages of its row]; a capture without a row has none
    indexed,    \* captures that have a row
    save,       \* [capture -> what finishCapture does with it]
    holder,     \* who holds sharedMu: "save", "cleanup" or "nobody"
    cleanup,    \* cleanupGatewayCaptures
    saved,      \* history: captures that had a row
    mishaps

vaultVars == <<raw, markers, shared, index, indexed, save, holder, cleanup, saved, mishaps>>

SaveSteps == {"none", "running", "closed", "read", "mark", "share", "index", "retain", "drop", "ended"}
NoSave == [step |-> "none", wants |-> {}, left |-> {}, created |-> {}, files |-> {}, gone |-> {}]
NoCleanup == [step |-> "idle", files |-> {}, gone |-> {}, known |-> {}]

VaultTypeOK ==
    /\ raw \subseteq Captures /\ markers \subseteq Captures
    /\ shared \in [Messages -> {"none", "new", "old"}]
    /\ index \in [Captures -> SUBSET Messages] /\ indexed \subseteq Captures
    /\ \A c \in Captures : save[c].step \in SaveSteps
    /\ holder = "save" <=> \E c \in Captures : save[c].step \in SaveSteps \ {"none", "running", "closed", "ended"}
    /\ holder \in {"nobody", "cleanup", "save"} /\ mishaps \in 0..MaxMishaps

LegacyRefs == [c \in Captures |-> IF c \in Legacy THEN {CHOOSE m \in Messages : TRUE} ELSE {}]
VaultInit ==
    /\ raw = {} /\ markers = Legacy /\ indexed = Legacy /\ index = LegacyRefs
    /\ shared = [m \in Messages |-> IF \E c \in Legacy : m \in LegacyRefs[c] THEN "old" ELSE "none"]
    /\ save = [c \in Captures |-> IF c \in Legacy THEN [NoSave EXCEPT !.step = "ended"] ELSE NoSave]
    /\ holder = "nobody" /\ cleanup = NoCleanup /\ saved = {} /\ mishaps = 0

-----------------------------------------------------------------------------
SaveAt(c, step) == save[c].step = step
Goes(c, step) == save' = [save EXCEPT ![c].step = step]
FilesStay == UNCHANGED <<raw, markers, shared>>
RowsStay == UNCHANGED <<index, indexed, saved>>
Fails == mishaps < MaxMishaps /\ mishaps' = mishaps + 1
Works == UNCHANGED mishaps
Unlock == holder' = "nobody"

\* startCapture.
StartCapture(c) ==
    /\ SaveAt(c, "none") /\ raw' = raw \cup {c} /\ Goes(c, "running")
    /\ UNCHANGED <<markers, shared, holder, cleanup>> /\ RowsStay /\ Works

\* The request has ended: the raw files are closed, or dropped when that fails.
CloseRaw(c) ==
    /\ SaveAt(c, "running")
    /\ \/ Goes(c, "closed") /\ Works /\ UNCHANGED raw
       \/ Goes(c, "ended") /\ Fails /\ raw' = raw \ {c}
    /\ UNCHANGED <<markers, shared, holder, cleanup>> /\ RowsStay

LockForSave(c) ==
    /\ SaveAt(c, "closed") /\ holder = "nobody" /\ holder' = "save" /\ Goes(c, "read")
    /\ UNCHANGED cleanup /\ FilesStay /\ RowsStay /\ Works

\* The raw files are read, decoded and removed; what was said is known now.
ReadRaw(c) ==
    /\ SaveAt(c, "read") /\ raw' = raw \ {c}
    /\ \/ \E said \in (SUBSET Messages) \ {{}} :
             save' = [save EXCEPT ![c].step = "mark", ![c].wants = said, ![c].left = said]
          /\ Works /\ UNCHANGED holder
       \/ Goes(c, "ended") /\ Works /\ Unlock
       \/ Goes(c, "ended") /\ Fails /\ Unlock
    /\ UNCHANGED <<markers, shared, cleanup>> /\ RowsStay

\* Vault.Delete, after any step that fails.
SaveMarkers(c) ==
    /\ SaveAt(c, "mark")
    /\ \/ markers' = markers \cup {c} /\ Goes(c, "share") /\ Works /\ UNCHANGED holder
       \/ Goes(c, "ended") /\ Fails /\ Unlock /\ UNCHANGED markers
    /\ UNCHANGED <<raw, shared, cleanup>> /\ RowsStay

\* What this capture made is taken back.
TakeBack(c) ==
    /\ markers' = markers \ {c} /\ Goes(c, "ended") /\ Unlock
    /\ shared' = [m \in Messages |-> IF m \in save[c].created THEN "none" ELSE shared[m]]

\* SaveSharedMessage: written aside and renamed, unless the file is there.
SaveShared(c, m) ==
    /\ SaveAt(c, "share") /\ m \in save[c].left
    /\ \/ /\ shared' = IF shared[m] = "none" THEN [shared EXCEPT ![m] = "new"] ELSE shared
          /\ save' = [save EXCEPT ![c].left = @ \ {m},
                          ![c].created = IF shared[m] = "none" THEN @ \cup {m} ELSE @,
                          ![c].step = IF save[c].left = {m} THEN "index" ELSE @]
          /\ UNCHANGED <<markers, holder>> /\ Works
       \/ TakeBack(c) /\ Fails
    /\ UNCHANGED <<raw, cleanup>> /\ RowsStay

\* SaveGatewayCaptureWithMessages: one transaction.
IndexCapture(c) ==
    /\ SaveAt(c, "index")
    /\ \/ /\ index' = [index EXCEPT ![c] = save[c].wants]
          /\ indexed' = indexed \cup {c} /\ saved' = saved \cup {c}
          /\ Goes(c, "retain") /\ Works /\ UNCHANGED <<markers, shared, holder>>
       \/ TakeBack(c) /\ Fails /\ RowsStay
    /\ UNCHANGED <<raw, cleanup>>

-----------------------------------------------------------------------------
(* Deletions: rows first, in one transaction, then the files.              *)

\* Mutant: every message of a deleted row is taken for unused.
UnusedAfterAll(rows) == UNION {index[c] : c \in rows}

\* deleteGatewayCaptures: messages of the deleted rows that no row refers to.
UnusedAfter(rows) == (UNION {index[c] : c \in rows}) \ (UNION {index[c] : c \in indexed \ rows})

DeleteRows(rows) ==
    /\ indexed' = indexed \ rows
    /\ index' = [c \in Captures |-> IF c \in rows THEN {} ELSE index[c]]
    /\ UNCHANGED saved

\* Mutant: one limit for both classes.
NewerThanAll(c) == {d \in indexed : d > c}
\* The newest of each class stay: with and without a request ID.
NewerThan(c) == {d \in indexed : d > c /\ (d \in Identified <=> c \in Identified)}
Excess == {c \in indexed : Cardinality(NewerThan(c)) >= KeepNewest}

RetainNewest(c) ==
    /\ SaveAt(c, "retain")
    /\ \/ /\ DeleteRows(Excess) /\ Works /\ UNCHANGED holder
          /\ save' = [save EXCEPT ![c].step = "drop", ![c].files = Excess, ![c].gone = UnusedAfter(Excess)]
       \/ Goes(c, "ended") /\ Fails /\ Unlock /\ RowsStay
    /\ UNCHANGED cleanup /\ FilesStay

DropFiles(c) ==
    /\ SaveAt(c, "drop") /\ Goes(c, "ended") /\ Unlock /\ Works
    /\ markers' = markers \ save[c].files
    /\ shared' = [m \in Messages |-> IF m \in save[c].gone THEN "none" ELSE shared[m]]
    /\ UNCHANGED <<raw, cleanup>> /\ RowsStay

-----------------------------------------------------------------------------
(* cleanupGatewayCaptures, at the start and every hour.                    *)

\* Mutant: the cleanup does not wait for the lock.
LockForCleanupAnyway ==
    /\ cleanup.step = "idle" /\ cleanup' = [NoCleanup EXCEPT !.step = "legacy"]
    /\ UNCHANGED <<save, holder>> /\ FilesStay /\ RowsStay /\ Works

LockForCleanup ==
    /\ cleanup.step = "idle" /\ holder = "nobody" /\ holder' = "cleanup"
    /\ cleanup' = [NoCleanup EXCEPT !.step = "legacy"]
    /\ UNCHANGED save /\ FilesStay /\ RowsStay /\ Works

EndCleanup == cleanup' = NoCleanup /\ holder' = "nobody"

DeleteLegacy ==
    LET rows == indexed \cap Legacy IN
    /\ cleanup.step = "legacy"
    /\ \/ /\ DeleteRows(rows) /\ Works /\ UNCHANGED holder
          /\ cleanup' = [cleanup EXCEPT !.step = "drop", !.files = rows, !.gone = UnusedAfter(rows)]
       \/ EndCleanup /\ Fails /\ RowsStay
    /\ UNCHANGED save /\ FilesStay

DropLegacy ==
    /\ cleanup.step = "drop" /\ cleanup' = [cleanup EXCEPT !.step = "list"]
    /\ markers' = markers \ cleanup.files
    /\ shared' = [m \in Messages |-> IF m \in cleanup.gone THEN "none" ELSE shared[m]]
    /\ UNCHANGED <<raw, save, holder>> /\ RowsStay /\ Works

\* PruneOrphans: marker files are an hour old or younger, whichever.
PruneMarkers ==
    /\ cleanup.step = "list"
    /\ \/ /\ \E young \in SUBSET markers : markers' = markers \cap (indexed \cup young)
          /\ cleanup' = [cleanup EXCEPT !.step = "refs"] /\ Works /\ UNCHANGED holder
       \/ EndCleanup /\ Fails /\ UNCHANGED markers
    /\ UNCHANGED <<raw, shared, save>> /\ RowsStay

\* ReferencedGatewayMessageIDs.
ListReferences ==
    /\ cleanup.step = "refs"
    /\ \/ cleanup' = [cleanup EXCEPT !.step = "prune", !.known = UNION {index[c] : c \in indexed}]
          /\ Works /\ UNCHANGED holder
       \/ EndCleanup /\ Fails
    /\ UNCHANGED save /\ FilesStay /\ RowsStay

\* PruneSharedOrphans spares what is younger than an hour.
PruneShared ==
    /\ cleanup.step = "prune" /\ EndCleanup
    /\ shared' = [m \in Messages |-> IF shared[m] = "old" /\ m \notin cleanup.known THEN "none" ELSE shared[m]]
    /\ UNCHANGED <<raw, markers, save>> /\ RowsStay /\ Works

HourPasses ==
    /\ \E m \in Messages : shared[m] = "new"
    /\ shared' = [m \in Messages |-> IF shared[m] = "new" THEN "old" ELSE shared[m]]
    /\ UNCHANGED <<raw, markers, save, holder, cleanup>> /\ RowsStay /\ Works

\* The process dies and starts again: NewVault discards the raw files.
RestartVault ==
    /\ Fails /\ raw' = {} /\ holder' = "nobody" /\ cleanup' = NoCleanup
    /\ save' = [c \in Captures |-> IF SaveAt(c, "none") THEN save[c] ELSE [NoSave EXCEPT !.step = "ended"]]
    /\ UNCHANGED <<markers, shared>> /\ RowsStay

VaultNext ==
    \/ \E c \in Captures :
          \/ StartCapture(c) \/ CloseRaw(c) \/ LockForSave(c) \/ ReadRaw(c) \/ SaveMarkers(c)
          \/ IndexCapture(c) \/ RetainNewest(c) \/ DropFiles(c)
          \/ \E m \in Messages : SaveShared(c, m)
    \/ LockForCleanup \/ DeleteLegacy \/ DropLegacy \/ PruneMarkers \/ ListReferences
    \/ PruneShared \/ HourPasses \/ RestartVault

VaultSpec == VaultInit /\ [][VaultNext]_vaultVars

-----------------------------------------------------------------------------
\* A row of the index can always be read: its marker files and every message it
\* refers to are there, also after a crash between rows and files, and whatever
\* the saver of another record or the cleanup does meanwhile (Vault: "so a
\* shared blob cannot be removed between reuse and indexing").
RowsAreReadable ==
    \A c \in indexed : c \in markers /\ \A m \in index[c] : shared[m] # "none"

\* A record that had a row loses it only to KeepNewest newer ones of its class,
\* and raw files do not outlive the request and its save.
NewestStay ==
    /\ \A c \in saved \ indexed :
          Cardinality({d \in saved : d > c /\ (d \in Identified <=> c \in Identified)}) >= KeepNewest
    /\ \A c \in raw : save[c].step \in {"running", "closed", "read"}

CapturesKept == RowsAreReadable /\ NewestStay

-----------------------------------------------------------------------------
(* The inductive invariant of the proof.                                   *)

Saves == [step : SaveSteps, wants : SUBSET Messages, left : SUBSET Messages,
          created : SUBSET Messages, files : SUBSET Captures, gone : SUBSET Messages]
Cleanups == [step : {"idle", "legacy", "drop", "list", "refs", "prune"},
             files : SUBSET Captures, gone : SUBSET Messages, known : SUBSET Messages]
Locked(c) == save[c].step \notin {"none", "running", "closed", "ended"}

\* sharedMu is held by one save or by the cleanup.
OneHolder ==
    /\ save \in [Captures -> Saves] /\ cleanup \in Cleanups
    /\ \A c \in Captures : Locked(c) => holder = "save"
    /\ \A c, d \in Captures : Locked(c) /\ Locked(d) => c = d
    /\ holder = "save" => \E c \in Captures : Locked(c)
    /\ holder = "cleanup" <=> cleanup.step # "idle"

\* No row refers to the files that are about to be dropped or taken back.
Unreferenced(files, gone) ==
    files \cap indexed = {} /\ \A d \in indexed : gone \cap index[d] = {}

SaveIsSafe(c) ==
    /\ save[c].step \in {"none", "running", "closed", "read", "mark", "share", "index"} =>
           c \notin indexed /\ c \notin saved /\ c \notin Legacy
    /\ save[c].step \in {"share", "index"} =>
           /\ c \in markers /\ Unreferenced({}, save[c].created)
           /\ \A m \in save[c].wants \ save[c].left : shared[m] # "none"
    /\ save[c].step = "mark" => save[c].created = {} /\ save[c].left = save[c].wants
    /\ save[c].step \in {"none", "running", "closed", "read"} => save[c].created = {}
    /\ save[c].step = "index" => save[c].left = {}
    /\ save[c].step = "drop" => Unreferenced(save[c].files, save[c].gone)
    /\ c \in raw => save[c].step \in {"running", "closed", "read"}

CleanupIsSafe ==
    /\ cleanup.step = "drop" => Unreferenced(cleanup.files, cleanup.gone)
    /\ cleanup.step = "prune" => \A c \in indexed : index[c] \subseteq cleanup.known

NewerOfClass(c) == {d \in saved : d > c /\ (d \in Identified <=> c \in Identified)}
History ==
    /\ saved \subseteq Captures \ Legacy /\ IsFiniteSet(saved)
    /\ indexed \subseteq saved \cup Legacy
    /\ \A c \in saved \ indexed : Cardinality(NewerOfClass(c)) >= KeepNewest

VaultInv ==
    /\ VaultTypeOK /\ OneHolder
    /\ RowsAreReadable
    /\ \A c \in Captures : SaveIsSafe(c)
    /\ CleanupIsSafe
    /\ History

=============================================================================
