---------------------------- MODULE BackupArchive ----------------------------
(***************************************************************************)
(* The archive of a backup: the snapshot of files that keep changing, the  *)
(* sequence of sealed frames it is written as, and the extraction, which   *)
(* promotes nothing before the last frame and the manifest are checked.    *)
(*                                                                         *)
(* The content of a file is the number of the write that made it; a copy   *)
(* is the pair of the numbers its two halves were read from.  AES-GCM is   *)
(* modelled by what it promises: a frame opens only under the header, the  *)
(* position and the key it was sealed with.  Making an archive and reading *)
(* one exclude each other: both hold the lock of BackupQueue.              *)
(***************************************************************************)
EXTENDS Naturals, Sequences, FiniteSets, SequencesExt

CONSTANTS
    ConfigFiles,   \* regular files that are copied
    TemplateFile,  \* the one whose digest the restore policy holds
    AuthFile,      \* a member of the directory of credentials: it may vanish
    MaxWrites,     \* bound: changes of the files
    MaxArchives,   \* bound: archives
    MaxChanges     \* bound: alterations of a stored archive

ASSUME ArchiveAssumption ==
    /\ IsFiniteSet(ConfigFiles)
    /\ {TemplateFile, AuthFile} \subseteq ConfigFiles /\ TemplateFile # AuthFile
    /\ ConfigFiles \cap {"db", "mgr", "mkey", "manifest", "end", "none"} = {}
    /\ MaxWrites \in Nat \ {0} /\ MaxArchives \in Nat /\ MaxChanges \in Nat

VARIABLES
    live,       \* version of each file, 0 when it is absent
    writes,     \* number of the last write
    approved,   \* the version of the template the restore policy approves
    maker,      \* createArchive
    made,       \* history: every archive that was completed
    stored,     \* the file a restore is given
    changes,    \* alterations of it
    reader,     \* Restore
    output      \* the directory that a restore promoted

archiveVars == <<live, writes, approved, maker, made, stored, changes, reader, output>>

Databases == {"db", "mgr"}
Manager == {"mgr", "mkey"}
Files == Databases \cup {"mkey"} \cup ConfigFiles
Core == {"db"} \cup (ConfigFiles \ {AuthFile})

Absent == <<0, 0>>
Nothing == [f \in Files |-> Absent]
NoFile == [id |-> 0, frames |-> << >>]
NoCopy == [before |-> 0, now |-> 0, attached |-> FALSE, half |-> 0]
Maker(step) == [step |-> step, left |-> << >>, copy |-> NoCopy, staged |-> Nothing, policy |-> 0]
Reader(step) == [step |-> step, at |-> 1, dir |-> Nothing, list |-> Nothing, source |-> NoFile]

ArchiveTypeOK ==
    /\ live \in [Files -> 0..writes] /\ writes \in 0..MaxWrites /\ approved \in 0..writes
    /\ maker.step \in {"idle", "collect", "listed", "copy", "half", "check", "write"}
    /\ maker.left \in Seq(Files) /\ maker.staged \in [Files -> (0..writes) \X (0..writes)]
    /\ reader.step \in {"idle", "read", "finish", "verify", "promote"}
    /\ reader.dir \in [Files -> (0..writes) \X (0..writes)]
    /\ \A a \in made : a.id \in 1..MaxArchives

ArchiveInit ==
    /\ writes = 1 /\ live = [f \in Files |-> 1] /\ approved = 1
    /\ maker = Maker("idle") /\ made = {} /\ stored = NoFile /\ changes = 0
    /\ reader = Reader("idle") /\ output = Nothing

MakerAt(step) == maker.step = step
MakerKeeps == UNCHANGED <<maker, made>>
ReaderKeeps == UNCHANGED <<stored, changes, reader, output>>
FilesKeep == UNCHANGED <<live, writes, approved>>

-----------------------------------------------------------------------------
(* The programs that own the files.  CPAMP writes its database and its key *)
(* together and is stopped while the snapshot is taken (BackupQueue).      *)

Frozen == maker.step \in {"collect", "listed", "copy", "half"}
\* Nothing a restore reads is live: the files change between restores only.
Written(files) == /\ reader.step = "idle" /\ writes < MaxWrites /\ writes' = writes + 1
                  /\ live' = [f \in Files |-> IF f \in files THEN writes + 1 ELSE live[f]]
CurrentFile == IF maker.left # << >> THEN Head(maker.left) ELSE "none"

\* In place: an open descriptor sees the new content and the new time.
WriteInPlace(f) ==
    /\ Written({f})
    /\ maker' = IF f = CurrentFile /\ maker.copy.attached
                THEN [maker EXCEPT !.copy.now = writes + 1] ELSE maker
    /\ UNCHANGED <<approved, made>> /\ ReaderKeeps

\* By rename: an open descriptor keeps the old file.
ReplaceFile(f) ==
    /\ Written({f})
    /\ maker' = IF f = CurrentFile THEN [maker EXCEPT !.copy.attached = FALSE] ELSE maker
    /\ UNCHANGED <<approved, made>> /\ ReaderKeeps

RemoveFile ==
    /\ reader.step = "idle" /\ live[AuthFile] # 0 /\ live' = [live EXCEPT ![AuthFile] = 0]
    /\ UNCHANGED <<writes, approved>> /\ MakerKeeps /\ ReaderKeeps

ManagerWrites ==
    /\ ~Frozen /\ Written(Manager)
    /\ UNCHANGED approved /\ MakerKeeps /\ ReaderKeeps

\* The operator approves the template as it is.
ApproveTemplate ==
    /\ reader.step = "idle" /\ approved # live[TemplateFile] /\ approved' = live[TemplateFile]
    /\ UNCHANGED <<live, writes>> /\ MakerKeeps /\ ReaderKeeps

-----------------------------------------------------------------------------
(* createArchive.                                                          *)

MakerFails == /\ ~MakerAt("idle") /\ maker' = Maker("idle")
              /\ UNCHANGED made /\ FilesKeep /\ ReaderKeeps

\* The list of sources with the snapshots of policy, settings, credentials and
\* host tasks, all written before the collection begins.
BeginArchive ==
    /\ MakerAt("idle") /\ reader.step = "idle" /\ Cardinality(made) < MaxArchives
    /\ maker' = [Maker("collect") EXCEPT
          !.left = <<"db", "mgr", "mkey">> \o SetToSeq(ConfigFiles), !.policy = approved]
    /\ UNCHANGED made /\ FilesKeep /\ ReaderKeeps

Stage(halves) == [maker EXCEPT !.step = "collect", !.left = Tail(@), !.copy = NoCopy,
                               !.staged[CurrentFile] = halves]

\* VACUUM INTO is one consistent read.
SnapshotDatabase ==
    /\ MakerAt("collect") /\ CurrentFile \in Databases
    /\ maker' = Stage(<<live[CurrentFile], live[CurrentFile]>>)
    /\ UNCHANGED made /\ FilesKeep /\ ReaderKeeps

\* The directory is listed first; what the list lacks is not in the backup.
ListDirectory ==
    /\ MakerAt("collect") /\ CurrentFile = AuthFile
    /\ maker' = IF live[AuthFile] = 0 THEN Stage(Absent) ELSE [maker EXCEPT !.step = "listed"]
    /\ UNCHANGED made /\ FilesKeep /\ ReaderKeeps

\* A listed file that has vanished fails the backup (MakerFails).
OpenFile ==
    /\ \/ MakerAt("listed")
       \/ MakerAt("collect") /\ CurrentFile \in Files \ (Databases \cup {AuthFile, "none"})
    /\ live[CurrentFile] # 0
    /\ maker' = [maker EXCEPT !.step = "copy",
          !.copy = [before |-> live[CurrentFile], now |-> live[CurrentFile], attached |-> TRUE, half |-> 0]]
    /\ UNCHANGED made /\ FilesKeep /\ ReaderKeeps

CopyHalf ==
    /\ MakerAt("copy")
    /\ maker' = [maker EXCEPT !.step = "half", !.copy.half = maker.copy.now]
    /\ UNCHANGED made /\ FilesKeep /\ ReaderKeeps

\* Mutant: the file is not looked at again after the copy.
CopyRestUnchecked ==
    /\ MakerAt("half") /\ maker' = Stage(<<maker.copy.half, maker.copy.now>>)
    /\ UNCHANGED made /\ FilesKeep /\ ReaderKeeps

\* Size and time after the copy must be those before it.
CopyRest ==
    /\ MakerAt("half") /\ maker.copy.now = maker.copy.before
    /\ maker' = Stage(<<maker.copy.half, maker.copy.now>>)
    /\ UNCHANGED made /\ FilesKeep /\ ReaderKeeps

EndCollection ==
    /\ MakerAt("collect") /\ maker.left = << >> /\ maker' = [maker EXCEPT !.step = "check"]
    /\ UNCHANGED made /\ FilesKeep /\ ReaderKeeps

CorePresent(dir) == \A f \in Core : dir[f] # Absent
PairPresent(dir) == \A f \in Manager : dir[f] # Absent
TemplateMatches(dir, policy) == dir[TemplateFile] = <<policy, policy>>

CheckStage ==
    /\ MakerAt("check") /\ CorePresent(maker.staged) /\ PairPresent(maker.staged)
    /\ TemplateMatches(maker.staged, maker.policy)
    /\ maker' = [maker EXCEPT !.step = "write"]
    /\ UNCHANGED made /\ FilesKeep /\ ReaderKeeps

Data(name, at, list, policy) == [name |-> name, at |-> at, list |-> list, policy |-> policy]

\* Frames: one for each file, the manifest, and the empty one that ends the file.
Encrypt(id, staged, policy) ==
    LET present == SetToSeq({f \in Files : staged[f] # Absent})
        data == [i \in 1..Len(present) |-> Data(present[i], staged[present[i]], Nothing, 0)]
                \o << Data("manifest", Absent, staged, policy), Data("end", Absent, Nothing, 0) >>
    IN [id |-> id, frames |-> [i \in 1..Len(data) |-> [id |-> id, seq |-> i, data |-> data[i]]]]

WriteArchive ==
    /\ MakerAt("write")
    /\ made' = made \cup {Encrypt(Cardinality(made) + 1, maker.staged, maker.policy)}
    /\ maker' = Maker("idle")
    /\ FilesKeep /\ ReaderKeeps

-----------------------------------------------------------------------------
(* What may happen to an archive on its way.                               *)

FetchArchive(a) ==
    /\ MakerAt("idle") /\ reader.step = "idle" /\ stored # a /\ changes < MaxChanges /\ stored' = a
    /\ UNCHANGED <<changes, reader, output>> /\ FilesKeep /\ MakerKeeps

FramesBecome(fs) == fs # stored.frames /\ stored' = [stored EXCEPT !.frames = fs]

\* Cut off, a frame lost, repeated, out of its place, or another archive's.
AlterFrames ==
    LET fs == stored.frames IN
    \E i \in DOMAIN fs :
       \/ FramesBecome(SubSeq(fs, 1, i - 1))
       \/ FramesBecome(RemoveAt(fs, i))
       \/ FramesBecome(Append(fs, fs[i]))
       \/ \E j \in DOMAIN fs : FramesBecome([fs EXCEPT ![i] = fs[j], ![j] = fs[i]])
       \/ \E b \in made : Len(b.frames) = Len(fs) /\ FramesBecome([fs EXCEPT ![i] = b.frames[i]])

AlterArchive ==
    /\ MakerAt("idle") /\ reader.step = "idle" /\ stored # NoFile /\ changes < MaxChanges /\ changes' = changes + 1
    /\ \/ AlterFrames
       \/ \E b \in made : b.id # stored.id /\ stored' = [stored EXCEPT !.id = b.id]
    /\ UNCHANGED <<reader, output>> /\ FilesKeep /\ MakerKeeps

-----------------------------------------------------------------------------
(* Restore.                                                                *)

Reads(r) == reader' = r /\ UNCHANGED <<stored, changes, output>> /\ FilesKeep /\ MakerKeeps
RestoreFails == reader.step # "idle" /\ Reads(Reader("idle"))

\* The output must not exist.
BeginRestore ==
    /\ MakerAt("idle") /\ reader.step = "idle" /\ output = Nothing /\ stored # NoFile
    /\ Reads([Reader("read") EXCEPT !.source = stored])

\* Mutant: the additional data lacks the position.
OpensAnywhere(frame) == frame.id = reader.source.id

\* The nonce and the additional data hold the header and the position.
Opens(frame) == frame.id = reader.source.id /\ frame.seq = reader.at

HasFrame == reader.at <= Len(reader.source.frames)
Frame == reader.source.frames[reader.at]

\* A file is staged as soon as its frame is opened; a name comes once.
ExtractFile ==
    /\ reader.step = "read" /\ HasFrame /\ Opens(Frame)
    /\ Frame.data.name \in Files /\ reader.dir[Frame.data.name] = Absent
    /\ Reads([reader EXCEPT !.at = @ + 1, !.dir[Frame.data.name] = Frame.data.at])

\* The end of the tar file is seen before the end of the frames.
ReadManifest ==
    /\ reader.step = "read" /\ HasFrame /\ Opens(Frame) /\ Frame.data.name = "manifest"
    /\ Reads([reader EXCEPT !.at = @ + 1, !.list = Frame.data.list, !.step = "finish"])

\* Mutant: the end of the tar file is taken for the end of the archive.
FinishAtTarEnd == reader.step = "finish" /\ Reads([reader EXCEPT !.step = "verify"])

\* finish: the terminal frame is authentic and nothing follows it.
FinishStream ==
    /\ reader.step = "finish" /\ HasFrame /\ Opens(Frame) /\ Frame.data.name = "end"
    /\ reader.at = Len(reader.source.frames)
    /\ Reads([reader EXCEPT !.step = "verify"])

Policy(source) == source.frames[Len(source.frames) - 1].data.policy
VerifyExtracted ==
    /\ reader.step = "verify" /\ reader.dir = reader.list
    /\ CorePresent(reader.dir) /\ PairPresent(reader.dir)
    /\ TemplateMatches(reader.dir, Policy(reader.source))
    /\ Reads([reader EXCEPT !.step = "promote"])

PromoteOutput ==
    /\ reader.step = "promote" /\ output = Nothing /\ output' = reader.dir
    /\ reader' = [Reader("idle") EXCEPT !.source = reader.source]
    /\ UNCHANGED <<stored, changes>> /\ FilesKeep /\ MakerKeeps

ArchiveNext ==
    \/ \E f \in ConfigFiles : WriteInPlace(f) \/ ReplaceFile(f)
    \/ RemoveFile \/ ManagerWrites \/ ApproveTemplate
    \/ MakerFails \/ BeginArchive \/ SnapshotDatabase \/ ListDirectory \/ OpenFile
    \/ CopyHalf \/ CopyRest \/ EndCollection \/ CheckStage \/ WriteArchive
    \/ \E a \in made : FetchArchive(a)
    \/ AlterArchive \/ BeginRestore \/ ExtractFile \/ ReadManifest \/ FinishStream
    \/ VerifyExtracted \/ PromoteOutput \/ RestoreFails

ArchiveSpec == ArchiveInit /\ [][ArchiveNext]_archiveVars

-----------------------------------------------------------------------------
\* The key belongs to the database: the last write of the key is not newer.
Paired(dir) == dir["mkey"][1] <= dir["mgr"][1]
Whole(dir) ==
    /\ \A f \in Files : dir[f][1] = dir[f][2]
    /\ CorePresent(dir) /\ PairPresent(dir) /\ Paired(dir)

\* A directory that a restore promoted holds, file by file, what one archive
\* held when this program completed it, and the file it was read from is that
\* archive without one frame changed, moved, added or missing (Restore,
\* Decrypt).  No file in it was copied while it was written, and the key of
\* CPAMP belongs to its database, although the programs that own the files
\* went on writing (createArchive, copyRegular).
RestoredIsWhole ==
    output # Nothing =>
        /\ reader.source \in made
        /\ \E a \in made : output = [f \in Files |-> a.frames[Len(a.frames) - 1].data.list[f]]
        /\ Whole(output)

-----------------------------------------------------------------------------
(* The inductive invariant of the proof.                                   *)

Contents == [Files -> Nat \X Nat]
FrameRecords == [id : Nat, seq : Nat,
                 data : [name : Files \cup {"manifest", "end"}, at : Nat \X Nat, list : Contents, policy : Nat]]
Archives == [id : Nat, frames : Seq(FrameRecords)]
Makers == [step : {"idle", "collect", "listed", "copy", "half", "check", "write"}, left : Seq(Files),
           copy : [before : Nat, now : Nat, attached : BOOLEAN, half : Nat], staged : Contents, policy : Nat]
Readers == [step : {"idle", "read", "finish", "verify", "promote"}, at : Nat, dir : Contents,
            list : Contents, source : Archives]

\* CPAMP's database and key are always of one write.
LiveInv ==
    /\ writes \in Nat /\ approved \in Nat /\ live \in [Files -> 0..writes]
    /\ live["mgr"] = live["mkey"]

\* What is staged was one version of its file, the pair of CPAMP the one that
\* is there while it stands still.
StageInv ==
    /\ maker \in Makers
    /\ maker.step \in {"listed", "copy", "half"} => maker.left # << >>
    /\ maker.step \in {"copy", "half"} =>
           /\ maker.copy.before <= maker.copy.now /\ maker.copy.now <= writes
           /\ CurrentFile \in Manager => maker.copy.before = live[CurrentFile]
    /\ maker.step = "half" =>
           maker.copy.before <= maker.copy.half /\ maker.copy.half <= maker.copy.now
    /\ \A f \in Files : maker.staged[f][1] = maker.staged[f][2]
    /\ Frozen => \A f \in Manager : maker.staged[f] # Absent => maker.staged[f][1] = live[f]
    /\ maker.step \in {"check", "write"} /\ PairPresent(maker.staged) => Paired(maker.staged)
    /\ maker.step = "write" => CorePresent(maker.staged) /\ PairPresent(maker.staged)

\* An archive as it was made: its frames in order, the manifest last but one.
Sealed(a) ==
    LET n == Len(a.frames) IN
    /\ a \in Archives /\ a.id \in 1..Cardinality(made) /\ n >= 2
    /\ \A i \in 1..n : /\ a.frames[i].id = a.id /\ a.frames[i].seq = i
                       /\ a.frames[i].data.name = "end" <=> i = n
    /\ Whole(a.frames[n - 1].data.list)

MadeInv ==
    /\ IsFiniteSet(made)
    /\ \A a \in made : Sealed(a)
    /\ \A a, b \in made : a.id = b.id => a = b

\* Nobody else can seal a frame.
FramesMade == UNION {{a.frames[i] : i \in 1..Len(a.frames)} : a \in made}
OfMade(a) == a \in Archives /\ \A i \in 1..Len(a.frames) : a.frames[i] \in FramesMade

\* The frames that were opened are those of one archive, in order.
ReadInv ==
    LET source == reader.source IN
    /\ reader \in Readers /\ OfMade(stored) /\ output \in Contents
    /\ reader.step # "idle" => OfMade(source) /\ output = Nothing
    /\ reader.step \in {"read", "finish"} =>
           /\ reader.at \in 1..(Len(source.frames) + 1)
           /\ \A i \in 1..(reader.at - 1) : source.frames[i].id = source.id /\ source.frames[i].seq = i
    /\ reader.step = "finish" =>
           reader.at >= 2 /\ reader.list = source.frames[reader.at - 1].data.list
    /\ reader.step \in {"verify", "promote"} =>
           source \in made /\ reader.list = source.frames[Len(source.frames) - 1].data.list
    /\ reader.step = "promote" => reader.dir = reader.list

ArchiveInv == LiveInv /\ StageInv /\ MadeInv /\ ReadInv /\ RestoredIsWhole
=============================================================================
