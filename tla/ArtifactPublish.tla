-------------------------- MODULE ArtifactPublish --------------------------
(***************************************************************************)
(* The two artifact directories of one corpus, processed/<id> and          *)
(* indexes/<id>, and the processes that touch them without any common      *)
(* lock: ArtifactWriter._publish (apps/processing/artifacts.py), which     *)
(* exchanges both by renaming, publish_compact_artifacts                   *)
(* (apps/processing/storage_compaction.py), which replaces files inside    *)
(* them, and a search, which opens one after the other.                    *)
(*                                                                         *)
(* A directory is known by the version it was built as; every system call  *)
(* is a step, may fail, and may be the last one of its process.  Tasks of  *)
(* one corpus run one at a time (Processing!OneActiveTask), and the task   *)
(* of a lost process stays RUNNING, so that nothing is published after it. *)
(***************************************************************************)
EXTENDS Integers

CONSTANTS
    MaxVersion,  \* bound: versions built
    MaxFaults    \* bound: system calls that fail and processes that die

ASSUME BoundsAssumption == MaxVersion \in Nat \ {0} /\ MaxFaults \in Nat

VARIABLES
    live,       \* live[d]: the version of the directory in place, 0 for none
    staging,    \* staging[d]: the directory the writer has built
    backup,     \* backup[t][d]: .backup-<name>-<task id>
    sqlite,     \* sqlite[v]: version of kwic_index.sqlite in index directory v
    precompact, \* precompact[v]: the hard link kwic_index.sqlite.precompact-* in it
    archive,    \* archive[v]: tokens.jsonl.gz beside the tokens.jsonl of directory v
    task,       \* the task whose attempt runs or was the last
    writer,     \* where ArtifactWriter stands, and its lists backups and published
    pilot,      \* pilot.index, pilot.archive: the files of the pilot, 0 for none
    compactor,  \* where publish_compact_artifacts stands, and its two flags
    reader,     \* where a search stands, and what it has opened
    built, faults, lost, \* versions built, faults so far, and a lost writer
    broken, raced        \* a roll-back broke off; directories moved during a compaction

dirVars == <<live, staging, backup>>
fileVars == <<sqlite, precompact, archive, pilot>>
history == <<built, faults, lost, broken, raced>>
vars == <<dirVars, fileVars, task, writer, compactor, reader, history>>

Dirs == {"processed", "index"}
Versions == 1..MaxVersion
None == 0

\* The version published before the archive was compressed has tokens.jsonl.
Legacy == {1}

\* `pairs` lists processed before index, and the roll-back goes backwards.
First(ds) == IF "processed" \in ds THEN "processed" ELSE "index"
Final(ds) == IF "index" \in ds THEN "index" ELSE "processed"

Tasks == 0..MaxVersion
AtRest == [at |-> "idle", todo |-> {}, saved |-> {}, placed |-> {}]

NotCompacting == [at |-> "idle", index |-> FALSE, archive |-> FALSE]
NotSearching == [at |-> "idle", index |-> None, metadata |-> None, replaced |-> FALSE]

Init ==
    /\ live \in {[d \in Dirs |-> v] : v \in {None} \cup Legacy}
    /\ staging = [d \in Dirs |-> None]
    /\ backup = [t \in Tasks |-> [d \in Dirs |-> None]]
    /\ sqlite = [v \in Versions |-> v]
    /\ precompact = [v \in Versions |-> None]
    /\ archive = [v \in Versions |-> None]
    /\ pilot = [index |-> None, archive |-> None]
    /\ task = 0
    /\ writer = AtRest
    /\ compactor = NotCompacting
    /\ reader = NotSearching
    /\ built = 1 /\ faults = 0 /\ lost = FALSE
    /\ broken = FALSE /\ raced = FALSE

-----------------------------------------------------------------------------
(* ArtifactWriter *)

\* open, the import and the files of finalize: only the staging directories are
\* written.  After an OSError the same task tries again, or its retries are
\* exhausted; otherwise a new task has been created.
Build(t) ==
    /\ writer.at \in {"idle", "failed"}
    /\ ~lost
    /\ built < MaxVersion
    /\ \/ t = task + 1
       \/ t = task /\ writer.at = "failed"
    /\ task' = t
    /\ built' = built + 1
    /\ staging' = [d \in Dirs |-> built + 1]
    /\ writer' = [AtRest EXCEPT !.at = "saving", !.todo = Dirs]
    /\ UNCHANGED <<live, backup, fileVars, compactor, reader, faults, lost, broken, raced>>

\* One system call of _publish on the next directory d of a loop.
At(stage, d) ==
    /\ writer.at = stage
    /\ writer.todo # {}
    /\ d = IF stage \in {"undoing", "restoring"} THEN Final(writer.todo) ELSE First(writer.todo)
    /\ UNCHANGED <<fileVars, task, compactor, built, faults, lost, broken>>

\* A directory that moves during a compaction is pulled from under its feet.
Moves == raced' = (raced \/ compactor.at # "idle")

ClearBackup(d) ==
    /\ At("saving", d)
    /\ backup[task][d] # None
    /\ backup' = [backup EXCEPT ![task][d] = None]
    /\ UNCHANGED <<live, staging, writer, reader, raced>>

\* Mutant: the former directory is copied and stays until it is replaced.
SaveCopy(d) ==
    /\ At("saving", d)
    /\ backup[task][d] = None
    /\ backup' = [backup EXCEPT ![task][d] = live[d]]
    /\ writer' = [writer EXCEPT !.todo = @ \ {d},
                                !.saved = IF live[d] = None THEN @ ELSE @ \cup {d}]
    /\ Moves
    /\ UNCHANGED <<live, staging, reader>>

SaveLive(d) ==
    /\ At("saving", d)
    /\ backup[task][d] = None
    /\ backup' = [backup EXCEPT ![task][d] = live[d]]
    /\ live' = [live EXCEPT ![d] = None]
    /\ writer' = [writer EXCEPT !.todo = @ \ {d},
                                !.saved = IF live[d] = None THEN @ ELSE @ \cup {d}]
    /\ Moves
    /\ UNCHANGED <<staging, reader>>

Replace(d) ==
    /\ At("replacing", d)
    /\ live' = [live EXCEPT ![d] = staging[d]]
    /\ staging' = [staging EXCEPT ![d] = None]
    /\ writer' = [writer EXCEPT !.todo = @ \ {d}, !.placed = @ \cup {d}]
    /\ Moves
    /\ reader' = [reader EXCEPT !.replaced = @ \/ (reader.at = "opened" /\ d = "processed")]
    /\ UNCHANGED backup

RemoveBackup(d) ==
    /\ At("cleaning", d)
    /\ backup' = [backup EXCEPT ![task][d] = None]
    /\ writer' = [writer EXCEPT !.todo = @ \ {d}]
    /\ UNCHANGED <<live, staging, reader, raced>>

\* The except branch: first what was published is removed,
Undo(d) ==
    /\ At("undoing", d)
    /\ live' = [live EXCEPT ![d] = None]
    /\ writer' = [writer EXCEPT !.todo = @ \ {d}]
    /\ Moves
    /\ UNCHANGED <<staging, backup, reader>>

\* then the former directories return.
Restore(d) ==
    /\ At("restoring", d)
    /\ live' = [live EXCEPT ![d] = backup[task][d]]
    /\ backup' = [backup EXCEPT ![task][d] = None]
    /\ writer' = [writer EXCEPT !.todo = @ \ {d}]
    /\ Moves
    /\ UNCHANGED <<staging, reader>>

Goes(stage, ds) == writer' = [writer EXCEPT !.at = stage, !.todo = ds]

\* A loop has come to its end.
NextLoop ==
    /\ writer.todo = {}
    /\ \/ writer.at = "saving" /\ Goes("replacing", Dirs)
       \/ writer.at = "replacing" /\ Goes("cleaning", writer.saved)
       \/ writer.at = "cleaning" /\ writer' = AtRest
       \/ writer.at = "undoing" /\ Goes("restoring", writer.saved)
       \/ writer.at = "restoring" /\ Goes("aborting", {})
    /\ UNCHANGED <<dirVars, fileVars, task, compactor, reader, history>>

\* Mutant: the try block ends before the new directories are put in place.
RaisesUnprotected ==
    /\ writer.at \notin {"idle", "failed", "aborting"}
    /\ writer.todo # {}
    /\ faults < MaxFaults
    /\ faults' = faults + 1
    /\ IF writer.at = "saving"
       THEN Goes("undoing", writer.placed) /\ UNCHANGED broken
       ELSE /\ Goes("aborting", {})
            /\ broken' = (broken \/ writer.at \in {"undoing", "restoring"})
    /\ UNCHANGED <<dirVars, fileVars, task, compactor, reader, built, lost, raced>>

\* A system call of _publish raises OSError: in the try block the roll-back
\* starts, elsewhere the error leaves _publish as it is.
PublishRaises ==
    /\ writer.at \notin {"idle", "failed", "aborting"}
    /\ writer.todo # {}
    /\ faults < MaxFaults
    /\ faults' = faults + 1
    /\ IF writer.at \in {"saving", "replacing"}
       THEN Goes("undoing", writer.placed) /\ UNCHANGED broken
       ELSE /\ Goes("aborting", {})
            /\ broken' = (broken \/ writer.at \in {"undoing", "restoring"})
    /\ UNCHANGED <<dirVars, fileVars, task, compactor, reader, built, lost, raced>>

\* Mutant: abort only closes the files.
AbortKeepsStaging ==
    /\ writer.at = "aborting"
    /\ writer' = [AtRest EXCEPT !.at = "failed"]
    /\ UNCHANGED <<dirVars, fileVars, task, compactor, reader, history>>

Abort ==
    /\ writer.at = "aborting"
    /\ staging' = [d \in Dirs |-> None]
    /\ writer' = [AtRest EXCEPT !.at = "failed"]
    /\ UNCHANGED <<live, backup, fileVars, task, compactor, reader, history>>

WriterLost ==
    /\ writer.at \notin {"idle", "failed"}
    /\ faults < MaxFaults
    /\ faults' = faults + 1
    /\ lost' = TRUE
    /\ writer' = AtRest
    /\ UNCHANGED <<dirVars, fileVars, task, compactor, reader, built, broken, raced>>

WriterStep ==
    \/ \E t \in Tasks : Build(t)
    \/ \E d \in Dirs :
        \/ ClearBackup(d) \/ SaveLive(d) \/ Replace(d) \/ RemoveBackup(d)
        \/ Undo(d) \/ Restore(d)
    \/ NextLoop \/ PublishRaises \/ Abort \/ WriterLost

-----------------------------------------------------------------------------
(* Compaction *)

LiveIndex == live["index"]
LiveProcessed == live["processed"]

\* kwic_index.sqlite of the corpus: 0 when the path does not exist.
IndexFile == IF LiveIndex = None THEN None ELSE sqlite[LiveIndex]
ArchiveFile == IF LiveProcessed = None THEN None ELSE archive[LiveProcessed]

Compaction(stage) ==
    /\ compactor.at = stage
    /\ UNCHANGED <<dirVars, task, writer, reader, built, lost>>

Unfaulted == UNCHANGED <<faults, broken, raced>>

\* compact_corpus_storage copies the index and compresses the token file.
BuildPilot ==
    /\ Compaction("idle")
    /\ pilot.index = None /\ pilot.archive = None
    /\ IndexFile # None
    /\ LiveProcessed \in Legacy
    /\ pilot' = [index |-> IndexFile, archive |-> LiveProcessed]
    /\ Unfaulted
    /\ UNCHANGED <<compactor, sqlite, precompact, archive>>

\* All files are there, none is newer than the pilot's, and there is no archive.
CheckPilot ==
    /\ Compaction("idle")
    /\ pilot.index # None /\ pilot.archive # None
    /\ IndexFile # None /\ IndexFile <= pilot.index
    /\ LiveProcessed \in Legacy
    /\ ArchiveFile = None
    /\ compactor' = [at |-> "checked", index |-> FALSE, archive |-> FALSE]
    /\ Unfaulted
    /\ UNCHANGED fileVars

LinkBackup ==
    /\ Compaction("checked")
    /\ IndexFile # None
    /\ precompact' = [precompact EXCEPT ![LiveIndex] = IndexFile]
    /\ compactor' = [compactor EXCEPT !.at = "linked"]
    /\ Unfaulted
    /\ UNCHANGED <<sqlite, archive, pilot>>

PublishIndex ==
    /\ Compaction("linked")
    /\ LiveIndex # None
    /\ sqlite' = [sqlite EXCEPT ![LiveIndex] = pilot.index]
    /\ pilot' = [pilot EXCEPT !.index = None]
    /\ compactor' = [compactor EXCEPT !.at = "indexed", !.index = TRUE]
    /\ Unfaulted
    /\ UNCHANGED <<precompact, archive>>

PublishArchive ==
    /\ Compaction("indexed")
    /\ LiveProcessed # None
    /\ archive' = [archive EXCEPT ![LiveProcessed] = pilot.archive]
    /\ pilot' = [pilot EXCEPT !.archive = None]
    /\ compactor' = [compactor EXCEPT !.at = "archived", !.archive = TRUE]
    /\ Unfaulted
    /\ UNCHANGED <<sqlite, precompact>>

\* inspect_corpus_index finds the index ready; the old files remain.
InspectPublished ==
    /\ Compaction("archived")
    /\ IndexFile # None /\ LiveProcessed # None
    /\ compactor' = NotCompacting
    /\ Unfaulted
    /\ UNCHANGED fileVars

\* A call fails or the index is found corrupt (a fault), or a path is gone with
\* a directory that was moved away.
CallFails ==
    \/ faults < MaxFaults /\ faults' = faults + 1
    \/ (IndexFile = None \/ LiveProcessed = None) /\ UNCHANGED faults

CompactionRaises ==
    /\ compactor.at \in {"linked", "indexed", "archived"}
    /\ Compaction(compactor.at)
    /\ CallFails
    /\ compactor' = [compactor EXCEPT !.at = "undoing"]
    /\ UNCHANGED <<fileVars, broken, raced>>

UndoArchive ==
    /\ Compaction("undoing")
    /\ compactor.archive
    /\ ArchiveFile # None
    /\ pilot' = [pilot EXCEPT !.archive = ArchiveFile]
    /\ archive' = [archive EXCEPT ![LiveProcessed] = None]
    /\ compactor' = [compactor EXCEPT !.archive = FALSE]
    /\ Unfaulted
    /\ UNCHANGED <<sqlite, precompact>>

UndoIndex ==
    /\ Compaction("undoing")
    /\ ~compactor.archive /\ compactor.index
    /\ IndexFile # None
    /\ pilot' = [pilot EXCEPT !.index = IndexFile]
    /\ sqlite' = [sqlite EXCEPT ![LiveIndex] = None]
    /\ compactor' = [compactor EXCEPT !.at = "restoring"]
    /\ Unfaulted
    /\ UNCHANGED <<precompact, archive>>

RestoreIndex ==
    /\ Compaction("restoring")
    /\ LiveIndex # None
    /\ precompact[LiveIndex] # None
    /\ sqlite' = [sqlite EXCEPT ![LiveIndex] = precompact[LiveIndex]]
    /\ precompact' = [precompact EXCEPT ![LiveIndex] = None]
    /\ compactor' = NotCompacting
    /\ Unfaulted
    /\ UNCHANGED <<archive, pilot>>

\* The index was not yet replaced: only the link goes.
Unlink ==
    /\ Compaction("undoing")
    /\ ~compactor.archive /\ ~compactor.index
    /\ precompact' = IF LiveIndex = None THEN precompact
                     ELSE [precompact EXCEPT ![LiveIndex] = None]
    /\ compactor' = NotCompacting
    /\ Unfaulted
    /\ UNCHANGED <<sqlite, archive, pilot>>

\* A call of the roll-back fails, and the rest of it is not made; or the link
\* cannot be made, before anything has changed.
CompactionBreaksOff ==
    /\ compactor.at \in {"checked", "undoing", "restoring"}
    /\ Compaction(compactor.at)
    /\ \/ CallFails
       \/ compactor.archive /\ ArchiveFile = None /\ UNCHANGED faults
    /\ compactor' = NotCompacting
    /\ UNCHANGED <<fileVars, broken, raced>>

CompactorLost ==
    /\ compactor.at # "idle"
    /\ Compaction(compactor.at)
    /\ faults < MaxFaults
    /\ faults' = faults + 1
    /\ compactor' = NotCompacting
    /\ UNCHANGED <<fileVars, broken, raced>>

CompactorStep ==
    \/ BuildPilot \/ CheckPilot
    \/ LinkBackup \/ PublishIndex \/ PublishArchive \/ InspectPublished
    \/ CompactionRaises \/ UndoArchive \/ UndoIndex \/ RestoreIndex \/ Unlink
    \/ CompactionBreaksOff \/ CompactorLost

-----------------------------------------------------------------------------
(* A search *)

Searches(stage) == reader.at = stage /\ UNCHANGED <<dirVars, fileVars, task, writer, compactor, history>>

\* _require_artifacts, and the connection to the index it has found.
RequireArtifacts ==
    /\ Searches("idle")
    /\ IndexFile # None /\ LiveProcessed # None
    /\ reader' = [NotSearching EXCEPT !.at = "required"]

OpenIndex ==
    /\ Searches("required")
    /\ IndexFile # None
    /\ reader' = [reader EXCEPT !.at = "opened", !.index = IndexFile, !.replaced = FALSE]

\* _metadata_for reads the sentences, paragraphs and documents of the hits.
ReadMetadata ==
    /\ Searches("opened")
    /\ LiveProcessed # None
    /\ reader' = [reader EXCEPT !.at = "done", !.metadata = LiveProcessed]

\* The page is shown, or a file is missing and the search raises.
EndSearch ==
    /\ Searches(reader.at)
    /\ \/ reader.at = "done"
       \/ reader.at = "required" /\ IndexFile = None
       \/ reader.at = "opened" /\ LiveProcessed = None
    /\ reader' = NotSearching

Searching == RequireArtifacts \/ OpenIndex \/ ReadMetadata \/ EndSearch

-----------------------------------------------------------------------------
Next == WriterStep \/ CompactorStep \/ Searching

Spec == Init /\ [][Next]_vars

-----------------------------------------------------------------------------
(* Properties *)

TypeOK ==
    /\ live \in [Dirs -> Versions \cup {None}]
    /\ staging \in [Dirs -> Versions \cup {None}]
    /\ backup \in [Tasks -> [Dirs -> Versions \cup {None}]]
    /\ sqlite \in [Versions -> Versions \cup {None}]
    /\ precompact \in [Versions -> Versions \cup {None}]
    /\ archive \in [Versions -> Versions \cup {None}]
    /\ pilot \in [{"index", "archive"} -> Versions \cup {None}]
    /\ task \in Tasks
    /\ writer \in [at : {"idle", "failed", "saving", "replacing", "cleaning", "undoing",
                         "restoring", "aborting"},
                   todo : SUBSET Dirs, saved : SUBSET Dirs, placed : SUBSET Dirs]
    /\ compactor \in [at : {"idle", "checked", "linked", "indexed", "archived", "undoing",
                            "restoring"},
                      index : BOOLEAN, archive : BOOLEAN]
    /\ reader \in [at : {"idle", "required", "opened", "done"}, index : Versions \cup {None},
                   metadata : Versions \cup {None}, replaced : BOOLEAN]
    /\ built \in Versions
    /\ faults \in 0..MaxFaults
    /\ {lost, broken, raced} \subseteq BOOLEAN
    /\ (writer.at \in {"idle", "failed"} /\ ~lost) => \A d \in Dirs : staging[d] = None

\* A version is on disk when both of its parts are, in place or kept aside.
Kept(d, v) ==
    /\ live[d] = v \/ \E t \in Tasks : backup[t][d] = v
    /\ d = "index" => (sqlite[v] = v \/ precompact[v] = v)

OnDisk == {v \in Versions : \A d \in Dirs : Kept(d, v)} \cup {None}

Committed == CHOOSE v \in OnDisk : \A w \in OnDisk : w <= v

\* What a search finds: nothing while a part is missing, and never (so says the
\* refinement) an index beside the texts of another version.
Mixture == MaxVersion + 1
Served ==
    IF IndexFile = None \/ LiveProcessed = None THEN None
    ELSE IF IndexFile = LiveProcessed THEN IndexFile ELSE Mixture

Atomic == INSTANCE AtomicPublish WITH
    committed <- Committed, served <- Served, sound <- ~broken /\ ~raced

\* The exchange of the directories is atomic as AtomicPublish states it, with a
\* system call failing or the process dying anywhere in _publish or in a
\* compaction: a search never finds parts of two versions, a failed attempt
\* brings the former version back, and what a dead process leaves behind still
\* holds a complete version.
PublishesAtomically == Atomic!ASpec

\* The sentences shown beside the hits are those of the index searched, unless
\* the directory was exchanged between the two reads; then they are newer.
SearchIsOfOneVersion ==
    (reader.at = "done" /\ ~raced) =>
        \/ reader.metadata = reader.index
        \/ (reader.replaced /\ reader.metadata > reader.index)
=============================================================================
