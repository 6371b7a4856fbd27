----------------------- MODULE ArtifactPublishProofs -----------------------
(***************************************************************************)
(* What ArtifactPublish guarantees for every number of versions and        *)
(* faults: a search joins the hits of one version with its sentences, or   *)
(* with those of a version that replaced it meanwhile, and the exchange of *)
(* the directories implements AtomicPublish.                               *)
(***************************************************************************)
EXTENDS ArtifactPublish, TLAPS

USE BoundsAssumption

Stages == {"idle", "failed", "saving", "replacing", "cleaning", "undoing", "restoring", "aborting"}

MaybeVersion == Versions \cup {None}

-----------------------------------------------------------------------------
(* Types *)

DirType ==
    /\ live \in [Dirs -> MaybeVersion]
    /\ staging \in [Dirs -> MaybeVersion]
    /\ backup \in [Tasks -> [Dirs -> MaybeVersion]]

FileType ==
    /\ sqlite \in [Versions -> MaybeVersion]
    /\ precompact \in [Versions -> MaybeVersion]
    /\ archive \in [Versions -> MaybeVersion]
    /\ pilot \in [{"index", "archive"} -> MaybeVersion]

WriterType ==
    /\ task \in Tasks
    /\ writer \in [at : Stages, todo : SUBSET Dirs, saved : SUBSET Dirs, placed : SUBSET Dirs]

CompactorType ==
    compactor \in [at : {"idle", "checked", "linked", "indexed", "archived", "undoing", "restoring"},
                   index : BOOLEAN, archive : BOOLEAN]

ReaderType ==
    reader \in [at : {"idle", "required", "opened", "done"}, index : MaybeVersion,
                metadata : MaybeVersion, replaced : BOOLEAN]

CountType == built \in Versions /\ faults \in 0..MaxFaults

FlagType == lost \in BOOLEAN /\ broken \in BOOLEAN /\ raced \in BOOLEAN

HistoryType == CountType /\ FlagType

Typed == DirType /\ FileType /\ WriterType /\ CompactorType /\ ReaderType /\ HistoryType

LEMMA InitTyped == Init => Typed
  <1> SUFFICES ASSUME Init PROVE Typed
    OBVIOUS
  <1>1. 0 \in MaybeVersion /\ 1 \in Versions /\ \A v \in Versions : v \in MaybeVersion
    BY DEF MaybeVersion, Versions, None
  <1>2. DirType
    <2>1. PICK v \in {None} \cup Legacy : live = [d \in Dirs |-> v]
      BY DEF Init
    <2>2. v \in MaybeVersion
      BY <1>1 DEF Legacy, None
    <2> QED
      BY <1>1, <2>1, <2>2 DEF Init, DirType, None
  <1>3. FileType
    BY <1>1 DEF Init, FileType, None
  <1>4. WriterType
    BY DEF Init, WriterType, Stages, Tasks, AtRest
  <1>5. CompactorType
    BY DEF Init, CompactorType, NotCompacting
  <1>6. ReaderType
    BY <1>1 DEF Init, ReaderType, NotSearching, None
  <1>7. HistoryType
    <2>1. CountType
      BY <1>1 DEF Init, CountType
    <2>2. FlagType
      BY DEF Init, FlagType
    <2> QED
      BY <2>1, <2>2 DEF HistoryType
  <1> QED
    BY <1>2, <1>3, <1>4, <1>5, <1>6, <1>7 DEF Typed

\* A field of the writer's record changes.
LEMMA WriterGoes ==
    ASSUME WriterType, NEW stage \in Stages, NEW ds \in SUBSET Dirs, Goes(stage, ds)
    PROVE  /\ writer' \in [at : Stages, todo : SUBSET Dirs, saved : SUBSET Dirs, placed : SUBSET Dirs]
           /\ writer'.at = stage /\ writer'.todo = ds
           /\ writer'.saved = writer.saved /\ writer'.placed = writer.placed
  BY DEF WriterType, Goes

LEMMA BuildTyped == ASSUME Typed, NEW t \in Tasks, Build(t) PROVE Typed'
  <1> USE DEF Build, fileVars
  <1>1. built + 1 \in Versions
    BY DEF Typed, HistoryType, CountType, Versions
  <1>2. DirType'
    BY <1>1 DEF Typed, DirType, MaybeVersion
  <1>3. WriterType'
    BY DEF WriterType, Stages, AtRest
  <1>4. HistoryType'
    BY <1>1 DEF Typed, HistoryType, CountType, FlagType
  <1> QED
    BY <1>2, <1>3, <1>4 DEF Typed, FileType, CompactorType, ReaderType

\* A call of _publish changes the two paths of one directory.
LEMMA CallTyped ==
    ASSUME Typed, NEW d \in Dirs,
           ClearBackup(d) \/ SaveLive(d) \/ Replace(d) \/ RemoveBackup(d) \/ Undo(d) \/ Restore(d)
    PROVE  Typed'
  <1>1. None \in MaybeVersion /\ backup[task][d] \in MaybeVersion /\ live[d] \in MaybeVersion /\ staging[d] \in MaybeVersion
    BY DEF Typed, DirType, WriterType, MaybeVersion
  <1>2. task \in Tasks /\ backup[task] \in [Dirs -> MaybeVersion]
    BY DEF Typed, DirType, WriterType
  <1>3. live' \in [Dirs -> MaybeVersion]
    BY <1>1 DEF Typed, DirType, ClearBackup, SaveLive, Replace, RemoveBackup, Undo, Restore
  <1>4. staging' \in [Dirs -> MaybeVersion]
    BY <1>1 DEF Typed, DirType, ClearBackup, SaveLive, Replace, RemoveBackup, Undo, Restore
  <1>5. backup' \in [Tasks -> [Dirs -> MaybeVersion]]
    <2>1. \A v \in MaybeVersion : [backup EXCEPT ![task][d] = v] \in [Tasks -> [Dirs -> MaybeVersion]]
      BY <1>2 DEF Typed, DirType
    <2> QED
      BY <1>1, <2>1 DEF Typed, DirType, ClearBackup, SaveLive, Replace, RemoveBackup, Undo, Restore
  <1>6. WriterType'
    <2>1. CASE SaveLive(d)
      BY <1>2, <2>1 DEF Typed, WriterType, At, SaveLive
    <2>2. CASE Replace(d)
      BY <1>2, <2>2 DEF Typed, WriterType, At, Replace
    <2>3. CASE ClearBackup(d) \/ RemoveBackup(d) \/ Undo(d) \/ Restore(d)
      BY <1>2, <2>3 DEF Typed, WriterType, At, ClearBackup, RemoveBackup, Undo, Restore
    <2> QED
      BY <2>1, <2>2, <2>3
  <1>7. ReaderType'
    BY DEF Typed, ReaderType, ClearBackup, SaveLive, Replace, RemoveBackup, Undo, Restore
  <1>8. HistoryType'
    <2>1. CountType'
      BY DEF Typed, HistoryType, CountType, At, ClearBackup, SaveLive, Replace, RemoveBackup, Undo, Restore
    <2>2. FlagType'
      BY DEF Typed, HistoryType, FlagType, At, Moves, ClearBackup, SaveLive, Replace, RemoveBackup, Undo, Restore
    <2> QED
      BY <2>1, <2>2 DEF HistoryType
  <1>9. FileType' /\ CompactorType'
    BY DEF Typed, FileType, CompactorType, At, fileVars, ClearBackup, SaveLive, Replace, RemoveBackup, Undo, Restore
  <1> QED
    BY <1>3, <1>4, <1>5, <1>6, <1>7, <1>8, <1>9 DEF Typed, DirType

\* The ends of loops, errors, aborts and deaths of the writer.
LEMMA ControlTyped == ASSUME Typed, NextLoop \/ PublishRaises \/ Abort \/ WriterLost PROVE Typed'
  <1> USE DEF fileVars, dirVars, history
  <1>1. WriterType'
    <2>1. AtRest \in [at : Stages, todo : SUBSET Dirs, saved : SUBSET Dirs, placed : SUBSET Dirs]
      BY DEF AtRest, Stages
    <2>2. CASE NextLoop
      BY <2>1, <2>2, WriterGoes DEF NextLoop, Typed, WriterType, Stages
    <2>3. CASE PublishRaises
      BY <2>3, WriterGoes DEF PublishRaises, Typed, WriterType, Stages
    <2>4. CASE Abort \/ WriterLost
      BY <2>1, <2>4 DEF Abort, WriterLost, Typed, WriterType, Stages, AtRest
    <2> QED
      BY <2>2, <2>3, <2>4
  <1>2. DirType'
    <2>1. None \in MaybeVersion
      BY DEF MaybeVersion
    <2> QED
      BY <2>1 DEF Typed, DirType, NextLoop, PublishRaises, Abort, WriterLost
  <1>3. HistoryType'
    <2>1. CountType'
      BY DEF Typed, HistoryType, CountType, NextLoop, PublishRaises, Abort, WriterLost
    <2>2. FlagType'
      BY DEF Typed, HistoryType, FlagType, NextLoop, PublishRaises, Abort, WriterLost
    <2> QED
      BY <2>1, <2>2 DEF HistoryType
  <1>4. FileType' /\ CompactorType' /\ ReaderType'
    BY DEF Typed, FileType, CompactorType, ReaderType, NextLoop, PublishRaises, Abort, WriterLost
  <1> QED
    BY <1>1, <1>2, <1>3, <1>4 DEF Typed

\* The files that stand at the two paths.
LEMMA FilesTyped == ASSUME Typed PROVE IndexFile \in MaybeVersion /\ ArchiveFile \in MaybeVersion /\ None \in MaybeVersion
  BY DEF Typed, DirType, FileType, IndexFile, ArchiveFile, LiveIndex, LiveProcessed, MaybeVersion, Dirs

LEMMA CompactorTyped == ASSUME Typed, CompactorStep PROVE Typed'
  <1> USE DEF Compaction, dirVars, Unfaulted
  <1>1. DirType' /\ WriterType' /\ ReaderType'
    BY DEF Typed, DirType, WriterType, ReaderType, CompactorStep, BuildPilot, CheckPilot, LinkBackup, PublishIndex,
           PublishArchive, InspectPublished, CompactionRaises, UndoArchive, UndoIndex, RestoreIndex, Unlink,
           CompactionBreaksOff, CompactorLost
  <1>2. HistoryType'
    BY DEF Typed, HistoryType, CountType, FlagType, CompactorStep, BuildPilot, CheckPilot, LinkBackup, PublishIndex,
           PublishArchive, InspectPublished, CompactionRaises, UndoArchive, UndoIndex, RestoreIndex, Unlink,
           CompactionBreaksOff, CompactorLost, CallFails
  <1>3. CompactorType'
    <2>1. CASE BuildPilot
      BY <2>1 DEF Typed, CompactorType, BuildPilot
    <2>2. CASE CheckPilot \/ InspectPublished \/ RestoreIndex \/ Unlink \/ CompactionBreaksOff \/ CompactorLost
      <3>1. compactor' = NotCompacting \/ compactor' = [at |-> "checked", index |-> FALSE, archive |-> FALSE]
        BY <2>2 DEF CheckPilot, InspectPublished, RestoreIndex, Unlink, CompactionBreaksOff, CompactorLost
      <3>2. NotCompacting \in [at : {"idle", "checked", "linked", "indexed", "archived", "undoing", "restoring"},
                               index : BOOLEAN, archive : BOOLEAN]
        BY DEF NotCompacting
      <3>3. [at |-> "checked", index |-> FALSE, archive |-> FALSE] \in
                [at : {"idle", "checked", "linked", "indexed", "archived", "undoing", "restoring"},
                 index : BOOLEAN, archive : BOOLEAN]
        OBVIOUS
      <3> QED
        BY <3>1, <3>2, <3>3 DEF CompactorType
    <2>3. CASE LinkBackup \/ CompactionRaises \/ UndoIndex
      BY <2>3 DEF Typed, CompactorType, LinkBackup, CompactionRaises, UndoIndex
    <2>4. CASE PublishIndex
      BY <2>4 DEF Typed, CompactorType, PublishIndex
    <2>5. CASE PublishArchive
      BY <2>5 DEF Typed, CompactorType, PublishArchive
    <2>6. CASE UndoArchive
      BY <2>6 DEF Typed, CompactorType, UndoArchive
    <2> QED
      BY <2>1, <2>2, <2>3, <2>4, <2>5, <2>6 DEF CompactorStep
  <1>4. LiveIndex \in MaybeVersion /\ LiveProcessed \in MaybeVersion
    BY DEF Typed, DirType, LiveIndex, LiveProcessed, Dirs
  <1>5. FileType'
    <2>1. CASE BuildPilot \/ CheckPilot \/ InspectPublished \/ CompactionRaises \/ CompactionBreaksOff \/ CompactorLost
      BY <1>4, <2>1, FilesTyped DEF Typed, FileType, BuildPilot, CheckPilot, InspectPublished, CompactionRaises,
         CompactionBreaksOff, CompactorLost, fileVars
    <2>2. CASE LinkBackup \/ PublishIndex \/ PublishArchive
      BY <1>4, <2>2, FilesTyped DEF Typed, FileType, LinkBackup, PublishIndex, PublishArchive
    <2>3. CASE UndoArchive \/ UndoIndex
      BY <1>4, <2>3, FilesTyped DEF Typed, FileType, UndoArchive, UndoIndex
    <2>4. CASE RestoreIndex \/ Unlink
      BY <1>4, <2>4, FilesTyped DEF Typed, FileType, RestoreIndex, Unlink, MaybeVersion
    <2> QED
      BY <2>1, <2>2, <2>3, <2>4 DEF CompactorStep
  <1> QED
    BY <1>1, <1>2, <1>3, <1>5 DEF Typed

LEMMA SearchTyped == ASSUME Typed, Searching PROVE Typed'
  <1>1. LiveProcessed \in MaybeVersion
    BY DEF Typed, DirType, LiveProcessed, Dirs
  <1>2. ReaderType'
    <2>1. CASE RequireArtifacts \/ EndSearch
      <3>1. NotSearching \in [at : {"idle", "required", "opened", "done"}, index : MaybeVersion,
                              metadata : MaybeVersion, replaced : BOOLEAN]
        BY FilesTyped DEF NotSearching
      <3>2. reader' = NotSearching \/ reader' = [NotSearching EXCEPT !.at = "required"]
        BY <2>1 DEF RequireArtifacts, EndSearch
      <3> QED
        BY <3>1, <3>2 DEF ReaderType
    <2>2. CASE OpenIndex
      BY <2>2, FilesTyped DEF Typed, ReaderType, OpenIndex
    <2>3. CASE ReadMetadata
      BY <1>1, <2>3 DEF Typed, ReaderType, ReadMetadata
    <2> QED
      BY <2>1, <2>2, <2>3 DEF Searching
  <1>3. UNCHANGED <<dirVars, fileVars, task, writer, compactor, history>>
    BY DEF Searching, RequireArtifacts, OpenIndex, ReadMetadata, EndSearch, Searches
  <1> QED
    BY <1>2, <1>3 DEF Typed, DirType, FileType, WriterType, CompactorType, HistoryType, CountType, FlagType,
       dirVars, fileVars, history

LEMMA StepTyped == Typed /\ [Next]_vars => Typed'
  <1>1. ASSUME Typed, Next PROVE Typed'
    BY <1>1, BuildTyped, CallTyped, ControlTyped, CompactorTyped, SearchTyped DEF Next, WriterStep
  <1>2. ASSUME Typed, UNCHANGED vars PROVE Typed'
    BY <1>2 DEF vars, dirVars, fileVars, history, Typed, DirType, FileType, WriterType, CompactorType, ReaderType, HistoryType,
                CountType, FlagType
  <1> QED
    BY <1>1, <1>2
-----------------------------------------------------------------------------
(* Where the directories are at each stage of the writer *)

\* The directories a loop that puts processed first has still to go through.
Todos == {Dirs, {"index"}, {}}

SavingInv ==
    writer.at = "saving" =>
        /\ writer.todo \in Todos /\ writer.placed = {} /\ writer.saved \cap writer.todo = {}
        /\ \A d \in Dirs : staging[d] = built /\ live[d] < built /\ (d \notin writer.todo => live[d] = None)

ReplacingInv ==
    writer.at = "replacing" =>
        /\ writer.todo \in Todos /\ writer.placed = Dirs \ writer.todo
        /\ \A d \in Dirs : IF d \in writer.todo THEN staging[d] = built /\ live[d] = None
                                                ELSE staging[d] = None /\ live[d] = built

CleaningInv == writer.at = "cleaning" => \A d \in Dirs : staging[d] = None /\ live[d] = built

\* Only processed can be placed when a call of the second loop fails.
UndoingInv ==
    writer.at = "undoing" =>
        /\ writer.todo \subseteq writer.placed /\ writer.placed \subseteq {"processed"}
        /\ writer.todo # {} => live["index"] = None
        /\ \A d \in (writer.saved \cup writer.placed) \ writer.todo : live[d] = None

RestoringInv ==
    writer.at = "restoring" => writer.todo \subseteq writer.saved /\ \A d \in writer.todo : live[d] = None

\* A lost writer does not come back; otherwise no attempt leaves staging behind.
RestInv ==
    /\ lost => writer.at = "idle"
    /\ writer.at \in {"idle", "failed"} /\ ~lost => \A d \in Dirs : staging[d] = None

\* No version is newer than the last that was built.
BuiltInv == \A d \in Dirs : live[d] <= built /\ \A t \in Tasks : backup[t][d] <= built

StageInv == SavingInv /\ ReplacingInv /\ CleaningInv /\ UndoingInv /\ RestoringInv /\ RestInv /\ BuiltInv

\* The first two loops take processed, then index.
LEMMA FirstOf ==
    ASSUME NEW todo \in Todos, todo # {}, NEW d, d = First(todo)
    PROVE  /\ d \in todo /\ todo \ {d} \in Todos
           /\ (d = "processed" => todo = Dirs) /\ (d = "index" => todo = {"index"})
  BY DEF Todos, First, Dirs

LEMMA FinalOf ==
    ASSUME NEW todo \in SUBSET Dirs, todo # {}, NEW d, d = Final(todo)
    PROVE  d \in todo
  BY DEF Final, Dirs

LEMMA InitStage == Init => StageInv
  <1> SUFFICES ASSUME Init PROVE StageInv
    OBVIOUS
  <1>1. \A d \in Dirs : live[d] <= 1 /\ staging[d] = None /\ \A t \in Tasks : backup[t][d] = 0
    BY DEF Init, None, Legacy
  <1> QED
    BY <1>1 DEF Init, AtRest, StageInv, SavingInv, ReplacingInv, CleaningInv, UndoingInv, RestoringInv, RestInv, BuiltInv

\* Versions are numbers.
LEMMA Numbers ==
    ASSUME Typed
    PROVE  /\ built \in Nat \ {0} /\ None = 0
           /\ \A d \in Dirs : live[d] \in Nat /\ staging[d] \in Nat /\ \A t \in Tasks : backup[t][d] \in Nat
           /\ task \in Tasks
  BY DEF Typed, HistoryType, CountType, DirType, WriterType, MaybeVersion, Versions, None

LEMMA BuildStage == ASSUME Typed, StageInv, NEW t \in Tasks, Build(t) PROVE StageInv'
  <1>1. /\ writer' = [AtRest EXCEPT !.at = "saving", !.todo = Dirs]
        /\ built' = built + 1 /\ staging' = [d \in Dirs |-> built + 1] /\ UNCHANGED <<live, backup, lost>> /\ ~lost
    BY DEF Build
  <1>2. writer'.at = "saving" /\ writer'.todo = Dirs /\ writer'.saved = {} /\ writer'.placed = {}
    BY <1>1 DEF AtRest
  <1>3. \A d \in Dirs : live'[d] < built'
    BY <1>1, Numbers DEF StageInv, BuiltInv
  <1>4. BuiltInv'
    BY <1>1, Numbers DEF StageInv, BuiltInv
  <1> QED
    BY <1>1, <1>2, <1>3, <1>4 DEF StageInv, SavingInv, ReplacingInv, CleaningInv, UndoingInv, RestoringInv, RestInv, Todos

LEMMA SavingStage ==
    ASSUME Typed, StageInv, NEW d \in Dirs, ClearBackup(d) \/ SaveLive(d)
    PROVE  StageInv'
  <1>1. /\ writer.at = "saving" /\ writer.todo # {} /\ d = First(writer.todo)
        /\ UNCHANGED <<task, built, lost, staging>>
    BY DEF ClearBackup, SaveLive, At
  <1>2. writer.todo \in Todos /\ writer.todo \in SUBSET Dirs /\ d \in writer.todo /\ writer.todo \ {d} \in Todos
    BY <1>1, FirstOf DEF StageInv, SavingInv, Typed, WriterType
  <1>3. CASE ClearBackup(d)
    <2>1. UNCHANGED <<live, writer>> /\ backup' = [backup EXCEPT ![task][d] = None]
      BY <1>3 DEF ClearBackup
    <2>2. BuiltInv'
      BY <1>1, <2>1, Numbers DEF StageInv, BuiltInv, Typed, DirType
    <2> QED
      BY <1>1, <2>1, <2>2 DEF StageInv, SavingInv, ReplacingInv, CleaningInv, UndoingInv, RestoringInv, RestInv
  <1>4. CASE SaveLive(d)
    <2>1. /\ live' = [live EXCEPT ![d] = None] /\ backup' = [backup EXCEPT ![task][d] = live[d]]
          /\ writer' = [writer EXCEPT !.todo = @ \ {d}, !.saved = IF live[d] = None THEN @ ELSE @ \cup {d}]
      BY <1>4 DEF SaveLive
    <2>2. /\ writer'.at = "saving" /\ writer'.todo = writer.todo \ {d} /\ writer'.placed = writer.placed
          /\ writer'.saved \subseteq writer.saved \cup {d}
      BY <1>1, <2>1 DEF Typed, WriterType
    <2>3. BuiltInv'
      BY <1>1, <2>1, Numbers DEF StageInv, BuiltInv, Typed, DirType
    <2>4. SavingInv'
      BY <1>1, <1>2, <2>1, <2>2, Numbers DEF StageInv, SavingInv, Typed, DirType
    <2> QED
      BY <1>1, <2>2, <2>3, <2>4 DEF StageInv, ReplacingInv, CleaningInv, UndoingInv, RestoringInv, RestInv
  <1> QED
    BY <1>3, <1>4

LEMMA ReplacingStage == ASSUME Typed, StageInv, NEW d \in Dirs, Replace(d) PROVE StageInv'
  <1>1. /\ writer.at = "replacing" /\ writer.todo # {} /\ d = First(writer.todo)
        /\ UNCHANGED <<built, lost, backup>>
        /\ live' = [live EXCEPT ![d] = staging[d]] /\ staging' = [staging EXCEPT ![d] = None]
        /\ writer' = [writer EXCEPT !.todo = @ \ {d}, !.placed = @ \cup {d}]
    BY DEF Replace, At
  <1>2. writer.todo \in Todos /\ d \in writer.todo /\ writer.todo \ {d} \in Todos
    BY <1>1, FirstOf DEF StageInv, ReplacingInv
  <1>3. writer'.at = "replacing" /\ writer'.todo = writer.todo \ {d} /\ writer'.placed = writer.placed \cup {d}
    BY <1>1 DEF Typed, WriterType
  <1>4. ReplacingInv'
    BY <1>1, <1>2, <1>3 DEF StageInv, ReplacingInv, Typed, DirType
  <1>5. BuiltInv'
    BY <1>1, <1>2, Numbers DEF StageInv, ReplacingInv, BuiltInv, Typed, DirType
  <1> QED
    BY <1>1, <1>3, <1>4, <1>5 DEF StageInv, SavingInv, CleaningInv, UndoingInv, RestoringInv, RestInv

LEMMA CleaningStage == ASSUME Typed, StageInv, NEW d \in Dirs, RemoveBackup(d) PROVE StageInv'
  <1>1. /\ writer.at = "cleaning" /\ UNCHANGED <<built, lost, live, staging>> /\ backup' = [backup EXCEPT ![task][d] = None]
        /\ writer' = [writer EXCEPT !.todo = @ \ {d}]
    BY DEF RemoveBackup, At
  <1>2. writer'.at = "cleaning"
    BY <1>1 DEF Typed, WriterType
  <1>3. BuiltInv'
    BY <1>1, Numbers DEF StageInv, BuiltInv, Typed, DirType
  <1> QED
    BY <1>1, <1>2, <1>3 DEF StageInv, SavingInv, ReplacingInv, CleaningInv, UndoingInv, RestoringInv, RestInv

LEMMA UndoingStage == ASSUME Typed, StageInv, NEW d \in Dirs, Undo(d) PROVE StageInv'
  <1>1. /\ writer.at = "undoing" /\ writer.todo # {} /\ d = Final(writer.todo)
        /\ UNCHANGED <<built, lost, staging, backup>> /\ live' = [live EXCEPT ![d] = None]
        /\ writer' = [writer EXCEPT !.todo = @ \ {d}]
    BY DEF Undo, At
  <1>2. d \in writer.todo
    BY <1>1, FinalOf DEF Typed, WriterType
  <1>3. writer'.at = "undoing" /\ writer'.todo = writer.todo \ {d} /\ writer'.saved = writer.saved /\ writer'.placed = writer.placed
    BY <1>1 DEF Typed, WriterType
  <1>4. UndoingInv'
    BY <1>1, <1>2, <1>3 DEF StageInv, UndoingInv, Typed, DirType, Dirs
  <1>5. BuiltInv'
    BY <1>1, Numbers DEF StageInv, BuiltInv, Typed, DirType
  <1> QED
    BY <1>1, <1>3, <1>4, <1>5 DEF StageInv, SavingInv, ReplacingInv, CleaningInv, RestoringInv, RestInv

LEMMA RestoringStage == ASSUME Typed, StageInv, NEW d \in Dirs, Restore(d) PROVE StageInv'
  <1>1. /\ writer.at = "restoring" /\ writer.todo # {} /\ d = Final(writer.todo)
        /\ UNCHANGED <<built, lost, staging>> /\ live' = [live EXCEPT ![d] = backup[task][d]]
        /\ backup' = [backup EXCEPT ![task][d] = None]
        /\ writer' = [writer EXCEPT !.todo = @ \ {d}]
    BY DEF Restore, At
  <1>2. d \in writer.todo
    BY <1>1, FinalOf DEF Typed, WriterType
  <1>3. writer'.at = "restoring" /\ writer'.todo = writer.todo \ {d} /\ writer'.saved = writer.saved
    BY <1>1 DEF Typed, WriterType
  <1>4. RestoringInv'
    BY <1>1, <1>2, <1>3 DEF StageInv, RestoringInv, Typed, DirType, WriterType
  <1>5. BuiltInv'
    BY <1>1, Numbers DEF StageInv, BuiltInv, Typed, DirType
  <1> QED
    BY <1>1, <1>3, <1>4, <1>5 DEF StageInv, SavingInv, ReplacingInv, CleaningInv, UndoingInv, RestInv

\* Loops end, calls fail, the attempt is given up or its process dies.
LEMMA ControlStage == ASSUME Typed, StageInv, NextLoop \/ PublishRaises \/ Abort \/ WriterLost PROVE StageInv'
  <1>1. UNCHANGED <<live, backup, built>> /\ BuiltInv'
    BY DEF NextLoop, PublishRaises, Abort, WriterLost, dirVars, history, StageInv, BuiltInv
  <1>2. CASE NextLoop
    <2>1. UNCHANGED <<staging, lost>> /\ writer.todo = {}
      BY <1>2 DEF NextLoop, dirVars, history
    <2>2. CASE writer.at = "saving" /\ Goes("replacing", Dirs)
      <3>1. writer'.at = "replacing" /\ writer'.todo = Dirs /\ writer'.placed = writer.placed
        BY <2>2, WriterGoes DEF Typed, Stages
      <3> QED
        BY <1>1, <2>1, <2>2, <3>1 DEF StageInv, SavingInv, ReplacingInv, CleaningInv, UndoingInv, RestoringInv, RestInv, Todos
    <2>3. CASE writer.at = "replacing" /\ Goes("cleaning", writer.saved)
      <3>1. writer'.at = "cleaning"
        BY <2>3, WriterGoes DEF Typed, Stages, WriterType
      <3> QED
        BY <1>1, <2>1, <2>3, <3>1 DEF StageInv, SavingInv, ReplacingInv, CleaningInv, UndoingInv, RestoringInv, RestInv
    <2>4. CASE writer.at = "cleaning" /\ writer' = AtRest
      BY <1>1, <2>1, <2>4 DEF AtRest, StageInv, SavingInv, ReplacingInv, CleaningInv, UndoingInv, RestoringInv, RestInv
    <2>5. CASE writer.at = "undoing" /\ Goes("restoring", writer.saved)
      <3>1. writer'.at = "restoring" /\ writer'.todo = writer.saved /\ writer'.saved = writer.saved
        BY <2>5, WriterGoes DEF Typed, Stages, WriterType
      <3> QED
        BY <1>1, <2>1, <2>5, <3>1 DEF StageInv, SavingInv, ReplacingInv, CleaningInv, UndoingInv, RestoringInv, RestInv
    <2>6. CASE writer.at = "restoring" /\ Goes("aborting", {})
      <3>1. writer'.at = "aborting"
        BY <2>6, WriterGoes DEF Typed, Stages
      <3> QED
        BY <1>1, <2>1, <2>6, <3>1 DEF StageInv, SavingInv, ReplacingInv, CleaningInv, UndoingInv, RestoringInv, RestInv
    <2> QED
      BY <1>2, <2>2, <2>3, <2>4, <2>5, <2>6 DEF NextLoop
  <1>3. CASE PublishRaises
    <2>1. UNCHANGED <<staging, lost>> /\ writer.todo # {} /\ writer.at \notin {"idle", "failed"}
      BY <1>3 DEF PublishRaises, dirVars
    <2>2. CASE writer.at \in {"saving", "replacing"} /\ Goes("undoing", writer.placed)
      <3>1. writer'.at = "undoing" /\ writer'.todo = writer.placed /\ writer'.saved = writer.saved /\ writer'.placed = writer.placed
        BY <2>2, WriterGoes DEF Typed, Stages, WriterType
      <3>2. UndoingInv'
        BY <1>1, <2>1, <2>2, <3>1 DEF StageInv, SavingInv, ReplacingInv, UndoingInv, Todos, Dirs, Typed, WriterType
      <3> QED
        BY <1>1, <2>1, <2>2, <3>1, <3>2 DEF StageInv, SavingInv, ReplacingInv, CleaningInv, RestoringInv, RestInv
    <2>3. CASE Goes("aborting", {})
      <3>1. writer'.at = "aborting"
        BY <2>3, WriterGoes DEF Typed, Stages
      <3> QED
        BY <1>1, <2>1, <3>1 DEF StageInv, SavingInv, ReplacingInv, CleaningInv, UndoingInv, RestoringInv, RestInv
    <2> QED
      BY <1>3, <2>2, <2>3 DEF PublishRaises
  <1>4. CASE Abort
    <2>1. writer'.at = "failed" /\ (\A d \in Dirs : staging'[d] = None) /\ ~lost'
      BY <1>4 DEF Abort, AtRest, history, StageInv, RestInv
    <2> QED
      BY <1>1, <2>1 DEF StageInv, SavingInv, ReplacingInv, CleaningInv, UndoingInv, RestoringInv, RestInv
  <1>5. CASE WriterLost
    <2>1. writer'.at = "idle" /\ lost'
      BY <1>5 DEF WriterLost, AtRest
    <2> QED
      BY <1>1, <2>1 DEF StageInv, SavingInv, ReplacingInv, CleaningInv, UndoingInv, RestoringInv, RestInv
  <1> QED
    BY <1>2, <1>3, <1>4, <1>5

LEMMA StepStage == Typed /\ StageInv /\ [Next]_vars => StageInv'
  <1>1. ASSUME UNCHANGED <<dirVars, task, writer, built, lost>>, StageInv PROVE StageInv'
    BY <1>1 DEF dirVars, StageInv, SavingInv, ReplacingInv, CleaningInv, UndoingInv, RestoringInv, RestInv, BuiltInv
  <1>2. CompactorStep => UNCHANGED <<dirVars, task, writer, built, lost>>
    BY DEF CompactorStep, Compaction, BuildPilot, CheckPilot, LinkBackup, PublishIndex,
           PublishArchive, InspectPublished, CompactionRaises, UndoArchive, UndoIndex, RestoreIndex, Unlink,
           CompactionBreaksOff, CompactorLost
  <1>3. Searching \/ UNCHANGED vars => UNCHANGED <<dirVars, task, writer, built, lost>>
    BY DEF Searching, Searches, RequireArtifacts, OpenIndex, ReadMetadata, EndSearch, history, vars
  <1> QED
    BY <1>1, <1>2, <1>3, BuildStage, SavingStage, ReplacingStage, CleaningStage, UndoingStage, RestoringStage, ControlStage
       DEF Next, WriterStep

-----------------------------------------------------------------------------
(* The version a roll-back would bring back *)

\* A call of the first two loops can still be undone.
Undoable == writer.at \in {"saving", "undoing"} \/ (writer.at = "replacing" /\ writer.todo # {})

\* The directories whose former version is in the backup of the task.
Aside == IF Undoable THEN writer.saved ELSE IF writer.at = "restoring" THEN writer.todo ELSE {}

Former(d) ==
    IF d \in Aside THEN backup[task][d] ELSE IF Undoable /\ d \in writer.placed THEN None ELSE live[d]

\* What stands at a path is what a roll-back leaves there, or nothing; a new
\* processed directory stands alone.
LEMMA LiveIs ==
    Typed /\ StageInv =>
        /\ live["index"] \in {None, Former("index")}
        /\ live["processed"] \in {None, Former("processed")} \/ live["index"] = None
  <1> SUFFICES ASSUME Typed, StageInv
               PROVE  /\ live["index"] \in {None, Former("index")}
                      /\ live["processed"] \in {None, Former("processed")} \/ live["index"] = None
    OBVIOUS
  <1> USE DEF Former
  <1>1. CASE writer.at = "saving"
    BY <1>1 DEF StageInv, SavingInv, Aside, Undoable, Dirs, Typed, WriterType
  <1>2. CASE writer.at = "replacing" /\ writer.todo # {}
    <2>1. writer.todo \in {Dirs, {"index"}} /\ live["index"] = None
      BY <1>2 DEF StageInv, ReplacingInv, Todos, Dirs
    <2> QED
      BY <2>1
  <1>3. CASE writer.at = "undoing"
    <2>1. "index" \in writer.saved => live["index"] = None
      BY <1>3 DEF StageInv, UndoingInv, Dirs
    <2>2. "index" \notin writer.placed
      BY <1>3 DEF StageInv, UndoingInv
    <2>3. live["index"] # None => \A e \in writer.saved \cup writer.placed : live[e] = None
      BY <1>3 DEF StageInv, UndoingInv
    <2> QED
      BY <1>3, <2>1, <2>2, <2>3 DEF Aside, Undoable
  <1>4. CASE writer.at = "restoring"
    BY <1>4 DEF StageInv, RestoringInv, Aside, Undoable
  <1>5. CASE writer.at \in {"idle", "failed", "cleaning", "aborting"} \/ (writer.at = "replacing" /\ writer.todo = {})
    BY <1>5 DEF Aside, Undoable
  <1> QED
    BY <1>1, <1>2, <1>3, <1>4, <1>5 DEF Typed, WriterType, Stages

\* What a step of the writer can do to it: nothing, the last rename of the
\* exchange, or an end that leaves the directories as they are.
Exchanged == \A d \in Dirs : live'[d] = built /\ Former(d)' = built
LeftAsIs == (broken' \/ lost') /\ \A d \in Dirs : live'[d] = live[d] /\ Former(d)' = live[d]
SameFormer == \A d \in Dirs : Former(d)' = Former(d)

LEMMA SavingFormer == ASSUME Typed, StageInv, NEW d \in Dirs, ClearBackup(d) \/ SaveLive(d) PROVE SameFormer
  <1>1. writer.at = "saving" /\ writer.todo # {} /\ d = First(writer.todo) /\ UNCHANGED task
    BY DEF ClearBackup, SaveLive, At
  <1>2. d \in writer.todo /\ d \notin writer.saved /\ writer.placed = {}
    BY <1>1, FirstOf DEF StageInv, SavingInv
  <1>3. task \in Tasks /\ backup \in [Tasks -> [Dirs -> MaybeVersion]] /\ live \in [Dirs -> MaybeVersion]
    BY DEF Typed, WriterType, DirType
  <1>4. CASE ClearBackup(d)
    <2>1. UNCHANGED <<live, writer>> /\ \A e \in Dirs : e # d => backup'[task][e] = backup[task][e]
      BY <1>3, <1>4 DEF ClearBackup
    <2> QED
      BY <1>1, <1>2, <2>1 DEF SameFormer, Former, Aside, Undoable
  <1>5. CASE SaveLive(d)
    <2>1. /\ \A e \in Dirs : e # d => backup'[task][e] = backup[task][e] /\ live'[e] = live[e]
          /\ backup'[task][d] = live[d] /\ live'[d] = None
      BY <1>3, <1>5 DEF SaveLive
    <2>2. /\ writer'.at = "saving" /\ writer'.placed = {}
          /\ writer'.saved = IF live[d] = None THEN writer.saved ELSE writer.saved \cup {d}
      BY <1>1, <1>2, <1>5 DEF SaveLive, Typed, WriterType
    <2> QED
      BY <1>1, <1>2, <2>1, <2>2 DEF SameFormer, Former, Aside, Undoable
  <1> QED
    BY <1>4, <1>5

LEMMA ReplacingFormer ==
    ASSUME Typed, StageInv, NEW d \in Dirs, Replace(d)
    PROVE  IF d = "processed" THEN SameFormer /\ live'["index"] = live["index"] /\ live'["processed"] = built ELSE Exchanged
  <1>1. /\ writer.at = "replacing" /\ writer.todo # {} /\ d = First(writer.todo)
        /\ UNCHANGED <<task, built, backup>>
        /\ live' = [live EXCEPT ![d] = staging[d]]
        /\ writer' = [writer EXCEPT !.todo = @ \ {d}, !.placed = @ \cup {d}]
    BY DEF Replace, At
  <1>2. /\ d \in writer.todo /\ writer.todo \ {d} \in Todos
        /\ (d = "processed" => writer.todo = Dirs) /\ (d = "index" => writer.todo = {"index"})
    BY <1>1, FirstOf DEF StageInv, ReplacingInv
  <1>3. /\ writer'.at = "replacing" /\ writer'.todo = writer.todo \ {d} /\ writer'.placed = writer.placed \cup {d}
        /\ writer'.saved = writer.saved
    BY <1>1 DEF Typed, WriterType
  <1>4. live'[d] = built /\ \A e \in Dirs : e # d => live'[e] = live[e]
    BY <1>1, <1>2 DEF StageInv, ReplacingInv, Typed, DirType
  <1>5. CASE d = "processed"
    <2>1. Undoable /\ Undoable' /\ live["processed"] = None /\ "index" \notin writer'.placed /\ writer.placed = {}
      BY <1>1, <1>2, <1>3, <1>5 DEF Undoable, StageInv, ReplacingInv, Dirs
    <2> QED
      BY <1>1, <1>3, <1>4, <1>5, <2>1 DEF SameFormer, Former, Aside, Dirs
  <1>6. CASE d = "index"
    <2>1. writer'.todo = {} /\ live["processed"] = built
      BY <1>1, <1>2, <1>3, <1>6 DEF StageInv, ReplacingInv, Dirs
    <2>2. ~Undoable' /\ Aside' = {}
      BY <1>3, <2>1 DEF Undoable, Aside
    <2> QED
      BY <1>1, <1>4, <1>6, <2>1, <2>2 DEF Exchanged, Former, Dirs
  <1> QED
    BY <1>5, <1>6 DEF Dirs

LEMMA UndoingFormer ==
    ASSUME Typed, StageInv, NEW d \in Dirs, RemoveBackup(d) \/ Undo(d)
    PROVE  SameFormer
  <1>1. task \in Tasks /\ backup \in [Tasks -> [Dirs -> MaybeVersion]] /\ live \in [Dirs -> MaybeVersion]
    BY DEF Typed, WriterType, DirType
  <1>2. CASE RemoveBackup(d)
    <2>1. writer.at = "cleaning" /\ writer'.at = "cleaning" /\ UNCHANGED live
      BY <1>2 DEF RemoveBackup, At, Typed, WriterType
    <2> QED
      BY <2>1 DEF SameFormer, Former, Aside, Undoable
  <1>3. CASE Undo(d)
    <2>1. writer.at = "undoing" /\ writer.todo # {} /\ d = Final(writer.todo) /\ UNCHANGED <<task, backup>>
      BY <1>3 DEF Undo, At
    <2>2. d \in writer.todo /\ d \in writer.placed
      BY <2>1, FinalOf DEF Typed, WriterType, StageInv, UndoingInv
    <2>3. writer'.at = "undoing" /\ writer'.saved = writer.saved /\ writer'.placed = writer.placed
      BY <1>3, <2>1 DEF Undo, Typed, WriterType
    <2>4. \A e \in Dirs : e # d => live'[e] = live[e]
      BY <1>1, <1>3 DEF Undo
    <2> QED
      BY <2>1, <2>2, <2>3, <2>4 DEF SameFormer, Former, Aside, Undoable
  <1> QED
    BY <1>2, <1>3

LEMMA RestoringFormer ==
    ASSUME Typed, StageInv, NEW d \in Dirs, Restore(d)
    PROVE  SameFormer /\ live' = [live EXCEPT ![d] = Former(d)]
  <1>1. task \in Tasks /\ backup \in [Tasks -> [Dirs -> MaybeVersion]] /\ live \in [Dirs -> MaybeVersion]
    BY DEF Typed, WriterType, DirType
  <1>2. writer.at = "restoring" /\ writer.todo # {} /\ d = Final(writer.todo) /\ UNCHANGED task
    BY DEF Restore, At
  <1>3. d \in writer.todo
    BY <1>2, FinalOf DEF Typed, WriterType
  <1>4. writer'.at = "restoring" /\ writer'.todo = writer.todo \ {d}
    BY <1>2 DEF Restore, Typed, WriterType
  <1>5. live'[d] = backup[task][d] /\ \A e \in Dirs : e # d => live'[e] = live[e] /\ backup'[task][e] = backup[task][e]
    BY <1>1 DEF Restore
  <1>6. Former(d) = backup[task][d]
    BY <1>2, <1>3 DEF Former, Aside, Undoable
  <1> QED
    BY <1>2, <1>3, <1>4, <1>5, <1>6 DEF SameFormer, Former, Aside, Undoable, Restore

LEMMA ControlFormer ==
    ASSUME Typed, StageInv, NextLoop \/ PublishRaises \/ Abort \/ WriterLost
    PROVE  UNCHANGED <<live, backup, task, built>> /\ (SameFormer \/ LeftAsIs)
  <1>1. UNCHANGED <<live, backup, task, built>>
    BY DEF NextLoop, PublishRaises, Abort, WriterLost, dirVars, history
  <1>2. CASE NextLoop
    <2>1. CASE writer.at = "saving" /\ Goes("replacing", Dirs)
      <3>1. writer'.at = "replacing" /\ writer'.todo # {} /\ writer'.saved = writer.saved /\ writer'.placed = writer.placed
        BY <2>1, WriterGoes DEF Typed, Stages, Dirs
      <3> QED
        BY <1>1, <2>1, <3>1 DEF SameFormer, Former, Aside, Undoable
    <2>2. CASE writer.at = "replacing" /\ writer.todo = {} /\ Goes("cleaning", writer.saved)
      <3>1. writer'.at = "cleaning"
        BY <2>2, WriterGoes DEF Typed, Stages, WriterType
      <3> QED
        BY <1>1, <2>2, <3>1 DEF SameFormer, Former, Aside, Undoable
    <2>3. CASE writer.at = "cleaning" /\ writer' = AtRest
      BY <1>1, <2>3 DEF AtRest, SameFormer, Former, Aside, Undoable
    <2>4. CASE writer.at = "undoing" /\ writer.todo = {} /\ Goes("restoring", writer.saved)
      <3>1. writer'.at = "restoring" /\ writer'.todo = writer.saved
        BY <2>4, WriterGoes DEF Typed, Stages, WriterType
      <3>2. \A d \in Dirs : d \in writer.placed => live[d] = None
        BY <2>4 DEF StageInv, UndoingInv
      <3> QED
        BY <1>1, <2>4, <3>1, <3>2 DEF SameFormer, Former, Aside, Undoable
    <2>5. CASE writer.at = "restoring" /\ writer.todo = {} /\ Goes("aborting", {})
      <3>1. writer'.at = "aborting"
        BY <2>5, WriterGoes DEF Typed, Stages
      <3> QED
        BY <1>1, <2>5, <3>1 DEF SameFormer, Former, Aside, Undoable
    <2> QED
      BY <1>1, <1>2, <2>1, <2>2, <2>3, <2>4, <2>5 DEF NextLoop
  <1>3. CASE PublishRaises
    <2>1. CASE writer.at \in {"saving", "replacing"} /\ writer.todo # {} /\ Goes("undoing", writer.placed)
      <3>1. writer'.at = "undoing" /\ writer'.saved = writer.saved /\ writer'.placed = writer.placed
        BY <2>1, WriterGoes DEF Typed, Stages, WriterType
      <3> QED
        BY <1>1, <2>1, <3>1 DEF SameFormer, Former, Aside, Undoable
    <2>2. CASE writer.at \in {"cleaning", "undoing", "restoring"} /\ Goes("aborting", {})
      <3>1. writer'.at = "aborting" /\ (writer.at # "cleaning" => broken')
        BY <1>3, <2>2, WriterGoes DEF PublishRaises, Typed, Stages
      <3> QED
        BY <1>1, <2>2, <3>1 DEF SameFormer, LeftAsIs, Former, Aside, Undoable
    <2> QED
      BY <1>1, <1>3, <2>1, <2>2 DEF PublishRaises, Typed, WriterType, Stages
  <1>4. CASE Abort
    <2>1. writer.at = "aborting" /\ writer'.at = "failed"
      BY <1>4 DEF Abort, AtRest
    <2> QED
      BY <1>1, <2>1 DEF SameFormer, Former, Aside, Undoable
  <1>5. CASE WriterLost
    <2>1. writer'.at = "idle" /\ lost'
      BY <1>5 DEF WriterLost, AtRest
    <2> QED
      BY <1>1, <2>1 DEF LeftAsIs, Former, Aside, Undoable
  <1> QED
    BY <1>1, <1>2, <1>3, <1>4, <1>5

LEMMA BuildFormer == ASSUME Typed, NEW t \in Tasks, Build(t) PROVE SameFormer /\ UNCHANGED <<live, backup>>
  <1>1. writer.at \in {"idle", "failed"} /\ UNCHANGED <<live, backup>>
    BY DEF Build
  <1>2. writer'.at = "saving" /\ writer'.saved = {} /\ writer'.placed = {}
    BY DEF Build, AtRest
  <1> QED
    BY <1>1, <1>2 DEF SameFormer, Former, Aside, Undoable

-----------------------------------------------------------------------------
(* One version *)

Unmixed(v, w) == v = None \/ w = None \/ v = w

\* While the writer can roll back, the former version is older than the new one.
Replacing == writer.at = "saving" \/ (writer.at = "replacing" /\ writer.todo # {})

VersionInv ==
    /\ Unmixed(Former("processed"), Former("index"))
    /\ (~broken /\ ~lost) =>
          /\ Former("processed") = Former("index")
          /\ \A t \in Tasks : backup[t]["index"] <= Former("index")
    /\ (~broken /\ live["index"] # None) => \A t \in Tasks : backup[t]["index"] <= live["index"]
    /\ Replacing => built > 1 /\ \A d \in Dirs : Former(d) < built

\* The index never stands beside the texts of another version.
LEMMA LiveUnmixed == Typed /\ StageInv /\ VersionInv => Unmixed(live["processed"], live["index"])
  BY LiveIs DEF VersionInv, Unmixed

LEMMA InitVersion == Init => VersionInv
  <1> SUFFICES ASSUME Init PROVE VersionInv
    OBVIOUS
  <1>1. ~Undoable /\ Aside = {} /\ ~Replacing
    BY DEF Init, AtRest, Undoable, Aside, Replacing
  <1>2. PICK v \in {None} \cup Legacy : live = [d \in Dirs |-> v]
    BY DEF Init
  <1>3. v \in Nat /\ \A d \in Dirs : Former(d) = v /\ live[d] = v
    BY <1>1, <1>2 DEF Former, None, Legacy
  <1>4. \A t \in Tasks : backup[t]["index"] = 0
    BY DEF Init, Dirs, None
  <1> QED
    BY <1>1, <1>3, <1>4 DEF VersionInv, Unmixed, Dirs

FormerNumbers == \A d \in Dirs : Former(d) \in Nat

LEMMA FormerIsNumber == Typed => FormerNumbers
  BY Numbers DEF FormerNumbers, Former

\* The index and its backups, in one step of the writer.
IndexStep ==
    /\ live'["index"] \in {None, live["index"]} \/ Exchanged
       \/ (live'["index"] = Former("index") /\ UNCHANGED lost /\ SameFormer)
    /\ \A t \in Tasks :
          \/ backup'[t]["index"] \in {None, backup[t]["index"]}
          \/ backup'[t]["index"] = live["index"] /\ live'["index"] = None /\ SameFormer

LEMMA WriterVersions ==
    ASSUME Typed, StageInv, WriterStep
    PROVE  /\ ~lost /\ (broken => broken') /\ built <= built'
           /\ SameFormer \/ LeftAsIs \/ (Exchanged /\ Replacing /\ built' = built)
           /\ IndexStep
           /\ Replacing' => \/ Replacing /\ built' = built /\ SameFormer
                            \/ built' = built + 1 /\ SameFormer /\ ~Replacing /\ ~Undoable /\ Aside = {}
  <1>0. built \in Nat /\ built > 0 /\ task \in Tasks /\ backup \in [Tasks -> [Dirs -> MaybeVersion]]
        /\ live \in [Dirs -> MaybeVersion] /\ "index" \in Dirs /\ \A t \in Tasks : backup[t] \in [Dirs -> MaybeVersion]
    BY Numbers DEF Typed, DirType, Dirs
  <1>1. CASE \E t \in Tasks : Build(t)
    <2>1. PICK t \in Tasks : Build(t)
      BY <1>1
    <2>2. SameFormer /\ UNCHANGED <<live, backup>>
      BY <2>1, BuildFormer
    <2>3. ~lost /\ UNCHANGED broken /\ built' = built + 1 /\ writer.at \in {"idle", "failed"}
      BY <2>1 DEF Build
    <2>4. ~Replacing /\ ~Undoable /\ Aside = {}
      BY <2>3 DEF Replacing, Undoable, Aside
    <2>5. IndexStep
      BY <2>2 DEF IndexStep
    <2> QED
      BY <1>0, <2>2, <2>3, <2>4, <2>5
  <1>2. CASE \E d \in Dirs : ClearBackup(d) \/ SaveLive(d)
    <2>1. PICK d \in Dirs : ClearBackup(d) \/ SaveLive(d)
      BY <1>2
    <2>2. SameFormer
      BY <2>1, SavingFormer
    <2>3. writer.at = "saving" /\ UNCHANGED <<lost, broken, built, task>>
      BY <2>1 DEF ClearBackup, SaveLive, At
    <2>4. ~lost /\ Replacing
      BY <2>3 DEF StageInv, RestInv, Replacing
    <2>5. IndexStep
      <3>1. CASE ClearBackup(d)
        <4>1. UNCHANGED live /\ \A t \in Tasks : backup'[t]["index"] \in {None, backup[t]["index"]}
          BY <1>0, <3>1 DEF ClearBackup
        <4> QED
          BY <4>1 DEF IndexStep
      <3>2. CASE SaveLive(d)
        <4>1. live'["index"] \in {None, live["index"]}
          BY <1>0, <3>2 DEF SaveLive
        <4>2. \A t \in Tasks : backup'[t]["index"] = backup[t]["index"] \/ (backup'[t]["index"] = live["index"] /\ d = "index")
          BY <1>0, <3>2 DEF SaveLive
        <4>3. d = "index" => live'["index"] = None
          BY <1>0, <3>2 DEF SaveLive
        <4> QED
          BY <2>2, <4>1, <4>2, <4>3 DEF IndexStep
      <3> QED
        BY <2>1, <3>1, <3>2
    <2> QED
      BY <1>0, <2>2, <2>3, <2>4, <2>5
  <1>3. CASE \E d \in Dirs : Replace(d)
    <2>1. PICK d \in Dirs : Replace(d)
      BY <1>3
    <2>2. IF d = "processed" THEN SameFormer /\ live'["index"] = live["index"] /\ live'["processed"] = built ELSE Exchanged
      BY <2>1, ReplacingFormer
    <2>3. writer.at = "replacing" /\ writer.todo # {} /\ d = First(writer.todo) /\ UNCHANGED <<lost, broken, built, task, backup>>
      BY <2>1 DEF Replace, At
    <2>4. ~lost /\ Replacing
      BY <2>3 DEF StageInv, RestInv, Replacing
    <2>5. d # "processed" => ~Replacing'
      <3>1. writer.todo \in Todos /\ (d = "index" => writer.todo = {"index"})
        BY <2>3, FirstOf DEF StageInv, ReplacingInv
      <3>2. writer'.at = "replacing" /\ writer'.todo = writer.todo \ {d}
        BY <2>1, <2>3 DEF Replace, Typed, WriterType
      <3> QED
        BY <3>1, <3>2 DEF Replacing, Dirs
    <2>6. IndexStep
      BY <2>2, <2>3 DEF IndexStep
    <2> QED
      BY <1>0, <2>2, <2>3, <2>4, <2>5, <2>6
  <1>4. CASE \E d \in Dirs : RemoveBackup(d) \/ Undo(d)
    <2>1. PICK d \in Dirs : RemoveBackup(d) \/ Undo(d)
      BY <1>4
    <2>2. SameFormer
      BY <2>1, UndoingFormer
    <2>3. writer.at \in {"cleaning", "undoing"} /\ UNCHANGED <<lost, broken, built, task>>
      BY <2>1 DEF RemoveBackup, Undo, At
    <2>4. ~lost
      BY <2>3 DEF StageInv, RestInv
    <2>5. ~Replacing'
      BY <2>1, <2>3 DEF RemoveBackup, Undo, Replacing, Typed, WriterType
    <2>6. live'["index"] \in {None, live["index"]}
      BY <1>0, <2>1 DEF RemoveBackup, Undo
    <2>7. \A t \in Tasks : backup'[t]["index"] \in {None, backup[t]["index"]}
      BY <1>0, <2>1 DEF RemoveBackup, Undo
    <2>8. IndexStep
      BY <2>6, <2>7 DEF IndexStep
    <2> QED
      BY <1>0, <2>2, <2>3, <2>4, <2>5, <2>8
  <1>5. CASE \E d \in Dirs : Restore(d)
    <2>1. PICK d \in Dirs : Restore(d)
      BY <1>5
    <2>2. SameFormer /\ live' = [live EXCEPT ![d] = Former(d)]
      BY <2>1, RestoringFormer
    <2>3. writer.at = "restoring" /\ UNCHANGED <<lost, broken, built, task>>
      BY <2>1 DEF Restore, At
    <2>4. ~lost
      BY <2>3 DEF StageInv, RestInv
    <2>5. ~Replacing'
      BY <2>1, <2>3 DEF Restore, Replacing, Typed, WriterType
    <2>6. live'["index"] \in {Former("index"), live["index"]}
      BY <1>0, <2>2
    <2>7. \A t \in Tasks : backup'[t]["index"] \in {None, backup[t]["index"]}
      BY <1>0, <2>1 DEF Restore
    <2>8. IndexStep
      BY <2>2, <2>3, <2>6, <2>7 DEF IndexStep
    <2> QED
      BY <1>0, <2>2, <2>3, <2>4, <2>5, <2>8
  <1>6. CASE NextLoop \/ PublishRaises \/ Abort \/ WriterLost
    <2>1. UNCHANGED <<live, backup, task, built>> /\ (SameFormer \/ LeftAsIs)
      BY <1>6, ControlFormer
    <2>2. ~lost
      BY <1>6 DEF NextLoop, PublishRaises, Abort, WriterLost, StageInv, RestInv
    <2>3. broken => broken'
      BY <1>6 DEF NextLoop, PublishRaises, Abort, WriterLost, history
    <2>4. Replacing' => Replacing /\ SameFormer
      <3>1. CASE NextLoop
        <4>1. SUFFICES ASSUME Replacing' PROVE Replacing /\ SameFormer
          OBVIOUS
        <4>2. writer.at = "saving" /\ UNCHANGED <<broken, lost>>
          <5>1. CASE writer.at = "replacing" /\ Goes("cleaning", writer.saved)
            BY <4>1, <5>1, WriterGoes DEF Replacing, Typed, Stages, WriterType
          <5>2. CASE writer.at = "cleaning" /\ writer' = AtRest
            BY <4>1, <5>2 DEF AtRest, Replacing
          <5>3. CASE writer.at = "undoing" /\ Goes("restoring", writer.saved)
            BY <4>1, <5>3, WriterGoes DEF Replacing, Typed, Stages, WriterType
          <5>4. CASE writer.at = "restoring" /\ Goes("aborting", {})
            BY <4>1, <5>4, WriterGoes DEF Replacing, Typed, Stages
          <5> QED
            BY <3>1, <5>1, <5>2, <5>3, <5>4 DEF NextLoop, history
        <4>3. Goes("replacing", Dirs)
          BY <3>1, <4>2 DEF NextLoop
        <4>4. writer'.at = "replacing" /\ writer'.todo # {} /\ writer'.saved = writer.saved /\ writer'.placed = writer.placed
          BY <4>3, WriterGoes DEF Typed, Stages, Dirs
        <4> QED
          BY <2>1, <4>2, <4>4 DEF Replacing, SameFormer, Former, Aside, Undoable
      <3>2. CASE PublishRaises
        <4>1. Goes("undoing", writer.placed) \/ Goes("aborting", {})
          BY <3>2 DEF PublishRaises
        <4>2. writer'.at \in {"undoing", "aborting"}
          BY <4>1, WriterGoes DEF Typed, Stages, WriterType
        <4> QED
          BY <4>2 DEF Replacing
      <3>3. CASE Abort \/ WriterLost
        BY <3>3 DEF Abort, WriterLost, AtRest, Replacing
      <3> QED
        BY <1>6, <3>1, <3>2, <3>3
    <2>5. IndexStep
      BY <2>1 DEF IndexStep
    <2> QED
      BY <1>0, <2>1, <2>2, <2>3, <2>4, <2>5
  <1> QED
    BY <1>1, <1>2, <1>3, <1>4, <1>5, <1>6 DEF WriterStep

LEMMA WriterVersion == ASSUME Typed, StageInv, VersionInv, Typed', StageInv', WriterStep PROVE VersionInv'
  <1>1. /\ ~lost /\ (broken => broken') /\ built <= built'
        /\ SameFormer \/ LeftAsIs \/ (Exchanged /\ Replacing /\ built' = built)
        /\ IndexStep
        /\ Replacing' => \/ Replacing /\ built' = built /\ SameFormer
                         \/ built' = built + 1 /\ SameFormer /\ ~Replacing /\ ~Undoable /\ Aside = {}
    BY WriterVersions
  <1>2. FormerNumbers /\ "index" \in Dirs /\ "processed" \in Dirs
    BY FormerIsNumber DEF Dirs
  <1>3. Unmixed(Former("processed"), Former("index"))'
    <2>1. CASE SameFormer
      BY <1>2, <2>1 DEF VersionInv, SameFormer, Unmixed
    <2>2. CASE LeftAsIs
      BY <1>2, <2>2, LiveUnmixed DEF LeftAsIs, Unmixed
    <2>3. CASE Exchanged
      BY <1>2, <2>3 DEF Exchanged, Unmixed
    <2> QED
      BY <1>1, <2>1, <2>2, <2>3
  <1>4. (\A t \in Tasks : backup'[t]["index"] \in Nat /\ backup[t]["index"] \in Nat /\ backup[t]["index"] <= built)
        /\ built \in Nat /\ live["index"] \in Nat
    <2>1. \A t \in Tasks : backup'[t]["index"] \in Nat
      BY <1>2 DEF Typed, DirType, MaybeVersion, Versions, None
    <2> QED
      BY <1>2, <2>1, Numbers DEF StageInv, BuiltInv
  <1>5. live["index"] \in {None, Former("index")} /\ None = 0
    BY LiveIs DEF None
  <1>6. (~broken /\ ~lost)' => /\ Former("processed")' = Former("index")'
                               /\ \A t \in Tasks : backup'[t]["index"] <= Former("index")'
    <2> SUFFICES ASSUME (~broken /\ ~lost)'
                 PROVE  /\ Former("processed")' = Former("index")'
                        /\ \A t \in Tasks : backup'[t]["index"] <= Former("index")'
      OBVIOUS
    <2>1. /\ Former("processed") = Former("index")
          /\ \A t \in Tasks : backup[t]["index"] <= Former("index")
      BY <1>1 DEF VersionInv
    <2>2. CASE SameFormer
      BY <1>1, <1>2, <1>4, <1>5, <2>1, <2>2 DEF SameFormer, IndexStep, Exchanged, FormerNumbers
    <2>3. CASE Exchanged /\ built' = built
      <3>1. \A t \in Tasks : backup'[t]["index"] <= built
        BY <1>2, <2>3 DEF StageInv, BuiltInv
      <3> QED
        BY <1>2, <2>3, <3>1 DEF Exchanged
    <2> QED
      BY <1>1, <2>2, <2>3 DEF LeftAsIs
  <1>7. (~broken /\ live["index"] # None)' => \A t \in Tasks : backup'[t]["index"] <= live'["index"]
    <2> SUFFICES ASSUME (~broken)', live'["index"] # None, NEW t \in Tasks
                 PROVE  backup'[t]["index"] <= live'["index"]
      OBVIOUS
    <2>1. ~broken /\ backup'[t]["index"] \in {None, backup[t]["index"]}
      BY <1>1 DEF IndexStep
    <2>2. CASE live'["index"] = live["index"]
      BY <1>4, <1>5, <2>1, <2>2 DEF VersionInv
    <2>3. CASE Exchanged
      BY <1>2, <1>4, <1>5, <2>1, <2>3 DEF Exchanged
    <2>4. CASE live'["index"] = Former("index")
      BY <1>1, <1>2, <1>4, <1>5, <2>1, <2>4 DEF VersionInv, FormerNumbers
    <2> QED
      BY <1>1, <2>2, <2>3, <2>4 DEF IndexStep
  <1>8. Replacing' => built' > 1 /\ \A d \in Dirs : Former(d)' < built'
    <2>1. CASE Replacing /\ built' = built /\ SameFormer
      BY <2>1 DEF VersionInv, SameFormer
    <2>2. CASE built' = built + 1 /\ SameFormer /\ ~Undoable /\ Aside = {}
      <3>1. \A d \in Dirs : Former(d) <= built
        BY <2>2 DEF Former, StageInv, BuiltInv
      <3> QED
        BY <1>2, <1>4, <2>2, <3>1, Numbers DEF SameFormer, FormerNumbers
    <2> QED
      BY <1>1, <2>1, <2>2
  <1> QED
    BY <1>3, <1>6, <1>7, <1>8 DEF VersionInv

-----------------------------------------------------------------------------
(* The files inside the directories *)

\* Until directories move under a compaction, an index file is the one its
\* directory was built with, and it is there or its hard link is; a compaction
\* stands in the legacy version and can go back at every step.
FilesInv ==
    ~raced =>
        /\ \A v \in Versions : /\ sqlite[v] \in {None, v} /\ precompact[v] \in {None, v}
                               /\ sqlite[v] = v \/ precompact[v] = v
                               /\ v # 1 => sqlite[v] = v
        /\ pilot.index \in {None, 1}
        /\ compactor.at # "idle" =>
              /\ live["index"] = 1 /\ live["processed"] = 1
              /\ ~compactor.index => sqlite[1] = 1
              /\ compactor.at \in {"checked", "linked"} => pilot.index = 1 /\ ~compactor.index
              /\ compactor.at # "checked" => precompact[1] = 1

LEMMA InitFiles == Init => FilesInv
  BY DEF Init, FilesInv, NotCompacting, None, Versions

LEMMA WriterFiles == ASSUME Typed, FilesInv, WriterStep PROVE FilesInv' /\ (raced => raced')
  <1>1. UNCHANGED <<sqlite, precompact, pilot, compactor>>
    BY DEF WriterStep, Build, ClearBackup, SaveLive, Replace, RemoveBackup, Undo, Restore, NextLoop, PublishRaises, Abort,
           WriterLost, At, fileVars
  <1>2. UNCHANGED live \/ raced' = (raced \/ compactor.at # "idle")
    BY DEF WriterStep, Build, ClearBackup, SaveLive, Replace, RemoveBackup, Undo, Restore, NextLoop, PublishRaises, Abort,
           WriterLost, Moves, dirVars
  <1>3. UNCHANGED raced \/ raced' = (raced \/ compactor.at # "idle")
    BY DEF WriterStep, Build, ClearBackup, SaveLive, Replace, RemoveBackup, Undo, Restore, NextLoop, PublishRaises, Abort,
           WriterLost, Moves, dirVars, history
  <1>4. raced => raced'
    BY <1>3 DEF Typed, HistoryType, FlagType
  <1>5. ~raced' => ~raced /\ (UNCHANGED live \/ compactor.at = "idle")
    BY <1>2, <1>4 DEF Typed, HistoryType, FlagType
  <1> QED
    BY <1>1, <1>4, <1>5 DEF FilesInv

\* Only the files of the legacy version change.
LEMMA CompactorKeeps ==
    ASSUME Typed, CompactorStep
    PROVE  UNCHANGED <<live, staging, backup, task, writer, reader, built, lost, broken, raced>>
  BY DEF CompactorStep, BuildPilot, CheckPilot, LinkBackup, PublishIndex, PublishArchive, InspectPublished, CompactionRaises,
         UndoArchive, UndoIndex, RestoreIndex, Unlink, CompactionBreaksOff, CompactorLost, Compaction, dirVars, Unfaulted

LEMMA CompactorFiles ==
    ASSUME Typed, StageInv, VersionInv, FilesInv, CompactorStep
    PROVE  FilesInv'
  <1>1. UNCHANGED <<live, raced>>
    BY CompactorKeeps
  <1>2. SUFFICES ASSUME ~raced PROVE FilesInv'
    BY <1>1 DEF FilesInv
  <1>3. 1 \in Versions /\ None = 0 /\ None \notin Versions
    BY DEF Versions, None
  <1>4. /\ sqlite \in [Versions -> MaybeVersion] /\ precompact \in [Versions -> MaybeVersion]
        /\ pilot \in [{"index", "archive"} -> MaybeVersion]
        /\ compactor \in [at : {"idle", "checked", "linked", "indexed", "archived", "undoing", "restoring"},
                          index : BOOLEAN, archive : BOOLEAN]
    BY DEF Typed, FileType, CompactorType
  <1>5. compactor.at # "idle" => LiveIndex = 1 /\ LiveProcessed = 1
    BY <1>2 DEF FilesInv, LiveIndex, LiveProcessed
  <1>6. CASE BuildPilot
    <2>1. LiveProcessed = 1 /\ LiveIndex \in Versions /\ IndexFile = sqlite[LiveIndex] /\ IndexFile # None
      BY <1>6, <1>3 DEF BuildPilot, Legacy, IndexFile, LiveIndex, Typed, DirType, MaybeVersion, Dirs
    <2>2. LiveIndex = 1
      BY <2>1, <1>3, LiveUnmixed DEF Unmixed, LiveIndex, LiveProcessed
    <2>3. pilot'["index"] = 1 /\ UNCHANGED <<compactor, sqlite, precompact>> /\ compactor.at = "idle"
      BY <1>2, <1>6, <2>1, <2>2 DEF BuildPilot, FilesInv, Compaction
    <2> QED
      BY <1>1, <1>2, <2>3 DEF FilesInv
  <1>7. CASE CheckPilot
    <2>1. LiveProcessed = 1 /\ LiveIndex \in Versions /\ IndexFile = sqlite[LiveIndex] /\ IndexFile # None
      BY <1>7, <1>3 DEF CheckPilot, Legacy, IndexFile, LiveIndex, Typed, DirType, MaybeVersion, Dirs
    <2>2. LiveIndex = 1
      BY <2>1, <1>3, LiveUnmixed DEF Unmixed, LiveIndex, LiveProcessed
    <2>3. sqlite[1] = 1 /\ pilot.index = 1
      BY <1>2, <1>3, <1>7, <2>1, <2>2 DEF CheckPilot, FilesInv
    <2>4. compactor'.at = "checked" /\ ~compactor'.index /\ UNCHANGED <<sqlite, precompact, pilot>>
      BY <1>7 DEF CheckPilot, fileVars
    <2> QED
      BY <1>1, <1>2, <2>1, <2>2, <2>3, <2>4 DEF FilesInv, LiveIndex, LiveProcessed
  <1>8. CASE LinkBackup
    <2>1. LiveIndex = 1 /\ compactor.at = "checked" /\ IndexFile = sqlite[1] /\ sqlite[1] = 1
      BY <1>2, <1>3, <1>5, <1>8 DEF LinkBackup, Compaction, FilesInv, IndexFile
    <2>2. precompact' = [precompact EXCEPT ![1] = 1] /\ UNCHANGED <<sqlite, pilot>>
      BY <1>8, <2>1 DEF LinkBackup
    <2>3. compactor'.at = "linked" /\ compactor'.index = compactor.index
      BY <1>4, <1>8 DEF LinkBackup
    <2> QED
      BY <1>1, <1>2, <1>3, <1>4, <2>1, <2>2, <2>3 DEF FilesInv
  <1>9. CASE PublishIndex
    <2>1. LiveIndex = 1 /\ compactor.at = "linked" /\ pilot.index = 1
      BY <1>2, <1>5, <1>9 DEF PublishIndex, Compaction, FilesInv
    <2>2. sqlite' = [sqlite EXCEPT ![1] = 1] /\ pilot' = [pilot EXCEPT !.index = None] /\ UNCHANGED precompact
      BY <1>9, <2>1 DEF PublishIndex
    <2>3. compactor'.at = "indexed" /\ compactor'.index = TRUE
      BY <1>4, <1>9 DEF PublishIndex
    <2>4. pilot'["index"] = None
      BY <1>4, <2>2
    <2> QED
      BY <1>1, <1>2, <1>3, <1>4, <2>1, <2>2, <2>3, <2>4 DEF FilesInv
  <1>10. CASE PublishArchive
    <2>1. compactor.at = "indexed" /\ UNCHANGED <<sqlite, precompact>> /\ pilot'["index"] = pilot["index"]
      BY <1>4, <1>10 DEF PublishArchive, Compaction
    <2>2. compactor'.at = "archived" /\ compactor'.index = compactor.index
      BY <1>4, <1>10 DEF PublishArchive
    <2> QED
      BY <1>1, <1>2, <2>1, <2>2 DEF FilesInv
  <1>11. CASE CompactionRaises
    <2>1. compactor.at \notin {"idle", "checked"} /\ UNCHANGED <<sqlite, precompact, pilot>>
      BY <1>11 DEF CompactionRaises, fileVars
    <2>2. compactor'.at = "undoing" /\ compactor'.index = compactor.index
      BY <1>4, <1>11 DEF CompactionRaises
    <2> QED
      BY <1>1, <1>2, <2>1, <2>2 DEF FilesInv
  <1>12. CASE UndoArchive
    <2>1. compactor.at = "undoing" /\ UNCHANGED <<sqlite, precompact>> /\ pilot'["index"] = pilot["index"]
      BY <1>4, <1>12 DEF UndoArchive, Compaction
    <2>2. compactor'.at = "undoing" /\ compactor'.index = compactor.index
      BY <1>4, <1>12, <2>1 DEF UndoArchive
    <2> QED
      BY <1>1, <1>2, <2>1, <2>2 DEF FilesInv
  <1>13. CASE UndoIndex
    <2>1. LiveIndex = 1 /\ compactor.at = "undoing" /\ compactor.index /\ IndexFile = sqlite[1] /\ IndexFile # None
      BY <1>3, <1>5, <1>13 DEF UndoIndex, Compaction, IndexFile
    <2>2. sqlite' = [sqlite EXCEPT ![1] = None] /\ pilot'["index"] = 1 /\ UNCHANGED precompact
      BY <1>2, <1>3, <1>4, <1>13, <2>1 DEF UndoIndex, FilesInv
    <2>3. compactor'.at = "restoring" /\ compactor'.index
      BY <1>4, <1>13, <2>1 DEF UndoIndex
    <2> QED
      BY <1>1, <1>2, <1>3, <1>4, <2>1, <2>2, <2>3 DEF FilesInv
  <1>14. CASE RestoreIndex
    <2>1. LiveIndex = 1 /\ precompact[1] = 1
      BY <1>2, <1>5, <1>14 DEF RestoreIndex, Compaction, FilesInv
    <2>2. sqlite' = [sqlite EXCEPT ![1] = 1] /\ precompact' = [precompact EXCEPT ![1] = None] /\ UNCHANGED pilot
      BY <1>14, <2>1 DEF RestoreIndex
    <2>3. compactor'.at = "idle"
      BY <1>14 DEF RestoreIndex, NotCompacting
    <2> QED
      BY <1>1, <1>2, <1>3, <1>4, <2>2, <2>3 DEF FilesInv
  <1>15. CASE Unlink
    <2>1. LiveIndex = 1 /\ sqlite[1] = 1
      BY <1>2, <1>5, <1>15 DEF Unlink, Compaction, FilesInv
    <2>2. precompact' = [precompact EXCEPT ![1] = None] /\ UNCHANGED <<sqlite, pilot>>
      BY <1>3, <1>15, <2>1 DEF Unlink
    <2>3. compactor'.at = "idle"
      BY <1>15 DEF Unlink, NotCompacting
    <2> QED
      BY <1>1, <1>2, <1>3, <1>4, <2>1, <2>2, <2>3 DEF FilesInv
  <1>16. CASE InspectPublished \/ CompactionBreaksOff \/ CompactorLost
    <2>1. compactor'.at = "idle" /\ UNCHANGED <<sqlite, precompact, pilot>>
      BY <1>16 DEF InspectPublished, CompactionBreaksOff, CompactorLost, NotCompacting, fileVars
    <2> QED
      BY <1>1, <1>2, <2>1 DEF FilesInv
  <1> QED
    BY <1>6, <1>7, <1>8, <1>9, <1>10, <1>11, <1>12, <1>13, <1>14, <1>15, <1>16 DEF CompactorStep

-----------------------------------------------------------------------------
(* What a search has read *)

\* v can stand beside the hits: their own version, or a newer one that replaced
\* it since the index was opened.
Follows(v) == v \in {None, reader.index} \/ (reader.replaced /\ v > reader.index)

OpenedInv ==
    /\ reader.index \in 1..built
    /\ Follows(live["processed"]) /\ Follows(Former("processed"))
    /\ (writer.at = "saving" \/ (writer.at = "replacing" /\ "processed" \in writer.todo)) => reader.index < built

ReaderInv ==
    ~raced =>
        /\ reader.at = "opened" => OpenedInv
        /\ reader.at = "done" => reader.metadata # None /\ Follows(reader.metadata)

LEMMA InitReader == Init => ReaderInv
  BY DEF Init, ReaderInv, NotSearching

\* A step of the writer leaves what was opened behind only for a newer version.
LEMMA WriterOpened ==
    ASSUME Typed, StageInv, VersionInv, WriterStep, reader.at = "opened", OpenedInv
    PROVE  OpenedInv'
  <1>0. /\ "index" \in Dirs /\ "processed" \in Dirs /\ built \in Nat /\ None = 0
        /\ reader.index \in Nat /\ reader.index > 0 /\ reader.index <= built
        /\ live["processed"] \in Nat /\ FormerNumbers
        /\ reader \in [at : {"idle", "required", "opened", "done"}, index : MaybeVersion,
                       metadata : MaybeVersion, replaced : BOOLEAN]
    BY Numbers, FormerIsNumber DEF Dirs, Typed, ReaderType, OpenedInv
  <1>1. CASE \E t \in Tasks : Build(t)
    <2>1. PICK t \in Tasks : Build(t)
      BY <1>1
    <2>2. SameFormer /\ UNCHANGED <<live, backup>>
      BY <2>1, BuildFormer
    <2>3. built' = built + 1 /\ UNCHANGED reader
      BY <2>1 DEF Build
    <2> QED
      BY <1>0, <2>2, <2>3 DEF OpenedInv, Follows, SameFormer
  <1>2. CASE \E d \in Dirs : ClearBackup(d) \/ SaveLive(d)
    <2>1. PICK d \in Dirs : ClearBackup(d) \/ SaveLive(d)
      BY <1>2
    <2>2. SameFormer
      BY <2>1, SavingFormer
    <2>3. writer.at = "saving" /\ UNCHANGED <<built, reader>>
      BY <2>1 DEF ClearBackup, SaveLive, At
    <2>4. live'["processed"] \in {None, live["processed"]}
      BY <1>0, <2>1 DEF ClearBackup, SaveLive, Typed, DirType
    <2> QED
      BY <1>0, <2>2, <2>3, <2>4 DEF OpenedInv, Follows, SameFormer
  <1>3. CASE \E d \in Dirs : Replace(d)
    <2>1. PICK d \in Dirs : Replace(d)
      BY <1>3
    <2>2. IF d = "processed" THEN SameFormer /\ live'["index"] = live["index"] /\ live'["processed"] = built ELSE Exchanged
      BY <2>1, ReplacingFormer
    <2>3. /\ writer.at = "replacing" /\ writer.todo # {} /\ d = First(writer.todo) /\ built' = built
          /\ reader' = [reader EXCEPT !.replaced = @ \/ (reader.at = "opened" /\ d = "processed")]
          /\ writer' = [writer EXCEPT !.todo = @ \ {d}, !.placed = @ \cup {d}]
      BY <2>1 DEF Replace, At
    <2>4. d \in writer.todo /\ (d = "processed" => writer.todo = Dirs) /\ (d = "index" => writer.todo = {"index"})
      BY <2>3, FirstOf DEF StageInv, ReplacingInv
    <2>5. writer'.at = "replacing" /\ "processed" \notin writer'.todo
      BY <2>3, <2>4 DEF Typed, WriterType, Dirs
    <2>6. reader'.index = reader.index /\ (d = "processed" => reader'.replaced) /\ (reader.replaced => reader'.replaced)
      BY <1>0, <2>3
    <2>7. CASE d = "processed"
      <3>1. reader.index < built
        BY <1>0, <2>3, <2>4, <2>7 DEF OpenedInv
      <3>2. Follows(live["processed"])'
        BY <1>0, <2>2, <2>3, <2>6, <2>7, <3>1 DEF Follows
      <3>3. Follows(Former("processed"))'
        BY <1>0, <2>2, <2>6, <2>7 DEF OpenedInv, Follows, SameFormer
      <3> QED
        BY <1>0, <2>3, <2>5, <2>6, <3>2, <3>3 DEF OpenedInv
    <2>8. CASE d = "index"
      <3>1. live["processed"] = built /\ live'["processed"] = built /\ Former("processed")' = built
        BY <1>0, <2>2, <2>3, <2>4, <2>8 DEF Exchanged, StageInv, ReplacingInv
      <3>2. UNCHANGED reader
        BY <1>0, <2>3, <2>8
      <3> QED
        BY <1>0, <2>3, <2>5, <3>1, <3>2 DEF OpenedInv, Follows
    <2> QED
      BY <2>7, <2>8 DEF Dirs
  <1>4. CASE \E d \in Dirs : RemoveBackup(d) \/ Undo(d)
    <2>1. PICK d \in Dirs : RemoveBackup(d) \/ Undo(d)
      BY <1>4
    <2>2. SameFormer
      BY <2>1, UndoingFormer
    <2>3. writer.at \in {"cleaning", "undoing"} /\ writer'.at = writer.at /\ UNCHANGED <<built, reader>>
      BY <2>1 DEF RemoveBackup, Undo, At, Typed, WriterType
    <2>4. live'["processed"] \in {None, live["processed"]}
      BY <1>0, <2>1 DEF RemoveBackup, Undo, Typed, DirType
    <2> QED
      BY <1>0, <2>2, <2>3, <2>4 DEF OpenedInv, Follows, SameFormer
  <1>5. CASE \E d \in Dirs : Restore(d)
    <2>1. PICK d \in Dirs : Restore(d)
      BY <1>5
    <2>2. SameFormer /\ live' = [live EXCEPT ![d] = Former(d)]
      BY <2>1, RestoringFormer
    <2>3. writer.at = "restoring" /\ writer'.at = "restoring" /\ UNCHANGED <<built, reader>>
      BY <2>1 DEF Restore, At, Typed, WriterType
    <2>4. live'["processed"] \in {Former("processed"), live["processed"]}
      BY <1>0, <2>2 DEF Typed, DirType
    <2> QED
      BY <1>0, <2>2, <2>3, <2>4 DEF OpenedInv, Follows, SameFormer
  <1>6. CASE NextLoop \/ PublishRaises \/ Abort \/ WriterLost
    <2>1. UNCHANGED <<live, backup, task, built>> /\ (SameFormer \/ LeftAsIs)
      BY <1>6, ControlFormer
    <2>2. UNCHANGED reader
      BY <1>6 DEF NextLoop, PublishRaises, Abort, WriterLost
    <2>3. writer'.at = "saving" \/ (writer'.at = "replacing" /\ "processed" \in writer'.todo)
             => writer.at = "saving" \/ (writer.at = "replacing" /\ "processed" \in writer.todo)
      <3>1. CASE NextLoop
        <4>1. CASE writer.at = "replacing" /\ Goes("cleaning", writer.saved)
          BY <4>1, WriterGoes DEF Typed, Stages, WriterType
        <4>2. CASE writer.at = "cleaning" /\ writer' = AtRest
          BY <4>2 DEF AtRest
        <4>3. CASE writer.at = "undoing" /\ Goes("restoring", writer.saved)
          BY <4>3, WriterGoes DEF Typed, Stages, WriterType
        <4>4. CASE writer.at = "restoring" /\ Goes("aborting", {})
          BY <4>4, WriterGoes DEF Typed, Stages
        <4> QED
          BY <3>1, <4>1, <4>2, <4>3, <4>4 DEF NextLoop
      <3>2. CASE PublishRaises
        <4>1. Goes("undoing", writer.placed) \/ Goes("aborting", {})
          BY <3>2 DEF PublishRaises
        <4> QED
          BY <4>1, WriterGoes DEF Typed, Stages, WriterType
      <3>3. CASE Abort \/ WriterLost
        BY <3>3 DEF Abort, WriterLost, AtRest
      <3> QED
        BY <1>6, <3>1, <3>2, <3>3
    <2>4. Follows(Former("processed"))'
      BY <1>0, <2>1, <2>2 DEF OpenedInv, Follows, SameFormer, LeftAsIs
    <2> QED
      BY <1>0, <2>1, <2>2, <2>3, <2>4 DEF OpenedInv, Follows
  <1> QED
    BY <1>1, <1>2, <1>3, <1>4, <1>5, <1>6 DEF WriterStep

LEMMA WriterReader ==
    ASSUME Typed, StageInv, VersionInv, FilesInv, ReaderInv, WriterStep
    PROVE  ReaderInv'
  <1>1. raced => raced'
    BY WriterFiles
  <1>2. SUFFICES ASSUME ~raced PROVE ReaderInv'
    BY <1>1 DEF ReaderInv
  <1>3. UNCHANGED reader \/ (reader.at = "opened" /\ reader'.at = "opened")
    <2>1. CASE \E d \in Dirs : Replace(d)
      <3>1. PICK d \in Dirs : reader' = [reader EXCEPT !.replaced = @ \/ (reader.at = "opened" /\ d = "processed")]
        BY <2>1 DEF Replace
      <3>2. reader \in [at : {"idle", "required", "opened", "done"}, index : MaybeVersion,
                        metadata : MaybeVersion, replaced : BOOLEAN]
        BY DEF Typed, ReaderType
      <3>3. reader'.at = reader.at
        BY <3>1, <3>2
      <3>4. reader.at # "opened" => (reader.replaced \/ (reader.at = "opened" /\ d = "processed")) = reader.replaced
        BY <3>2
      <3>5. reader.at # "opened" => reader' = [reader EXCEPT !.replaced = reader.replaced]
        BY <3>1, <3>4
      <3>6. reader = [reader EXCEPT !.replaced = reader.replaced]
        BY <3>2
      <3> QED
        BY <3>3, <3>5, <3>6
    <2>2. CASE ~ \E d \in Dirs : Replace(d)
      BY <2>2 DEF WriterStep, Build, ClearBackup, SaveLive, RemoveBackup, Undo, Restore, NextLoop, PublishRaises, Abort,
         WriterLost
    <2> QED
      BY <2>1, <2>2
  <1>4. CASE reader.at = "opened"
    <2>1. reader'.at = "opened" /\ OpenedInv'
      BY <1>2, <1>3, <1>4, WriterOpened DEF ReaderInv
    <2> QED
      BY <2>1 DEF ReaderInv
  <1>5. CASE reader.at # "opened"
    <2>1. UNCHANGED reader
      BY <1>3, <1>5
    <2> QED
      BY <1>2, <1>5, <2>1 DEF ReaderInv, Follows
  <1> QED
    BY <1>4, <1>5

LEMMA SearchReader ==
    ASSUME Typed, StageInv, VersionInv, FilesInv, ReaderInv, Searching
    PROVE  ReaderInv'
  <1>1. UNCHANGED <<live, staging, backup, sqlite, task, writer, built, raced>>
    BY DEF Searching, RequireArtifacts, OpenIndex, ReadMetadata, EndSearch, Searches, dirVars, fileVars, history
  <1>2. SUFFICES ASSUME ~raced PROVE ReaderInv'
    BY <1>1 DEF ReaderInv
  <1>3. reader \in [at : {"idle", "required", "opened", "done"}, index : MaybeVersion,
                    metadata : MaybeVersion, replaced : BOOLEAN]
    BY DEF Typed, ReaderType
  <1>4. CASE RequireArtifacts \/ EndSearch
    <2>1. reader'.at \in {"idle", "required"}
      BY <1>4 DEF RequireArtifacts, EndSearch, NotSearching
    <2> QED
      BY <2>1 DEF ReaderInv
  <1>5. CASE OpenIndex
    <2>1. IndexFile # None /\ reader'.at = "opened" /\ reader'.index = IndexFile
      BY <1>3, <1>5 DEF OpenIndex
    <2>2. live["index"] \in Versions /\ IndexFile = sqlite[live["index"]]
      BY <2>1 DEF IndexFile, LiveIndex, Typed, DirType, MaybeVersion, Dirs
    <2>3. reader'.index = live["index"]
      BY <1>2, <2>1, <2>2 DEF FilesInv
    <2>4. live["index"] # None /\ live["index"] \in Nat \ {0} /\ live["index"] <= built
      BY <2>2, Numbers DEF Versions, None, StageInv, BuiltInv, Dirs
    <2>5. Follows(live["processed"])'
      BY <1>1, <2>3, <2>4, LiveUnmixed DEF Unmixed, Follows
    <2>6. Former("processed")' = Former("processed") /\ live["index"] = Former("index")
      BY <1>1, <2>4, LiveIs DEF Former, Aside, Undoable
    <2>7. Follows(Former("processed"))'
      BY <2>3, <2>4, <2>6 DEF Follows, VersionInv, Unmixed
    <2>8. writer.at = "saving" => live["index"] < built
      BY DEF StageInv, SavingInv, Dirs
    <2>9. ~(writer.at = "replacing" /\ "processed" \in writer.todo)
      <3>1. writer.at = "replacing" /\ "processed" \in writer.todo => "index" \in writer.todo
        BY DEF StageInv, ReplacingInv, Todos, Dirs
      <3> QED
        BY <2>4, <3>1 DEF StageInv, ReplacingInv, Dirs
    <2>10. reader'.index \in 1..built'
      BY <1>1, <2>3, <2>4, Numbers
    <2>11. OpenedInv'
      BY <1>1, <2>3, <2>5, <2>7, <2>8, <2>9, <2>10 DEF OpenedInv
    <2> QED
      BY <2>1, <2>11 DEF ReaderInv
  <1>6. CASE ReadMetadata
    <2>1. /\ reader.at = "opened" /\ reader'.at = "done" /\ reader'.metadata = live["processed"]
          /\ reader'.index = reader.index /\ reader'.replaced = reader.replaced /\ live["processed"] # None
      BY <1>3, <1>6 DEF ReadMetadata, Searches, LiveProcessed
    <2> QED
      BY <1>2, <2>1 DEF ReaderInv, OpenedInv, Follows
  <1> QED
    BY <1>4, <1>5, <1>6 DEF Searching

-----------------------------------------------------------------------------
(* The invariant *)

Inv == Typed /\ StageInv /\ VersionInv /\ FilesInv /\ ReaderInv

LEMMA InitInv == Init => Inv
  BY InitTyped, InitStage, InitVersion, InitFiles, InitReader DEF Inv

LEMMA StepInv == Inv /\ [Next]_vars => Inv'
  <1> SUFFICES ASSUME Inv, [Next]_vars PROVE Inv'
    OBVIOUS
  <1>1. Typed /\ StageInv /\ VersionInv /\ FilesInv /\ ReaderInv
    BY DEF Inv
  <1>2. Typed' /\ StageInv'
    BY <1>1, StepTyped, StepStage
  <1>3. CASE WriterStep
    BY <1>1, <1>2, <1>3, WriterVersion, WriterFiles, WriterReader DEF Inv
  <1>4. CASE CompactorStep
    <2>1. UNCHANGED <<live, staging, backup, task, writer, reader, built, lost, broken, raced>>
      BY <1>1, <1>4, CompactorKeeps
    <2>2. \A d \in Dirs : Former(d)' = Former(d)
      BY <2>1 DEF Former, Aside, Undoable
    <2>3. VersionInv'
      BY <1>1, <2>1, <2>2 DEF VersionInv, Replacing, Dirs
    <2>4. ReaderInv'
      BY <1>1, <2>1, <2>2 DEF ReaderInv, OpenedInv, Follows, Dirs
    <2> QED
      BY <1>1, <1>2, <1>4, <2>3, <2>4, CompactorFiles DEF Inv
  <1>5. CASE Searching
    <2>1. UNCHANGED <<dirVars, fileVars, task, writer, compactor, history>>
      BY <1>5 DEF Searching, RequireArtifacts, OpenIndex, ReadMetadata, EndSearch, Searches
    <2>2. VersionInv' /\ FilesInv'
      BY <1>1, <2>1 DEF VersionInv, FilesInv, Replacing, Former, Aside, Undoable, dirVars, fileVars, history
    <2> QED
      BY <1>1, <1>2, <1>5, <2>2, SearchReader DEF Inv
  <1>6. CASE UNCHANGED vars
    <2>1. VersionInv' /\ FilesInv'
      BY <1>1, <1>6 DEF VersionInv, FilesInv, Replacing, Former, Aside, Undoable, dirVars, fileVars, history, vars
    <2>2. ReaderInv'
      BY <1>1, <1>6 DEF ReaderInv, OpenedInv, Follows, Former, Aside, Undoable, dirVars, fileVars, history, vars
    <2> QED
      BY <1>2, <2>1, <2>2 DEF Inv
  <1> QED
    BY <1>3, <1>4, <1>5, <1>6 DEF Next

LEMMA Invariance == Spec => []Inv
  BY InitInv, StepInv, PTL DEF Spec

-----------------------------------------------------------------------------
(* What is committed and what is served *)

\* The versions whose two directories exist somewhere.
Holdings ==
    {v \in Versions : \A d \in Dirs : live[d] = v \/ \E t \in Tasks : backup[t][d] = v} \cup {None}

\* While no roll-back broke off and no directory moved under a compaction: the
\* committed version is the one a roll-back ends with, and it is served or none is.
Shown ==
    (~broken /\ ~raced) =>
        /\ OnDisk = Holdings
        /\ ~lost => Committed = Former("index")
        /\ Served \in {None, Committed}

LEMMA Greatest ==
    ASSUME NEW m \in OnDisk, OnDisk \subseteq Nat, \A w \in OnDisk : w <= m
    PROVE  Committed = m
  <1>1. \E v \in OnDisk : \A w \in OnDisk : w <= v
    OBVIOUS
  <1>2. Committed \in OnDisk /\ \A w \in OnDisk : w <= Committed
    BY <1>1 DEF Committed
  <1>3. Committed <= m /\ m <= Committed /\ m \in Nat /\ Committed \in Nat
    BY <1>2
  <1> QED
    BY <1>3

LEMMA InvShown == Inv => Shown
  <1> SUFFICES ASSUME Inv, ~broken, ~raced
               PROVE  /\ OnDisk = Holdings
                      /\ ~lost => Committed = Former("index")
                      /\ Served \in {None, Committed}
    BY DEF Shown
  <1>1. Typed /\ StageInv /\ VersionInv /\ FilesInv
    BY DEF Inv
  <1>2. /\ "index" \in Dirs /\ "processed" \in Dirs /\ None = 0 /\ Versions \subseteq Nat /\ None \notin Versions
        /\ task \in Tasks /\ live["index"] \in MaybeVersion /\ live["processed"] \in MaybeVersion
        /\ \A t \in Tasks, d \in Dirs : backup[t][d] \in MaybeVersion
        /\ live["index"] \in Nat
    BY <1>1, Numbers DEF Dirs, None, Versions, Typed, WriterType, DirType
  <1>3. OnDisk = Holdings
    <2>1. \A v \in Versions : sqlite[v] = v \/ precompact[v] = v
      BY <1>1 DEF FilesInv
    <2> QED
      BY <2>1 DEF OnDisk, Holdings, Kept
  <1>4. OnDisk \subseteq Nat
    <2>1. \A w \in OnDisk : w \in Versions \/ w = 0
      BY <1>3 DEF Holdings, None
    <2>2. \A w \in Versions : w \in Nat
      BY DEF Versions
    <2> QED
      BY <2>1, <2>2
  <1>5. \A w \in OnDisk : w = None \/ w = live["index"] \/ \E t \in Tasks : w = backup[t]["index"]
    BY <1>2, <1>3 DEF Holdings
  <1>6. ASSUME ~lost PROVE Committed = Former("index")
    <2>1. /\ Former("processed") = Former("index") /\ Former("index") \in Nat
          /\ \A t \in Tasks : backup[t]["index"] <= Former("index")
      BY <1>1, <1>2, <1>6, FormerIsNumber DEF VersionInv, FormerNumbers
    <2>2. live["index"] \in {None, Former("index")}
      BY <1>1, LiveIs
    <2>3. \A d \in Dirs : Former(d) \in {None, live[d], backup[task][d]}
      BY DEF Former
    <2>4. Former("index") \in MaybeVersion
      BY <1>2, <2>3 DEF MaybeVersion
    <2>5. Former("index") \in OnDisk
      <3>1. CASE Former("index") = None
        BY <1>3, <3>1 DEF Holdings
      <3>2. CASE Former("index") # None
        <4>1. \A d \in Dirs : live[d] = Former("index") \/ backup[task][d] = Former("index")
          BY <2>1, <2>3, <3>2 DEF Dirs
        <4> QED
          BY <1>2, <1>3, <2>4, <3>2, <4>1 DEF Holdings, MaybeVersion
      <3> QED
        BY <3>1, <3>2
    <2>6. \A w \in OnDisk : w <= Former("index")
      BY <1>2, <1>5, <2>1, <2>2
    <2> QED
      BY <1>4, <2>5, <2>6, Greatest
  <1>7. ASSUME live["index"] # None, live["processed"] # None PROVE Committed = live["index"]
    <2>1. live["processed"] = live["index"]
      BY <1>1, <1>7, LiveUnmixed DEF Unmixed
    <2>2. live["index"] \in OnDisk
      BY <1>2, <1>3, <1>7, <2>1 DEF Holdings, MaybeVersion, Dirs
    <2>3. \A t \in Tasks : backup[t]["index"] <= live["index"]
      BY <1>1, <1>7 DEF VersionInv
    <2>4. \A w \in OnDisk : w <= live["index"]
      BY <1>2, <1>5, <2>3
    <2> QED
      BY <1>4, <2>2, <2>4, Greatest
  <1>8. Served \in {None, Committed}
    <2>1. CASE IndexFile = None \/ LiveProcessed = None
      BY <2>1 DEF Served
    <2>2. CASE IndexFile # None /\ LiveProcessed # None
      <3>1. live["index"] # None /\ live["processed"] # None /\ IndexFile = sqlite[live["index"]]
        BY <2>2 DEF IndexFile, LiveIndex, LiveProcessed
      <3>2. live["index"] \in Versions
        BY <1>2, <3>1 DEF MaybeVersion
      <3>3. IndexFile = live["index"]
        BY <1>1, <2>2, <3>1, <3>2 DEF FilesInv
      <3>4. live["processed"] = live["index"]
        BY <1>1, <3>1, LiveUnmixed DEF Unmixed
      <3>5. Served = live["index"]
        BY <2>2, <3>3, <3>4 DEF Served, LiveProcessed
      <3> QED
        BY <1>7, <3>1, <3>5
    <2> QED
      BY <2>1, <2>2
  <1> QED
    BY <1>3, <1>6, <1>8

LEMMA InitAtomic == Init => Atomic!AInit
  <1> SUFFICES ASSUME Init PROVE Atomic!AInit
    OBVIOUS
  <1>1. PICK v \in {None} \cup Legacy : live = [d \in Dirs |-> v]
    BY DEF Init
  <1>2. v \in {0, 1} /\ live["index"] = v /\ live["processed"] = v /\ 1 \in Versions /\ None = 0 /\ MaxVersion \in Nat
    BY <1>1 DEF Dirs, None, Legacy, Versions
  <1>3. Inv
    BY InitInv
  <1>4. ~broken /\ ~raced /\ ~lost
    BY DEF Init
  <1>5. Committed = Former("index")
    BY <1>3, <1>4, InvShown DEF Shown
  <1>6. Former("index") = v
    BY <1>2 DEF Init, AtRest, Former, Aside, Undoable
  <1>7. Served = v
    BY <1>2 DEF Init, Served, IndexFile, LiveIndex, LiveProcessed
  <1>8. (~broken /\ ~raced) = TRUE
    BY <1>4
  <1>9. Committed \in 0..MaxVersion
    BY <1>2, <1>5, <1>6
  <1> QED
    BY <1>5, <1>6, <1>7, <1>8, <1>9 DEF Atomic!AInit

LEMMA LostKeeps ==
    ASSUME Typed, WriterStep, ~lost, lost'
    PROVE  UNCHANGED <<live, backup>>
  BY DEF WriterStep, Build, ClearBackup, SaveLive, Replace, RemoveBackup, Undo, Restore, NextLoop, PublishRaises, Abort,
         WriterLost, At, dirVars, history

\* The last rename of the exchange replaces the committed version; any other
\* step hides it, shows it, or ends the promise.
LEMMA StepAtomic ==
    ASSUME Inv, Inv', Shown, Shown', [Next]_vars
    PROVE  [Atomic!ANext]_Atomic!avars
  <1>1. Typed /\ StageInv /\ VersionInv /\ FilesInv /\ FilesInv'
    BY DEF Inv
  <1>2. CASE broken' \/ raced'
    <2>1. (~broken /\ ~raced)' = FALSE
      BY <1>2
    <2> QED
      BY <2>1 DEF Atomic!ANext, Atomic!Break
  <1>3. SUFFICES ASSUME ~broken', ~raced' PROVE [Atomic!ANext]_Atomic!avars
    BY <1>2
  <1>4. ~broken /\ ~raced
    <2>1. CASE WriterStep
      BY <1>1, <1>3, <2>1, WriterVersions, WriterFiles
    <2>2. CASE CompactorStep
      BY <1>1, <1>3, <2>2, CompactorKeeps
    <2>3. CASE Searching \/ UNCHANGED vars
      BY <1>3, <2>3 DEF Searching, RequireArtifacts, OpenIndex, ReadMetadata, EndSearch, Searches, history, vars
    <2> QED
      BY <2>1, <2>2, <2>3 DEF Next
  <1>5. /\ OnDisk = Holdings /\ OnDisk' = Holdings'
        /\ ~lost => Committed = Former("index")
        /\ ~lost' => Committed' = Former("index")'
        /\ Served' = None \/ Served' = Committed'
    BY <1>3, <1>4 DEF Shown
  <1>6. (~broken /\ ~raced)' = (~broken /\ ~raced) /\ (~broken /\ ~raced)
    BY <1>3, <1>4
  <1>7. ASSUME Committed' = Committed PROVE [Atomic!ANext]_Atomic!avars
    <2>1. CASE Served' = None
      BY <1>6, <1>7, <2>1 DEF Atomic!ANext, Atomic!Hide, None
    <2>2. CASE Served' = Committed'
      BY <1>6, <1>7, <2>2 DEF Atomic!ANext, Atomic!Show
    <2> QED
      BY <1>5, <2>1, <2>2
  <1>8. ASSUME UNCHANGED <<live, backup>> PROVE Committed' = Committed
    <2>1. Holdings' = Holdings
      BY <1>8 DEF Holdings
    <2>2. OnDisk' = OnDisk
      BY <1>5, <2>1
    <2> QED
      BY <2>2 DEF Committed
  <1>9. CASE WriterStep
    <2>1. ~lost /\ (SameFormer \/ LeftAsIs \/ (Exchanged /\ Replacing /\ built' = built))
      BY <1>1, <1>9, WriterVersions
    <2>2. CASE lost'
      BY <1>1, <1>7, <1>8, <1>9, <2>1, <2>2, LostKeeps
    <2>3. CASE ~lost' /\ SameFormer
      <3>1. Committed' = Committed
        BY <1>5, <2>1, <2>3 DEF SameFormer, Dirs
      <3> QED
        BY <1>7, <3>1
    <2>4. CASE ~lost' /\ Exchanged /\ Replacing /\ built' = built
      <3>1. /\ "index" \in Dirs /\ "processed" \in Dirs /\ built \in Versions /\ built \in Nat /\ built > 1 /\ MaxVersion \in Nat
            /\ Former("index") < built /\ Former("index") \in Nat /\ built <= MaxVersion
        BY <1>1, <2>4, FormerIsNumber DEF VersionInv, FormerNumbers, Dirs, Typed, HistoryType, CountType, Versions
      <3>2. Committed' = built /\ Committed = Former("index") /\ live'["index"] = built /\ live'["processed"] = built
        BY <1>5, <2>1, <2>4, <3>1 DEF Exchanged
      <3>3. Committed' \in Committed + 1 .. MaxVersion
        BY <3>1, <3>2
      <3>4. sqlite'[built] = built
        BY <1>1, <1>3, <3>1 DEF FilesInv
      <3>5. Served' = built
        BY <3>1, <3>2, <3>4 DEF Served, IndexFile, LiveIndex, LiveProcessed, None
      <3> QED
        BY <1>6, <3>2, <3>3, <3>5 DEF Atomic!ANext, Atomic!Replace
    <2> QED
      BY <1>3, <2>1, <2>2, <2>3, <2>4 DEF LeftAsIs
  <1>10. CASE CompactorStep
    BY <1>1, <1>7, <1>8, <1>10, CompactorKeeps
  <1>11. CASE Searching \/ UNCHANGED vars
    <2>1. UNCHANGED <<live, backup>>
      BY <1>11 DEF Searching, RequireArtifacts, OpenIndex, ReadMetadata, EndSearch, Searches, dirVars, vars
    <2> QED
      BY <1>7, <1>8, <2>1
  <1> QED
    BY <1>9, <1>10, <1>11 DEF Next

-----------------------------------------------------------------------------
\* Every state of the directories, the files inside them and the processes that
\* touch them is well typed, and an attempt that ended leaves nothing in staging.
THEOREM TypeCorrect == Spec => []TypeOK
  <1>1. Inv => TypeOK
    BY DEF Inv, Typed, StageInv, RestInv, TypeOK, DirType, FileType, WriterType, CompactorType, ReaderType, HistoryType,
           CountType, FlagType, Stages, MaybeVersion
  <1> QED
    BY <1>1, Invariance, PTL

\* A search joins hits with the sentences of their own version, or with those of
\* a newer one whose directory came into place between the two reads, unless
\* directories moved during a compaction; so it is after every failure of
\* _publish and in every attempt that follows.
THEOREM SearchesAreOfOneVersion == Spec => []SearchIsOfOneVersion
  <1>1. Inv => SearchIsOfOneVersion
    BY DEF Inv, ReaderInv, Follows, SearchIsOfOneVersion
  <1> QED
    BY <1>1, Invariance, PTL

\* The exchange of the two directories is atomic in the sense of AtomicPublish,
\* with a system call failing or the process dying before any step of _publish
\* or of a compaction, until a roll-back is itself broken off or directories move
\* during a compaction.
THEOREM PublicationIsAtomic == Spec => PublishesAtomically
  <1>1. Inv /\ Inv' /\ Shown /\ Shown' /\ [Next]_vars => [Atomic!ANext]_Atomic!avars
    BY StepAtomic
  <1> QED
    BY <1>1, InitAtomic, Invariance, InvShown, PTL DEF Spec, PublishesAtomically, Atomic!ASpec
=============================================================================
