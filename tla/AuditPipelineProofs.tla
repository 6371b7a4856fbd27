------------------------ MODULE AuditPipelineProofs ------------------------
(***************************************************************************)
(* What AuditPipeline guarantees for every number of audits, processes,    *)
(* copies, retries, outages, rejections and crashes: one process at a time *)
(* holds an audit's claim, an outcome is final and is the one reported,    *)
(* and a message that left its pending list has had its effect.            *)
(***************************************************************************)
EXTENDS AuditPipeline, FiniteSetTheorems, SequenceTheorems, TLAPS

USE BoundsAssumption, ReadCountAssumption

ResultType == [audit : Audits, verdict : Verdicts, version : {Rejection} \cup 0..ResultMaxAttempts]

\* A reader is idle exactly when its batch is empty.
ReaderOK(reader, read) == reader \in Readers(read) /\ (reader.at = "idle") = (reader.batch = <<>>)

-----------------------------------------------------------------------------
(* Readers *)

LEMMA NoBatchOK == ASSUME NEW read \in Nat PROVE ReaderOK(NoBatch, read)
  BY DEF ReaderOK, Readers, NoBatch

\* Moving on within the first entry of a batch.
LEMMA StageOK ==
    ASSUME NEW read \in Nat, NEW reader, ReaderOK(reader, read), reader.at # "idle",
           NEW stage \in {"first", "reject", "ack"}
    PROVE  ReaderOK([reader EXCEPT !.at = stage], read)
  BY DEF ReaderOK, Readers

\* The first entry of a batch is an entry that was read.
LEMMA HeadOK ==
    ASSUME NEW read \in Nat, NEW reader, ReaderOK(reader, read), reader.at # "idle"
    PROVE  reader.batch # <<>> /\ Head(reader.batch) \in 1..read
  BY DEF ReaderOK, Readers

LEMMA AfterFirstOK ==
    ASSUME NEW read \in Nat, NEW reader, ReaderOK(reader, read), reader.at # "idle"
    PROVE  ReaderOK(AfterFirst(reader), read) /\ AfterFirst(reader).at \in {"idle", "first"}
  <1>1. reader.batch \in Seq(1..read) /\ reader.batch # <<>>
    BY DEF ReaderOK, Readers
  <1>2. CASE Len(reader.batch) = 1
    BY <1>2, NoBatchOK DEF AfterFirst, NoBatch
  <1>3. CASE Len(reader.batch) # 1
    <2>1. Tail(reader.batch) \in Seq(1..read) /\ Len(Tail(reader.batch)) = Len(reader.batch) - 1
      BY <1>1, HeadTailProperties
    <2>2. Tail(reader.batch) # <<>>
      <3>1. Len(Tail(reader.batch)) # 0
        BY <1>1, <1>3, <2>1, LenProperties
      <3>2. Len(<<>>) = 0
        BY EmptySeq
      <3> QED
        BY <3>1, <3>2
    <2> QED
      BY <1>3, <2>1, <2>2 DEF AfterFirst, ReaderOK, Readers
  <1> QED
    BY <1>2, <1>3

\* New entries are numbered on from the last that was read, to the stream's end.
LEMMA NewEntriesOK ==
    ASSUME NEW read \in Nat, NEW length \in Nat, NEW ids \in NewEntries(read, length)
    PROVE  /\ Len(ids) \in Nat \ {0}
           /\ read + Len(ids) <= length
           /\ ids \in Seq(1..(read + Len(ids)))
           /\ {ids[k] : k \in DOMAIN ids} = (read + 1)..(read + Len(ids))
  <1>1. PICK c \in 1..ReadCount : ids = [k \in 1..c |-> read + k] /\ \A k \in DOMAIN ids : ids[k] <= length
    BY DEF NewEntries
  <1>2. c \in Nat /\ DOMAIN ids = 1..c /\ Len(ids) = c
    BY <1>1
  <1>3. \A k \in 1..c : ids[k] = read + k /\ ids[k] \in 1..(read + c)
    BY <1>1, <1>2
  <1>4. read + c <= length
    BY <1>1, <1>2, <1>3
  <1>5. ids \in Seq(1..(read + c))
    <2>1. ids \in [1..c -> 1..(read + c)]
      BY <1>1, <1>3
    <2> QED
      BY <1>2, <2>1, SeqDef
  <1>6. ASSUME NEW n \in (read + 1)..(read + c) PROVE n - read \in 1..c /\ ids[n - read] = n
    BY <1>2, <1>3
  <1>7. {ids[k] : k \in DOMAIN ids} = (read + 1)..(read + c)
    <2>1. \A k \in 1..c : ids[k] \in (read + 1)..(read + c)
      BY <1>3, <1>2
    <2> QED
      BY <1>2, <1>6, <2>1
  <1> QED
    BY <1>2, <1>4, <1>5, <1>7

\* A reclaimed batch is not empty, and its entries were pending.
LEMMA IdleEntriesOK ==
    ASSUME NEW read \in Nat, NEW idle, idle # {}, idle \subseteq 1..read, NEW ids \in IdleEntries(idle)
    PROVE  ids \in Seq(1..read) /\ ids # <<>> /\ \A k \in DOMAIN ids : ids[k] \in idle
  <1>1. IsFiniteSet(idle)
    <2>1. IsFiniteSet(1..read)
      BY FS_Interval
    <2> QED
      BY <2>1, FS_Subset
  <1>2. Cardinality(idle) \in Nat /\ Cardinality(idle) # 0
    BY <1>1, FS_CardinalityType, FS_EmptySet
  <1> DEFINE c == IF Cardinality(idle) < ReadCount THEN Cardinality(idle) ELSE ReadCount
  <1>3. c \in Nat \ {0}
    BY <1>2
  <1>4. ids \in [1..c -> idle]
    BY DEF IdleEntries
  <1> HIDE DEF c
  <1>5. ids \in [1..c -> 1..read]
    BY <1>4
  <1>6. ids \in Seq(1..read) /\ DOMAIN ids = 1..c
    BY <1>3, <1>5, SeqDef
  <1>7. 1 \in DOMAIN ids
    BY <1>3, <1>6
  <1>8. ids # <<>>
    BY <1>7
  <1> QED
    BY <1>4, <1>6, <1>8

LEMMA ReadOK ==
    ASSUME NEW read \in Nat, NEW length \in Nat, NEW ids \in NewEntries(read, length)
    PROVE  ReaderOK([at |-> "first", batch |-> ids], read + Len(ids))
  BY NewEntriesOK DEF ReaderOK, Readers

LEMMA ReclaimOK ==
    ASSUME NEW read \in Nat, NEW idle, idle # {}, idle \subseteq 1..read, NEW ids \in IdleEntries(idle)
    PROVE  ReaderOK([at |-> "first", batch |-> ids], read)
  BY IdleEntriesOK DEF ReaderOK, Readers

-----------------------------------------------------------------------------
(* Type correctness *)

\* The parts of TypeOK, by the processes they belong to.
DjangoType ==
    /\ status \in [Audits -> {"absent", "pending", "running"} \cup Ended]
    /\ local \subseteq Audits /\ published \in [Audits -> BOOLEAN]
    /\ recorded \in [Audits -> SUBSET (1..Len(results))]

TaskType ==
    /\ sentTasks \in [Audits -> 0..MaxCopies]
    /\ tasks \subseteq Messages
    /\ worker \in [TaskWorkers -> [at : WorkerStages, msg : Messages] \cup {Idle}]

CommandType ==
    /\ commands \in Seq(Audits) /\ cmdRead \in 0..Len(commands) /\ cmdPending \subseteq 1..cmdRead
    /\ ReaderOK(consumer, cmdRead)

JobType ==
    /\ job \in [Audits -> {"none", "active"} \cup Verdicts]
    /\ attempts \in [Audits -> 0..ResultMaxAttempts] /\ delivered \in [Audits -> BOOLEAN]

ResultsType ==
    /\ results \in Seq(ResultType)
    /\ resRead \in 0..Len(results) /\ resPending \subseteq 1..resRead
    /\ ReaderOK(projector, resRead)

Typed == DjangoType /\ TaskType /\ CommandType /\ JobType /\ ResultsType

LEMMA TypedIsTypeOK == Typed <=> TypeOK
  BY DEF Typed, TypeOK, DjangoType, TaskType, CommandType, JobType, ResultsType, ReaderOK, ResultType

\* A process at a stage has a message of an audit.
LEMMA BusyType ==
    ASSUME TaskType, NEW w \in TaskWorkers, worker[w].at # "idle"
    PROVE  worker[w].at \in WorkerStages /\ worker[w].msg \in Messages /\ worker[w].msg.audit \in Audits
  BY DEF TaskType, Idle, Messages

\* Moving a busy process to another stage keeps its message.
LEMMA WorkerGoes ==
    ASSUME TaskType, NEW w \in TaskWorkers, worker[w].at # "idle", NEW stage \in WorkerStages,
           worker' = [worker EXCEPT ![w].at = stage]
    PROVE  /\ worker' \in [TaskWorkers -> [at : WorkerStages, msg : Messages] \cup {Idle}]
           /\ worker'[w] = [at |-> stage, msg |-> worker[w].msg]
           /\ \A v \in TaskWorkers : v # w => worker'[v] = worker[v]
  <1>1. worker[w] \in [at : WorkerStages, msg : Messages]
    BY DEF TaskType, Idle
  <1>2. [worker[w] EXCEPT !.at = stage] = [at |-> stage, msg |-> worker[w].msg]
    BY <1>1
  <1> QED
    BY <1>1, <1>2 DEF TaskType

\* A stream only grows.
LEMMA CommandsGrow ==
    ASSUME CommandType, NEW a \in Audits, commands' \in {commands, Append(commands, a)},
           UNCHANGED <<cmdRead, cmdPending, consumer>>
    PROVE  /\ CommandType'
           /\ Len(commands) <= Len(commands')
           /\ \A n \in 1..Len(commands) : commands'[n] = commands[n]
  <1>1. commands' \in Seq(Audits) /\ Len(commands) <= Len(commands')
    BY AppendProperties DEF CommandType
  <1>2. \A n \in 1..Len(commands) : commands'[n] = commands[n]
    BY AppendProperties DEF CommandType
  <1>3. cmdRead' \in 0..Len(commands')
    BY <1>1, LenProperties DEF CommandType
  <1> QED
    BY <1>1, <1>2, <1>3 DEF CommandType

LEMMA ResultsGrow ==
    ASSUME Typed, NEW r \in ResultType, results' \in {results, Append(results, r)}
    PROVE  /\ results' \in Seq(ResultType)
           /\ Len(results) \in Nat /\ Len(results') \in Nat /\ Len(results) <= Len(results')
           /\ \A n \in 1..Len(results) : results'[n] = results[n]
           /\ (UNCHANGED <<status, local, published, recorded>> => DjangoType')
           /\ (UNCHANGED <<resRead, resPending, projector>> => ResultsType')
  <1> USE DEF Typed
  <1>1. results' \in Seq(ResultType) /\ Len(results) <= Len(results')
    BY AppendProperties, LenProperties DEF ResultsType
  <1>2. Len(results) \in Nat /\ Len(results') \in Nat
    BY <1>1, LenProperties DEF ResultsType
  <1>3. \A n \in 1..Len(results) : results'[n] = results[n]
    BY AppendProperties DEF ResultsType
  <1>4. 1..Len(results) \subseteq 1..Len(results')
    BY <1>1, <1>2
  <1>5. UNCHANGED <<status, local, published, recorded>> => DjangoType'
    BY <1>4 DEF DjangoType
  <1>6. UNCHANGED <<resRead, resPending, projector>> => ResultsType'
    BY <1>1, <1>2 DEF ResultsType
  <1> QED
    BY <1>1, <1>2, <1>3, <1>5, <1>6

\* Steps of Django before the command is on its stream.
LEMMA TypeTaskStep ==
    ASSUME Typed, NEW w \in TaskWorkers, TaskStep(w) \/ WorkerCrash(w)
    PROVE  Typed'
  <1> USE DEF Typed, djangoVars, taskVars, cmdVars, jobVars, resVars, bounds
  <1>1. JobType' /\ ResultsType'
    BY DEF JobType, ResultsType, TaskStep, ClaimAudit, SkipAudit, PublishCommand, PersistPublication,
           ReleaseForRetry, MarkRefused, RunLocalAudit, WorkerCrash
  <1>2. ASSUME NEW m \in tasks, ClaimAudit(w, m) PROVE Typed'
    <2>1. [at |-> "claimed", msg |-> m] \in [at : WorkerStages, msg : Messages]
      BY DEF TaskType, WorkerStages
    <2> QED
      BY <1>1, <1>2, <2>1 DEF ClaimAudit, DjangoType, TaskType, CommandType
  <1>3. ASSUME NEW m \in tasks, SkipAudit(w, m) PROVE Typed'
    BY <1>1, <1>3 DEF SkipAudit, DjangoType, TaskType, CommandType
  <1>4. CASE PublishCommand(w)
    <2>1. worker[w].at # "idle" /\ worker[w].msg.audit \in Audits
      BY <1>4, BusyType DEF PublishCommand
    <2>2. TaskType'
      BY <1>4, <2>1, WorkerGoes DEF PublishCommand, TaskType, WorkerStages
    <2>3. CommandType'
      <3>1. commands' \in {commands, Append(commands, worker[w].msg.audit)}
        BY <1>4 DEF PublishCommand
      <3> QED
        BY <1>4, <2>1, <3>1, CommandsGrow DEF PublishCommand
    <2> QED
      BY <1>1, <1>4, <2>2, <2>3 DEF PublishCommand, DjangoType
  <1>5. CASE PersistPublication(w) \/ MarkRefused(w) \/ RunLocalAudit(w)
    <2>1. worker[w].msg.audit \in Audits
      BY <1>5, BusyType DEF PersistPublication, MarkRefused, RunLocalAudit
    <2>2. DjangoType'
      BY <1>5, <2>1 DEF PersistPublication, MarkRefused, RunLocalAudit, FailedBy, DjangoType, Ended
    <2> QED
      BY <1>1, <1>5, <2>2 DEF PersistPublication, MarkRefused, RunLocalAudit, TaskType, CommandType
  <1>6. CASE ReleaseForRetry(w)
    <2>1. worker[w].msg \in Messages /\ worker[w].msg.audit \in Audits
      BY <1>6, BusyType DEF ReleaseForRetry
    <2>2. worker[w].msg.retries < MaxRetries => [worker[w].msg EXCEPT !.retries = @ + 1] \in Messages
      BY <2>1 DEF Messages
    <2>3. DjangoType'
      BY <1>6, <2>1 DEF ReleaseForRetry, DjangoType
    <2>4. TaskType'
      BY <1>6, <2>2 DEF ReleaseForRetry, TaskType
    <2> QED
      BY <1>1, <1>6, <2>3, <2>4 DEF ReleaseForRetry, CommandType
  <1>7. CASE WorkerCrash(w)
    <2>1. worker[w].msg \in Messages
      BY <1>7 DEF WorkerCrash, TaskType
    <2> QED
      BY <1>1, <1>7, <2>1 DEF WorkerCrash, DjangoType, TaskType, CommandType
  <1> QED
    BY <1>2, <1>3, <1>4, <1>5, <1>6, <1>7 DEF TaskStep

\* Creation, the outbox and the job.
LEMMA TypeAuditStep ==
    ASSUME Typed, NEW a \in Audits,
           CreateParallelAudit(a) \/ OutboxSends(a) \/ JobEnds(a) \/ PublishResult(a)
    PROVE  Typed'
  <1> USE DEF Typed, djangoVars, taskVars, cmdVars, jobVars, resVars, bounds
  <1>1. CASE CreateParallelAudit(a)
    BY <1>1 DEF CreateParallelAudit, DjangoType, TaskType, CommandType, JobType, ResultsType
  <1>2. CASE OutboxSends(a)
    <2>1. sentTasks[a] + 1 \in 1..MaxCopies
      BY <1>2 DEF OutboxSends, TaskType
    <2>2. [audit |-> a, copy |-> sentTasks[a] + 1, retries |-> 0] \in Messages
      BY <2>1 DEF Messages
    <2>3. TaskType'
      BY <1>2, <2>1, <2>2 DEF OutboxSends, TaskType
    <2> QED
      BY <1>2, <2>3 DEF OutboxSends, DjangoType, CommandType, JobType, ResultsType
  <1>3. CASE JobEnds(a)
    BY <1>3 DEF JobEnds, DjangoType, TaskType, CommandType, JobType, ResultsType, Verdicts
  <1>4. CASE PublishResult(a)
    <2> DEFINE r == [audit |-> a, verdict |-> job[a], version |-> attempts[a]]
    <2>1. r \in ResultType
      BY <1>4 DEF PublishResult, JobType, ResultType
    <2>2. results' \in {results, Append(results, r)}
      BY <1>4 DEF PublishResult
    <2>3. DjangoType' /\ ResultsType'
      BY <1>4, <2>1, <2>2, ResultsGrow DEF PublishResult
    <2>4. JobType'
      <3>1. attempts[a] + 1 \in 0..ResultMaxAttempts
        BY <1>4 DEF PublishResult, JobType
      <3> QED
        BY <1>4, <3>1 DEF PublishResult, JobType
    <2> QED
      BY <1>4, <2>3, <2>4 DEF PublishResult, TaskType, CommandType
  <1> QED
    BY <1>1, <1>2, <1>3, <1>4

\* The consumer of commands.
LEMMA TypeConsumerStep ==
    ASSUME Typed, ConsumerStep \/ ConsumerCrash
    PROVE  Typed'
  <1> USE DEF Typed, djangoVars, taskVars, cmdVars, jobVars, resVars, bounds
  <1>1. TaskType'
    BY DEF TaskType, ConsumerStep, ReadCommands, ReclaimCommands, SubmitCommand, PublishRejection, AckCommand,
           ConsumerCrash
  <1>2. cmdRead \in Nat /\ Len(commands) \in Nat /\ cmdRead <= Len(commands)
    BY LenProperties DEF CommandType
  <1>3. consumer.at # "idle" => Head(consumer.batch) \in 1..cmdRead /\ commands[Head(consumer.batch)] \in Audits
    BY <1>2, HeadOK, ElementOfSeq DEF CommandType
  <1>4. CASE ReadCommands
    <2>1. PICK ids \in NewEntries(cmdRead, Len(commands)) :
              /\ consumer' = [at |-> "first", batch |-> ids]
              /\ cmdRead' = cmdRead + Len(ids)
              /\ cmdPending' = cmdPending \cup {ids[k] : k \in DOMAIN ids}
      BY <1>4 DEF ReadCommands
    <2>2. cmdRead' \in cmdRead .. Len(commands) /\ {ids[k] : k \in DOMAIN ids} = (cmdRead + 1) .. cmdRead'
      <3>1. /\ Len(ids) \in Nat /\ cmdRead + Len(ids) <= Len(commands)
            /\ {ids[k] : k \in DOMAIN ids} = (cmdRead + 1) .. (cmdRead + Len(ids))
        BY <1>2, NewEntriesOK
      <3> QED
        BY <1>2, <2>1, <3>1
    <2>3. cmdPending' \subseteq 1..cmdRead'
      <3>1. cmdPending' = cmdPending \cup ((cmdRead + 1) .. cmdRead')
        BY <2>1, <2>2
      <3> QED
        BY <1>2, <2>2, <3>1 DEF CommandType
    <2>4. ReaderOK(consumer', cmdRead')
      BY <1>2, <2>1, ReadOK
    <2>5. CommandType'
      BY <1>2, <1>4, <2>2, <2>3, <2>4 DEF ReadCommands, CommandType
    <2> QED
      BY <1>1, <1>4, <2>5 DEF ReadCommands, DjangoType, JobType, ResultsType
  <1>5. ASSUME NEW idle \in SUBSET cmdPending, ReclaimCommands(idle) PROVE Typed'
    <2>1. PICK ids \in IdleEntries(idle) : consumer' = [at |-> "first", batch |-> ids]
      BY <1>5 DEF ReclaimCommands
    <2>2. idle # {} /\ idle \subseteq 1..cmdRead
      BY <1>5 DEF ReclaimCommands, CommandType
    <2>3. ReaderOK(consumer', cmdRead)
      BY <1>2, <2>1, <2>2, ReclaimOK
    <2> QED
      BY <1>1, <1>5, <2>3 DEF ReclaimCommands, DjangoType, JobType, ResultsType, CommandType
  <1>6. CASE SubmitCommand
    <2>1. ReaderOK(consumer', cmdRead)
      <3>1. ReaderOK([consumer EXCEPT !.at = "ack"], cmdRead) /\ ReaderOK([consumer EXCEPT !.at = "reject"], cmdRead)
        BY <1>2, <1>6, StageOK DEF SubmitCommand, CommandType
      <3> QED
        BY <1>6, <3>1 DEF SubmitCommand
    <2>2. JobType'
      BY <1>3, <1>6 DEF SubmitCommand, JobType
    <2> QED
      BY <1>1, <1>6, <2>1, <2>2 DEF SubmitCommand, DjangoType, CommandType, ResultsType
  <1>7. CASE PublishRejection
    <2> DEFINE r == [audit |-> commands[Head(consumer.batch)], verdict |-> "failed", version |-> Rejection]
    <2>1. r \in ResultType
      BY <1>3, <1>7 DEF PublishRejection, ResultType, Verdicts
    <2>2. results' \in {results, Append(results, r)}
      BY <1>7 DEF PublishRejection
    <2>3. DjangoType' /\ ResultsType'
      BY <1>7, <2>1, <2>2, ResultsGrow DEF PublishRejection
    <2>4. ReaderOK(consumer', cmdRead)
      BY <1>2, <1>7, StageOK, AfterFirstOK DEF PublishRejection, CommandType
    <2> QED
      BY <1>1, <1>7, <2>3, <2>4 DEF PublishRejection, CommandType, JobType
  <1>8. CASE AckCommand
    <2>1. ReaderOK(consumer', cmdRead)
      BY <1>2, <1>8, AfterFirstOK DEF AckCommand, CommandType
    <2> QED
      BY <1>1, <1>8, <2>1 DEF AckCommand, DjangoType, CommandType, JobType, ResultsType
  <1>9. CASE ConsumerCrash
    <2>1. ReaderOK(consumer', cmdRead)
      BY <1>2, <1>9, NoBatchOK DEF ConsumerCrash
    <2> QED
      BY <1>1, <1>9, <2>1 DEF ConsumerCrash, DjangoType, CommandType, JobType, ResultsType
  <1> QED
    BY <1>4, <1>5, <1>6, <1>7, <1>8, <1>9 DEF ConsumerStep

\* The entry the projector deals with is an entry that was read.
LEMMA ProjectedOK ==
    ASSUME Typed, projector.at # "idle"
    PROVE  /\ Head(projector.batch) \in 1..resRead
           /\ Head(projector.batch) \in 1..Len(results)
           /\ results[Head(projector.batch)] \in ResultType
  <1>1. resRead \in Nat /\ Len(results) \in Nat /\ resRead <= Len(results)
    BY LenProperties DEF Typed, ResultsType
  <1>2. Head(projector.batch) \in 1..resRead
    BY <1>1, HeadOK DEF Typed, ResultsType
  <1> QED
    BY <1>1, <1>2, ElementOfSeq DEF Typed, ResultsType

\* The projector.
LEMMA TypeProjectorStep ==
    ASSUME Typed, ProjectorStep \/ ProjectorCrash
    PROVE  Typed'
  <1> USE DEF Typed, djangoVars, taskVars, cmdVars, jobVars, resVars, bounds
  <1>1. TaskType' /\ CommandType' /\ JobType'
    BY DEF TaskType, CommandType, JobType, ProjectorStep, ReadResults, ReclaimResults, ApplyResult, SkipResult,
           RejectResult, AckResult, ProjectorCrash
  <1>2. resRead \in Nat /\ Len(results) \in Nat /\ resRead <= Len(results)
    BY LenProperties DEF ResultsType
  <1>3. CASE ReadResults
    <2>1. PICK ids \in NewEntries(resRead, Len(results)) :
              /\ projector' = [at |-> "first", batch |-> ids]
              /\ resRead' = resRead + Len(ids)
              /\ resPending' = resPending \cup {ids[k] : k \in DOMAIN ids}
      BY <1>3 DEF ReadResults
    <2>2. resRead' \in resRead .. Len(results) /\ {ids[k] : k \in DOMAIN ids} = (resRead + 1) .. resRead'
      <3>1. /\ Len(ids) \in Nat /\ resRead + Len(ids) <= Len(results)
            /\ {ids[k] : k \in DOMAIN ids} = (resRead + 1) .. (resRead + Len(ids))
        BY <1>2, NewEntriesOK
      <3> QED
        BY <1>2, <2>1, <3>1
    <2>3. resPending' \subseteq 1..resRead'
      <3>1. resPending' = resPending \cup ((resRead + 1) .. resRead')
        BY <2>1, <2>2
      <3> QED
        BY <1>2, <2>2, <3>1 DEF ResultsType
    <2>4. ReaderOK(projector', resRead')
      BY <1>2, <2>1, ReadOK
    <2>5. ResultsType'
      BY <1>2, <1>3, <2>2, <2>3, <2>4 DEF ReadResults, ResultsType
    <2> QED
      BY <1>1, <1>3, <2>5 DEF ReadResults, DjangoType
  <1>4. ASSUME NEW idle \in SUBSET resPending, ReclaimResults(idle) PROVE Typed'
    <2>1. PICK ids \in IdleEntries(idle) : projector' = [at |-> "first", batch |-> ids]
      BY <1>4 DEF ReclaimResults
    <2>2. idle # {} /\ idle \subseteq 1..resRead
      BY <1>4 DEF ReclaimResults, ResultsType
    <2>3. ReaderOK(projector', resRead)
      BY <1>2, <2>1, <2>2, ReclaimOK
    <2> QED
      BY <1>1, <1>4, <2>3 DEF ReclaimResults, DjangoType, ResultsType
  <1>5. CASE ApplyResult
    <2>1. ReaderOK(projector', resRead)
      BY <1>2, <1>5, StageOK DEF ApplyResult, ResultsType
    <2>2. DjangoType'
      BY <1>5, ProjectedOK DEF ApplyResult, DjangoType, ResultType, StatusOf, Ended
    <2> QED
      BY <1>1, <1>5, <2>1, <2>2 DEF ApplyResult, ResultsType
  <1>6. CASE SkipResult \/ RejectResult
    <2>1. ReaderOK(projector', resRead)
      <3>1. ReaderOK([projector EXCEPT !.at = "ack"], resRead) /\ ReaderOK(AfterFirst(projector), resRead)
        BY <1>2, <1>6, StageOK, AfterFirstOK DEF SkipResult, RejectResult, ResultsType
      <3> QED
        BY <1>6, <3>1 DEF SkipResult, RejectResult
    <2> QED
      BY <1>1, <1>6, <2>1 DEF SkipResult, RejectResult, DjangoType, ResultsType
  <1>7. CASE AckResult \/ ProjectorCrash
    <2>1. ReaderOK(projector', resRead)
      BY <1>2, <1>7, NoBatchOK, AfterFirstOK DEF AckResult, ProjectorCrash, ResultsType
    <2> QED
      BY <1>1, <1>7, <2>1 DEF AckResult, ProjectorCrash, DjangoType, ResultsType
  <1> QED
    BY <1>3, <1>4, <1>5, <1>6, <1>7 DEF ProjectorStep

LEMMA TypeInit == Init => Typed
  <1> SUFFICES ASSUME Init PROVE Typed
    OBVIOUS
  <1> USE DEF Init
  <1>1. Len(<<>>) = 0 /\ ReaderOK(NoBatch, 0)
    BY EmptySeq, NoBatchOK
  <1> QED
    BY <1>1, EmptySeq
       DEF Typed, DjangoType, TaskType, CommandType, JobType, ResultsType

LEMMA TypeStep == Typed /\ [Next]_vars => Typed'
  <1>1. ASSUME Typed, Next PROVE Typed'
    BY <1>1, TypeAuditStep, TypeTaskStep, TypeConsumerStep, TypeProjectorStep DEF Next
  <1>2. ASSUME Typed, UNCHANGED vars PROVE Typed'
    BY <1>2 DEF vars, djangoVars, taskVars, cmdVars, jobVars, resVars,
                Typed, DjangoType, TaskType, CommandType, JobType, ResultsType
  <1> QED
    BY <1>1, <1>2

\* Rows, messages, processes, streams and readers keep their types: a reader
\* is at an entry it has read, and has read no further than the stream goes.
THEOREM TypeCorrect == Spec => []TypeOK
  BY TypeInit, TypeStep, TypedIsTypeOK, PTL DEF Spec

-----------------------------------------------------------------------------
(* Claims and outcomes *)

\* Which way a row's status can go: an end is final, and only the process that
\* gives an audit back makes it wait again.
LEMMA StatusChanges ==
    ASSUME Typed, Next, NEW a \in Audits
    PROVE  \/ status'[a] = status[a]
           \/ status[a] = "absent" /\ status'[a] = "pending"
           \/ status[a] = "pending" /\ status'[a] = "running"
           \/ /\ status[a] = "running" /\ status'[a] = "pending"
              /\ \E w \in TaskWorkers :
                    worker[w].at = "release" /\ worker[w].msg.audit = a /\ worker'[w].at = "idle"
           \/ status[a] \notin Ended /\ status'[a] \in Ended
  <1> USE DEF Typed, djangoVars, taskVars, cmdVars, jobVars, resVars, bounds
  <1>1. ASSUME NEW b \in Audits, CreateParallelAudit(b) PROVE status'[a] = status[a] \/ (status[a] = "absent" /\ status'[a] = "pending")
    BY <1>1 DEF CreateParallelAudit, DjangoType
  <1>2. ASSUME NEW w \in TaskWorkers, NEW m \in tasks, ClaimAudit(w, m)
        PROVE  status'[a] = status[a] \/ (status[a] = "pending" /\ status'[a] = "running")
    BY <1>2 DEF ClaimAudit, DjangoType
  <1>3. ASSUME NEW w \in TaskWorkers, ReleaseForRetry(w)
        PROVE  \/ status'[a] = status[a]
               \/ /\ status[a] = "running" /\ status'[a] = "pending"
                  /\ worker[w].at = "release" /\ worker[w].msg.audit = a /\ worker'[w].at = "idle"
    BY <1>3 DEF ReleaseForRetry, DjangoType, TaskType, Idle
  <1>4. ASSUME NEW w \in TaskWorkers, MarkRefused(w) \/ RunLocalAudit(w)
        PROVE  status'[a] = status[a] \/ (status[a] \notin Ended /\ status'[a] \in Ended)
    BY <1>4 DEF MarkRefused, RunLocalAudit, FailedBy, DjangoType, Ended
  <1>5. CASE ApplyResult
    BY <1>5, ProjectedOK DEF ApplyResult, Applies, DjangoType, StatusOf, Ended, ResultType
  <1>6. CASE UNCHANGED status
    BY <1>6
  <1>7. ASSUME NEW b \in Audits, OutboxSends(b) \/ JobEnds(b) \/ PublishResult(b) PROVE UNCHANGED status
    BY <1>7 DEF OutboxSends, JobEnds, PublishResult
  <1>8. ASSUME NEW w \in TaskWorkers,
               \/ \E m \in tasks : SkipAudit(w, m)
               \/ PublishCommand(w) \/ PersistPublication(w) \/ WorkerCrash(w)
        PROVE  UNCHANGED status
    BY <1>8 DEF SkipAudit, PublishCommand, PersistPublication, WorkerCrash
  <1>9. ConsumerStep \/ ConsumerCrash => UNCHANGED status
    BY DEF ConsumerStep, ReadCommands, ReclaimCommands, SubmitCommand, PublishRejection, AckCommand, ConsumerCrash
  <1>10. ProjectorStep \/ ProjectorCrash => UNCHANGED status \/ ApplyResult
    BY DEF ProjectorStep, ReadResults, ReclaimResults, SkipResult, RejectResult, AckResult, ProjectorCrash
  <1> QED
    BY <1>1, <1>2, <1>3, <1>4, <1>5, <1>6, <1>7, <1>8, <1>9, <1>10 DEF Next, TaskStep

\* An audit that ended keeps its outcome, whatever retries, late releases,
\* duplicates and conflicting results follow.
THEOREM OutcomesAreFinal == Spec => OutcomeIsFinal
  <1>1. Typed /\ [Next]_vars => [\A a \in Audits : status[a] \in Ended => status'[a] = status[a]]_vars
    BY StatusChanges DEF Ended
  <1> QED
    BY <1>1, TypeInit, TypeStep, PTL DEF Spec, OutcomeIsFinal

\* What a process can come to: it keeps its message, or claims a waiting audit.
LEMMA WorkerChanges ==
    ASSUME Typed, Next, NEW w \in TaskWorkers, worker'[w].at # "idle"
    PROVE  \/ worker[w].at # "idle" /\ worker'[w].msg = worker[w].msg
           \/ /\ status[worker'[w].msg.audit] = "pending" /\ status'[worker'[w].msg.audit] = "running"
              /\ \A v \in TaskWorkers : v # w => worker'[v] = worker[v]
  <1> USE DEF Typed, djangoVars, taskVars, cmdVars, jobVars, resVars, bounds
  <1>1. CASE worker'[w] = worker[w]
    BY <1>1
  <1>2. ASSUME NEW b \in Audits, CreateParallelAudit(b) \/ OutboxSends(b) \/ JobEnds(b) \/ PublishResult(b)
        PROVE  worker'[w] = worker[w]
    BY <1>2 DEF CreateParallelAudit, OutboxSends, JobEnds, PublishResult
  <1>3. ConsumerStep \/ ConsumerCrash => worker'[w] = worker[w]
    BY DEF ConsumerStep, ReadCommands, ReclaimCommands, SubmitCommand, PublishRejection, AckCommand, ConsumerCrash
  <1>4. ProjectorStep \/ ProjectorCrash => worker'[w] = worker[w]
    BY DEF ProjectorStep, ReadResults, ReclaimResults, ApplyResult, SkipResult, RejectResult, AckResult, ProjectorCrash
  <1>5. ASSUME NEW v \in TaskWorkers, v # w, TaskStep(v) \/ WorkerCrash(v) PROVE worker'[w] = worker[w]
    BY <1>5 DEF TaskStep, WorkerCrash, ClaimAudit, SkipAudit, PublishCommand, PersistPublication, ReleaseForRetry,
                MarkRefused, RunLocalAudit, TaskType
  <1>6. ASSUME NEW m \in tasks, ClaimAudit(w, m)
        PROVE  /\ status[worker'[w].msg.audit] = "pending" /\ status'[worker'[w].msg.audit] = "running"
               /\ \A v \in TaskWorkers : v # w => worker'[v] = worker[v]
    <2>1. worker'[w] = [at |-> "claimed", msg |-> m] /\ \A v \in TaskWorkers : v # w => worker'[v] = worker[v]
      BY <1>6 DEF ClaimAudit, TaskType
    <2>2. m.audit \in Audits
      BY DEF TaskType, Messages
    <2> QED
      BY <1>6, <2>1, <2>2 DEF ClaimAudit, DjangoType
  <1>7. CASE PublishCommand(w)
    <2>1. PICK stage \in WorkerStages : worker' = [worker EXCEPT ![w].at = stage]
      BY <1>7 DEF PublishCommand, WorkerStages
    <2>2. worker[w].at # "idle"
      BY <1>7 DEF PublishCommand
    <2> QED
      BY <2>1, <2>2, WorkerGoes
  <1>8. ASSUME \/ \E m \in tasks : SkipAudit(w, m)
               \/ PersistPublication(w) \/ ReleaseForRetry(w) \/ MarkRefused(w) \/ RunLocalAudit(w) \/ WorkerCrash(w)
        PROVE  worker'[w] = worker[w] \/ worker'[w].at = "idle"
    BY <1>8 DEF SkipAudit, PersistPublication, ReleaseForRetry, MarkRefused, RunLocalAudit, WorkerCrash, TaskType, Idle
  <1> QED
    BY <1>1, <1>2, <1>3, <1>4, <1>5, <1>6, <1>7, <1>8 DEF Next, TaskStep

\* A claimed audit neither waits nor is it yet to be created.
ClaimedIsStarted == \A w \in TaskWorkers : worker[w].at # "idle" => status[worker[w].msg.audit] \in {"running"} \cup Ended

ClaimInv == OneClaimant /\ ClaimedIsStarted

LEMMA ClaimInit == Init => ClaimInv
  BY DEF Init, Idle, ClaimInv, OneClaimant, ClaimedIsStarted

LEMMA ClaimStep == Typed /\ ClaimInv /\ [Next]_vars => ClaimInv'
  <1>1. ASSUME Typed, ClaimInv, Next PROVE OneClaimant'
    <2> SUFFICES ASSUME NEW v \in TaskWorkers, NEW w \in TaskWorkers, v # w,
                        worker'[v].at # "idle", worker'[w].at # "idle",
                        worker'[v].msg.audit = worker'[w].msg.audit
                 PROVE  FALSE
      BY DEF OneClaimant
    <2>1. CASE worker[v].at # "idle" /\ worker'[v].msg = worker[v].msg /\ worker[w].at # "idle" /\ worker'[w].msg = worker[w].msg
      BY <1>1, <2>1 DEF ClaimInv, OneClaimant
    <2>2. ASSUME NEW x \in TaskWorkers, NEW y \in TaskWorkers, x # y, worker'[y].at # "idle",
                 worker'[x].msg.audit = worker'[y].msg.audit,
                 status[worker'[x].msg.audit] = "pending", worker'[y] = worker[y]
          PROVE  FALSE
      BY <1>1, <2>2 DEF ClaimInv, ClaimedIsStarted, Ended
    <2> QED
      BY <1>1, <2>1, <2>2, WorkerChanges
  <1>2. ASSUME Typed, ClaimInv, Next PROVE ClaimedIsStarted'
    <2> SUFFICES ASSUME NEW w \in TaskWorkers, worker'[w].at # "idle"
                 PROVE  status'[worker'[w].msg.audit] \in {"running"} \cup Ended
      BY DEF ClaimedIsStarted
    <2>1. CASE worker[w].at # "idle" /\ worker'[w].msg = worker[w].msg
      <3> DEFINE a == worker[w].msg.audit
      <3>1. a \in Audits /\ status[a] \in {"running"} \cup Ended
        BY <1>2, <2>1, BusyType DEF Typed, ClaimInv, ClaimedIsStarted
      <3>2. ASSUME NEW v \in TaskWorkers, worker[v].at = "release", worker[v].msg.audit = a, worker'[v].at = "idle"
            PROVE  FALSE
        BY <1>2, <2>1, <3>2 DEF ClaimInv, OneClaimant
      <3> QED
        BY <1>2, <2>1, <3>1, <3>2, StatusChanges DEF Ended
    <2>2. CASE status'[worker'[w].msg.audit] = "running"
      BY <2>2
    <2> QED
      BY <1>2, <2>1, <2>2, WorkerChanges
  <1>3. ASSUME ClaimInv, UNCHANGED vars PROVE ClaimInv'
    BY <1>3 DEF vars, djangoVars, taskVars, ClaimInv, OneClaimant, ClaimedIsStarted
  <1> QED
    BY <1>1, <1>2, <1>3 DEF ClaimInv

\* However tasks are duplicated, retried and redelivered, an audit has at most
\* one process between its claim and the write that ends the claim.
THEOREM ClaimsAreExclusive == Spec => []OneClaimant
  <1>1. ClaimInv => OneClaimant
    BY DEF ClaimInv
  <1> QED
    BY <1>1, TypeInit, TypeStep, ClaimInit, ClaimStep, PTL DEF Spec
-----------------------------------------------------------------------------
(* What is reported *)

\* Both streams only grow, and their entries stay as they are.
LEMMA StreamsGrow ==
    ASSUME Typed, Next
    PROVE  /\ Len(commands) \in Nat /\ Len(commands') \in Nat /\ Len(commands) <= Len(commands')
           /\ \A n \in 1..Len(commands) : commands'[n] = commands[n]
           /\ Len(results) \in Nat /\ Len(results') \in Nat /\ Len(results) <= Len(results')
           /\ \A n \in 1..Len(results) : results'[n] = results[n]
  <1> USE DEF Typed, djangoVars, taskVars, cmdVars, jobVars, resVars, bounds
  <1>1. Len(commands) \in Nat /\ Len(results) \in Nat
    BY LenProperties DEF CommandType, ResultsType
  <1>2. ASSUME NEW w \in TaskWorkers, PublishCommand(w)
        PROVE  /\ Len(commands') \in Nat /\ Len(commands) <= Len(commands')
               /\ \A n \in 1..Len(commands) : commands'[n] = commands[n]
               /\ UNCHANGED results
    <2>1. worker[w].msg.audit \in Audits /\ commands' \in {commands, Append(commands, worker[w].msg.audit)}
      BY <1>2, BusyType DEF PublishCommand
    <2>2. UNCHANGED <<cmdRead, cmdPending, consumer, results>>
      BY <1>2 DEF PublishCommand
    <2> QED
      BY <2>1, <2>2, CommandsGrow, LenProperties DEF CommandType
  <1>3. ASSUME NEW a \in Audits, PublishResult(a)
        PROVE  /\ Len(results') \in Nat /\ Len(results) <= Len(results')
               /\ \A n \in 1..Len(results) : results'[n] = results[n]
               /\ UNCHANGED commands
    <2> DEFINE r == [audit |-> a, verdict |-> job[a], version |-> attempts[a]]
    <2>1. r \in ResultType /\ results' \in {results, Append(results, r)} /\ UNCHANGED commands
      BY <1>3 DEF PublishResult, JobType, ResultType
    <2> HIDE DEF r
    <2> QED
      BY <2>1, ResultsGrow
  <1>4. ASSUME PublishRejection
        PROVE  /\ Len(results') \in Nat /\ Len(results) <= Len(results')
               /\ \A n \in 1..Len(results) : results'[n] = results[n]
               /\ UNCHANGED commands
    <2> DEFINE r == [audit |-> commands[Head(consumer.batch)], verdict |-> "failed", version |-> Rejection]
    <2>1. commands[Head(consumer.batch)] \in Audits
      BY <1>1, <1>4, HeadOK, ElementOfSeq DEF PublishRejection, CommandType
    <2>2. r \in ResultType /\ results' \in {results, Append(results, r)} /\ UNCHANGED commands
      BY <1>4, <2>1 DEF PublishRejection, ResultType, Verdicts
    <2> HIDE DEF r
    <2> QED
      BY <2>2, ResultsGrow
  <1>5. ASSUME UNCHANGED <<commands, results>>
        PROVE  /\ Len(commands') \in Nat /\ Len(commands) <= Len(commands')
               /\ \A n \in 1..Len(commands) : commands'[n] = commands[n]
               /\ Len(results') \in Nat /\ Len(results) <= Len(results')
               /\ \A n \in 1..Len(results) : results'[n] = results[n]
    BY <1>1, <1>5
  <1>6. ASSUME NEW b \in Audits, CreateParallelAudit(b) \/ OutboxSends(b) \/ JobEnds(b)
        PROVE  UNCHANGED <<commands, results>>
    BY <1>6 DEF CreateParallelAudit, OutboxSends, JobEnds
  <1>7. ASSUME NEW w \in TaskWorkers,
               \/ \E m \in tasks : ClaimAudit(w, m) \/ SkipAudit(w, m)
               \/ PersistPublication(w) \/ ReleaseForRetry(w) \/ MarkRefused(w) \/ RunLocalAudit(w) \/ WorkerCrash(w)
        PROVE  UNCHANGED <<commands, results>>
    BY <1>7 DEF ClaimAudit, SkipAudit, PersistPublication, ReleaseForRetry, MarkRefused, RunLocalAudit, WorkerCrash
  <1>8. ConsumerStep \/ ConsumerCrash => UNCHANGED <<commands, results>> \/ PublishRejection
    BY DEF ConsumerStep, ReadCommands, ReclaimCommands, SubmitCommand, AckCommand, ConsumerCrash
  <1>9. ProjectorStep \/ ProjectorCrash => UNCHANGED <<commands, results>>
    BY DEF ProjectorStep, ReadResults, ReclaimResults, ApplyResult, SkipResult, RejectResult, AckResult, ProjectorCrash
  <1>10. CASE UNCHANGED <<commands, results>>
    BY <1>1, <1>5, <1>10
  <1>11. CASE PublishRejection
    BY <1>1, <1>4, <1>11
  <1>12. CASE \E a \in Audits : PublishResult(a)
    BY <1>1, <1>3, <1>12
  <1>13. CASE \E w \in TaskWorkers : PublishCommand(w)
    BY <1>1, <1>2, <1>13
  <1> QED
    BY <1>6, <1>7, <1>8, <1>9, <1>10, <1>11, <1>12, <1>13 DEF Next, TaskStep

\* A row records a result only when that result is projected, with its
\* verdict; without one, only a local run makes it a success.
LEMMA ReportChanges ==
    ASSUME Typed, Next, NEW a \in Audits
    PROVE  /\ local \subseteq local'
           /\ \/ recorded'[a] = recorded[a] /\ (status'[a] = "success" => status[a] = "success" \/ a \in local)
              \/ \E n \in 1..Len(results) :
                    /\ recorded'[a] = {n} /\ results[n].audit = a /\ status'[a] = StatusOf(results[n].verdict)
  <1> USE DEF Typed, djangoVars, taskVars, cmdVars, jobVars, resVars, bounds
  <1>1. ASSUME NEW b \in Audits, CreateParallelAudit(b)
        PROVE  local \subseteq local' /\ UNCHANGED recorded /\ (status'[a] = "success" => status[a] = "success")
    BY <1>1 DEF CreateParallelAudit, DjangoType
  <1>2. ASSUME NEW w \in TaskWorkers, TaskStep(w) \/ WorkerCrash(w)
        PROVE  UNCHANGED <<local, recorded>> /\ (status'[a] = "success" => status[a] = "success" \/ a \in local)
    BY <1>2, BusyType DEF TaskStep, WorkerCrash, ClaimAudit, SkipAudit, PublishCommand, PersistPublication, ReleaseForRetry,
                MarkRefused, RunLocalAudit, FailedBy, DjangoType
  <1>3. CASE ApplyResult
    <2> DEFINE h == Head(projector.batch)
    <2>1. h \in 1..Len(results) /\ results[h].audit \in Audits
      BY <1>3, ProjectedOK DEF ApplyResult, ResultType
    <2>2. UNCHANGED local
      BY <1>3 DEF ApplyResult
    <2>3. /\ status' = [status EXCEPT ![results[h].audit] = StatusOf(results[h].verdict)]
          /\ recorded' = [recorded EXCEPT ![results[h].audit] = {h}]
      BY <1>3 DEF ApplyResult
    <2> HIDE DEF h
    <2>4. CASE results[h].audit = a
      BY <2>1, <2>2, <2>3, <2>4 DEF DjangoType
    <2>5. CASE results[h].audit # a
      BY <2>1, <2>2, <2>3, <2>5 DEF DjangoType
    <2> QED
      BY <2>4, <2>5
  <1>4. ASSUME NEW b \in Audits, OutboxSends(b) \/ JobEnds(b) \/ PublishResult(b) PROVE UNCHANGED <<status, local, recorded>>
    BY <1>4 DEF OutboxSends, JobEnds, PublishResult
  <1>5. ConsumerStep \/ ConsumerCrash => UNCHANGED <<status, local, recorded>>
    BY DEF ConsumerStep, ReadCommands, ReclaimCommands, SubmitCommand, PublishRejection, AckCommand, ConsumerCrash
  <1>6. ProjectorStep \/ ProjectorCrash => UNCHANGED <<status, local, recorded>> \/ ApplyResult
    BY DEF ProjectorStep, ReadResults, ReclaimResults, SkipResult, RejectResult, AckResult, ProjectorCrash
  <1>7. CASE UNCHANGED <<status, local, recorded>>
    BY <1>7
  <1> QED
    BY <1>1, <1>2, <1>3, <1>4, <1>5, <1>6, <1>7 DEF Next

RecordedIsReported ==
    \A a \in Audits : \A n \in recorded[a] : results[n].audit = a /\ status[a] = StatusOf(results[n].verdict)

UnreportedIsNoSuccess == \A a \in Audits \ local : recorded[a] = {} => status[a] # "success"

ReportInv == RecordedIsReported /\ UnreportedIsNoSuccess

LEMMA ReportInit == Init => ReportInv
  BY DEF Init, ReportInv, RecordedIsReported, UnreportedIsNoSuccess

LEMMA ReportStep == Typed /\ ReportInv /\ [Next]_vars => ReportInv'
  <1>1. ASSUME Typed, ReportInv, Next PROVE RecordedIsReported'
    <2> SUFFICES ASSUME NEW a \in Audits, NEW n \in recorded'[a]
                 PROVE  results'[n].audit = a /\ status'[a] = StatusOf(results'[n].verdict)
      BY DEF RecordedIsReported
    <2>1. CASE recorded'[a] = recorded[a]
      <3>1. n \in 1..Len(results) /\ results'[n] = results[n]
        BY <1>1, <2>1, StreamsGrow DEF Typed, DjangoType
      <3>2. results[n].audit = a /\ status[a] = StatusOf(results[n].verdict)
        BY <1>1, <2>1 DEF ReportInv, RecordedIsReported
      <3>3. status'[a] = status[a]
        BY <1>1, <3>2, StatusChanges DEF StatusOf, Ended
      <3> QED
        BY <3>1, <3>2, <3>3
    <2>2. ASSUME NEW k \in 1..Len(results), recorded'[a] = {k}, results[k].audit = a,
                 status'[a] = StatusOf(results[k].verdict)
          PROVE  results'[n].audit = a /\ status'[a] = StatusOf(results'[n].verdict)
      BY <1>1, <2>2, StreamsGrow
    <2> QED
      BY <1>1, <2>1, <2>2, ReportChanges
  <1>2. ASSUME Typed, ReportInv, Next PROVE UnreportedIsNoSuccess'
    <2> SUFFICES ASSUME NEW a \in Audits, a \notin local', recorded'[a] = {} PROVE status'[a] # "success"
      BY DEF UnreportedIsNoSuccess
    <2> QED
      BY <1>1, <1>2, ReportChanges DEF ReportInv, UnreportedIsNoSuccess
  <1>3. ASSUME ReportInv, UNCHANGED vars PROVE ReportInv'
    BY <1>3 DEF vars, djangoVars, ReportInv, RecordedIsReported, UnreportedIsNoSuccess
  <1> QED
    BY <1>1, <1>2, <1>3 DEF ReportInv

\* An ended queue audit either holds the stream entry it was projected from,
\* with that entry's verdict, or was refused before its command was sent.
THEOREM OutcomesAreReported == Spec => []EndedAsReported
  <1>1. ReportInv => EndedAsReported
    BY DEF ReportInv, RecordedIsReported, UnreportedIsNoSuccess, EndedAsReported
  <1> QED
    BY <1>1, TypeInit, TypeStep, ReportInit, ReportStep, PTL DEF Spec
-----------------------------------------------------------------------------
(* Acknowledgements *)

ResultHasEffect(n) == status[results[n].audit] = StatusOf(results[n].verdict)

Answered(a) ==
    \/ job[a] # "none"
    \/ \E k \in DOMAIN results : results[k].audit = a /\ results[k].version = Rejection

\* What a step did stays done: ends are final, jobs are kept, streams grow.
LEMMA EffectsLast ==
    ASSUME Typed, Next
    PROVE  /\ \A n \in 1..Len(results) : ResultHasEffect(n) => ResultHasEffect(n)'
           /\ \A n \in 1..Len(commands) : Answered(commands[n]) => Answered(commands[n])'
  <1>1. ASSUME NEW n \in 1..Len(results), ResultHasEffect(n) PROVE ResultHasEffect(n)'
    <2>1. results[n] \in ResultType /\ results'[n] = results[n]
      BY StreamsGrow, ElementOfSeq DEF Typed, ResultsType
    <2> QED
      BY <1>1, <2>1, StatusChanges DEF ResultHasEffect, StatusOf, Ended, ResultType
  <1>2. ASSUME NEW a \in Audits, job[a] # "none" PROVE job'[a] # "none"
    <2> USE DEF Typed, JobType, djangoVars, taskVars, cmdVars, jobVars, resVars, bounds
    <2>1. ASSUME NEW b \in Audits, CreateParallelAudit(b) \/ OutboxSends(b) \/ PublishResult(b) PROVE UNCHANGED job
      BY <2>1 DEF CreateParallelAudit, OutboxSends, PublishResult
    <2>2. ASSUME NEW b \in Audits, JobEnds(b) PROVE job'[a] # "none"
      BY <1>2, <2>2 DEF JobEnds, Verdicts
    <2>3. ASSUME NEW w \in TaskWorkers, TaskStep(w) \/ WorkerCrash(w) PROVE UNCHANGED job
      BY <2>3 DEF TaskStep, WorkerCrash, ClaimAudit, SkipAudit, PublishCommand, PersistPublication, ReleaseForRetry,
                  MarkRefused, RunLocalAudit
    <2>4. ConsumerStep \/ ConsumerCrash => UNCHANGED job \/ SubmitCommand
      BY DEF ConsumerStep, ReadCommands, ReclaimCommands, PublishRejection, AckCommand, ConsumerCrash
    <2>5. ASSUME SubmitCommand PROVE job'[a] # "none"
      BY <1>2, <2>5 DEF SubmitCommand
    <2>6. ProjectorStep \/ ProjectorCrash => UNCHANGED job
      BY DEF ProjectorStep, ReadResults, ReclaimResults, ApplyResult, SkipResult, RejectResult, AckResult, ProjectorCrash
    <2> QED
      BY <1>2, <2>1, <2>2, <2>3, <2>4, <2>5, <2>6 DEF Next
  <1>3. ASSUME NEW n \in 1..Len(commands), Answered(commands[n]) PROVE Answered(commands[n])'
    <2>1. commands[n] \in Audits /\ commands'[n] = commands[n]
      BY StreamsGrow, ElementOfSeq DEF Typed, CommandType
    <2>2. ASSUME NEW k \in DOMAIN results PROVE k \in DOMAIN results' /\ results'[k] = results[k]
      <3>1. DOMAIN results = 1..Len(results)
        BY LenProperties DEF Typed, ResultsType
      <3>2. DOMAIN results' = 1..Len(results')
        BY TypeStep, LenProperties DEF Typed, ResultsType
      <3> QED
        BY <2>2, <3>1, <3>2, StreamsGrow
    <2> QED
      BY <1>2, <1>3, <2>1, <2>2 DEF Answered
  <1> QED
    BY <1>1, <1>3

\* What is off its pending list, or about to be acknowledged, has had its effect.
ResultsSettled ==
    /\ \A n \in (1..resRead) \ resPending : ResultHasEffect(n)
    /\ projector.at = "ack" => ResultHasEffect(Head(projector.batch))

CommandsSettled ==
    /\ \A n \in (1..cmdRead) \ cmdPending : Answered(commands[n])
    /\ consumer.at = "ack" => Answered(commands[Head(consumer.batch)])

AckInv == ResultsSettled /\ CommandsSettled

LEMMA AckInit == Init => AckInv
  BY DEF Init, NoBatch, AckInv, ResultsSettled, CommandsSettled

LEMMA ResultsStaySettled == ASSUME Typed, ReportInv, ResultsSettled, Next PROVE ResultsSettled'
  <1> USE DEF djangoVars, taskVars, cmdVars, jobVars, resVars, bounds
  <1>1. resRead \in Nat /\ Len(results) \in Nat /\ resRead <= Len(results) /\ resPending \subseteq 1..resRead
    BY LenProperties DEF Typed, ResultsType
  <1>2. \A n \in (1..resRead) \ resPending : ResultHasEffect(n)'
    BY <1>1, EffectsLast DEF ResultsSettled
  <1>3. projector.at # "idle" => Head(projector.batch) \in 1..resRead
    BY <1>1, HeadOK DEF Typed, ResultsType
  <1>4. projector.at = "ack" => \A h \in 1..resRead : h = Head(projector.batch) => ResultHasEffect(h)'
    BY <1>1, <1>3, EffectsLast DEF ResultsSettled
  <1>5. CASE ReadResults
    <2>1. PICK ids \in NewEntries(resRead, Len(results)) :
              /\ projector' = [at |-> "first", batch |-> ids]
              /\ resRead' = resRead + Len(ids)
              /\ resPending' = resPending \cup {ids[k] : k \in DOMAIN ids}
      BY <1>5 DEF ReadResults
    <2>2. Len(ids) \in Nat /\ {ids[k] : k \in DOMAIN ids} = (resRead + 1)..(resRead + Len(ids))
      BY <1>1, NewEntriesOK
    <2>3. (1..resRead') \ resPending' \subseteq (1..resRead) \ resPending
      BY <1>1, <2>1, <2>2
    <2> QED
      BY <1>2, <2>1, <2>3 DEF ResultsSettled
  <1>6. ASSUME NEW idle \in SUBSET resPending, ReclaimResults(idle) PROVE ResultsSettled'
    BY <1>2, <1>6 DEF ReclaimResults, ResultsSettled
  <1>7. CASE ApplyResult
    <2> DEFINE h == Head(projector.batch)
    <2>1. h \in 1..Len(results) /\ results[h].audit \in Audits
      BY <1>7, ProjectedOK DEF ApplyResult, ResultType
    <2>2. ResultHasEffect(h)'
      BY <1>7, <2>1 DEF ApplyResult, ResultHasEffect, Typed, DjangoType
    <2>3. projector'.batch = projector.batch
      BY <1>7 DEF ApplyResult, Typed, ResultsType, ReaderOK, Readers
    <2>4. UNCHANGED <<resRead, resPending>>
      BY <1>7 DEF ApplyResult
    <2> QED
      BY <1>2, <2>2, <2>3, <2>4 DEF ResultsSettled
  <1>8. CASE SkipResult
    <2> DEFINE h == Head(projector.batch)
    <2>1. h \in 1..Len(results) /\ results[h].audit \in Audits
      BY <1>8, ProjectedOK DEF SkipResult, ResultType
    <2>2. UNCHANGED <<status, results, resRead, resPending>>
      BY <1>8 DEF SkipResult
    <2>3. CASE AlreadyApplied(h)
      <3>1. ResultHasEffect(h)
        BY <2>1, <2>3 DEF AlreadyApplied, SamePayload, ResultHasEffect, ReportInv, RecordedIsReported
      <3>2. projector'.batch = projector.batch
        BY <1>8, <2>3 DEF SkipResult, Typed, ResultsType, ReaderOK, Readers
      <3> QED
        BY <1>2, <2>2, <3>1, <3>2 DEF ResultsSettled, ResultHasEffect
    <2>4. CASE ~AlreadyApplied(h)
      <3>1. projector'.at # "ack"
        BY <1>1, <1>8, <2>4, AfterFirstOK DEF SkipResult, Typed, ResultsType
      <3> QED
        BY <1>2, <2>2, <3>1 DEF ResultsSettled
    <2> QED
      BY <2>3, <2>4
  <1>9. CASE RejectResult
    <2>1. projector'.at # "ack"
      BY <1>1, <1>9, AfterFirstOK DEF RejectResult, Typed, ResultsType
    <2> QED
      BY <1>2, <1>9, <2>1 DEF RejectResult, ResultsSettled
  <1>10. CASE AckResult
    <2>1. projector'.at # "ack"
      BY <1>1, <1>10, AfterFirstOK DEF AckResult, NoBatch, Typed, ResultsType
    <2>2. (1..resRead') \ resPending' \subseteq ((1..resRead) \ resPending) \cup {Head(projector.batch)}
      BY <1>10 DEF AckResult
    <2> QED
      BY <1>2, <1>3, <1>4, <1>10, <2>1, <2>2 DEF AckResult, ResultsSettled
  <1>11. CASE ProjectorCrash
    BY <1>2, <1>11 DEF ProjectorCrash, NoBatch, ResultsSettled
  <1>12. CASE UNCHANGED <<resRead, resPending, projector>>
    BY <1>2, <1>3, <1>4, <1>12 DEF ResultsSettled
  <1>13. ASSUME NEW b \in Audits, CreateParallelAudit(b) \/ OutboxSends(b) \/ JobEnds(b) \/ PublishResult(b)
         PROVE  UNCHANGED <<resRead, resPending, projector>>
    BY <1>13 DEF CreateParallelAudit, OutboxSends, JobEnds, PublishResult
  <1>14. ASSUME NEW w \in TaskWorkers, TaskStep(w) \/ WorkerCrash(w) PROVE UNCHANGED <<resRead, resPending, projector>>
    BY <1>14 DEF TaskStep, WorkerCrash, ClaimAudit, SkipAudit, PublishCommand, PersistPublication, ReleaseForRetry,
                 MarkRefused, RunLocalAudit
  <1>15. ConsumerStep \/ ConsumerCrash => UNCHANGED <<resRead, resPending, projector>>
    BY DEF ConsumerStep, ReadCommands, ReclaimCommands, SubmitCommand, PublishRejection, AckCommand, ConsumerCrash
  <1> QED
    BY <1>5, <1>6, <1>7, <1>8, <1>9, <1>10, <1>11, <1>12, <1>13, <1>14, <1>15 DEF Next, ProjectorStep

LEMMA CommandsStaySettled == ASSUME Typed, CommandsSettled, Next PROVE CommandsSettled'
  <1> USE DEF djangoVars, taskVars, cmdVars, jobVars, resVars, bounds
  <1>1. cmdRead \in Nat /\ Len(commands) \in Nat /\ cmdRead <= Len(commands) /\ cmdPending \subseteq 1..cmdRead
    BY LenProperties DEF Typed, CommandType
  <1>2. \A n \in 1..cmdRead : n \notin cmdPending => commands'[n] = commands[n] /\ Answered(commands[n])'
    BY <1>1, EffectsLast, StreamsGrow DEF CommandsSettled
  <1>3. consumer.at # "idle" =>
            /\ Head(consumer.batch) \in 1..cmdRead
            /\ commands[Head(consumer.batch)] \in Audits
            /\ commands'[Head(consumer.batch)] = commands[Head(consumer.batch)]
    BY <1>1, HeadOK, StreamsGrow, ElementOfSeq DEF Typed, CommandType
  <1>4. consumer.at = "ack" => \A h \in 1..cmdRead : h = Head(consumer.batch) => Answered(commands[h])'
    BY <1>1, <1>3, EffectsLast DEF CommandsSettled
  <1>5. CASE ReadCommands
    <2>1. PICK ids \in NewEntries(cmdRead, Len(commands)) :
              /\ consumer' = [at |-> "first", batch |-> ids]
              /\ cmdRead' = cmdRead + Len(ids)
              /\ cmdPending' = cmdPending \cup {ids[k] : k \in DOMAIN ids}
      BY <1>5 DEF ReadCommands
    <2>2. Len(ids) \in Nat /\ {ids[k] : k \in DOMAIN ids} = (cmdRead + 1)..(cmdRead + Len(ids))
      BY <1>1, NewEntriesOK
    <2>3. (1..cmdRead') \ cmdPending' \subseteq (1..cmdRead) \ cmdPending
      BY <1>1, <2>1, <2>2
    <2> QED
      BY <1>2, <2>1, <2>3 DEF CommandsSettled, Answered
  <1>6. ASSUME NEW idle \in SUBSET cmdPending, ReclaimCommands(idle) PROVE CommandsSettled'
    BY <1>2, <1>6 DEF ReclaimCommands, CommandsSettled, Answered
  <1>7. CASE SubmitCommand
    <2> DEFINE a == commands[Head(consumer.batch)]
    <2>1. consumer'.at = "ack" => job'[a] # "none"
      BY <1>3, <1>7 DEF SubmitCommand, Typed, CommandType, JobType, ReaderOK, Readers
    <2>2. consumer'.batch = consumer.batch /\ UNCHANGED <<commands, cmdRead, cmdPending>>
      BY <1>7 DEF SubmitCommand, Typed, CommandType, ReaderOK, Readers
    <2> QED
      BY <1>2, <2>1, <2>2 DEF CommandsSettled, Answered
  <1>8. CASE PublishRejection
    <2> DEFINE r == [audit |-> commands[Head(consumer.batch)], verdict |-> "failed", version |-> Rejection]
    <2>1. UNCHANGED <<commands, cmdRead, cmdPending>>
      BY <1>8 DEF PublishRejection
    <2>2. r \in ResultType
      BY <1>3, <1>8 DEF PublishRejection, ResultType, Verdicts
    <2> HIDE DEF r
    <2>3. CASE results' = Append(results, r) /\ consumer' = [consumer EXCEPT !.at = "ack"]
      <3>1. results'[Len(results) + 1] = r /\ Len(results) + 1 \in DOMAIN results'
        BY <2>2, <2>3, AppendProperties, LenProperties DEF Typed, ResultsType
      <3>2. consumer'.batch = consumer.batch
        BY <2>3 DEF Typed, CommandType, ReaderOK, Readers
      <3>3. results'[Len(results) + 1].audit = commands'[Head(consumer'.batch)] /\ results'[Len(results) + 1].version = Rejection
        BY <2>1, <3>1, <3>2 DEF r
      <3> QED
        BY <1>2, <2>1, <3>1, <3>3 DEF CommandsSettled, Answered
    <2>4. CASE consumer' = AfterFirst(consumer)
      <3>1. consumer'.at # "ack"
        BY <1>1, <1>8, <2>4, AfterFirstOK DEF PublishRejection, Typed, CommandType
      <3> QED
        BY <1>2, <2>1, <3>1 DEF CommandsSettled, Answered
    <2> QED
      BY <1>8, <2>3, <2>4 DEF PublishRejection, r
  <1>9. CASE AckCommand
    <2>1. consumer'.at # "ack"
      BY <1>1, <1>9, AfterFirstOK DEF AckCommand, Typed, CommandType
    <2>2. (1..cmdRead') \ cmdPending' \subseteq ((1..cmdRead) \ cmdPending) \cup {Head(consumer.batch)}
      BY <1>9 DEF AckCommand
    <2>3. UNCHANGED <<commands, cmdRead>> /\ consumer.at = "ack"
      BY <1>9 DEF AckCommand
    <2> QED
      BY <1>2, <1>3, <1>4, <2>1, <2>2, <2>3 DEF CommandsSettled
  <1>10. CASE ConsumerCrash
    BY <1>2, <1>10 DEF ConsumerCrash, NoBatch, CommandsSettled, Answered
  <1>11. CASE UNCHANGED <<cmdRead, cmdPending, consumer>>
    BY <1>2, <1>3, <1>4, <1>11 DEF CommandsSettled, Answered
  <1>12. ASSUME NEW b \in Audits, CreateParallelAudit(b) \/ OutboxSends(b) \/ JobEnds(b) \/ PublishResult(b)
         PROVE  UNCHANGED <<cmdRead, cmdPending, consumer>>
    BY <1>12 DEF CreateParallelAudit, OutboxSends, JobEnds, PublishResult
  <1>13. ASSUME NEW w \in TaskWorkers, TaskStep(w) \/ WorkerCrash(w) PROVE UNCHANGED <<cmdRead, cmdPending, consumer>>
    BY <1>13 DEF TaskStep, WorkerCrash, ClaimAudit, SkipAudit, PublishCommand, PersistPublication, ReleaseForRetry,
                 MarkRefused, RunLocalAudit
  <1>14. ProjectorStep \/ ProjectorCrash => UNCHANGED <<cmdRead, cmdPending, consumer>>
    BY DEF ProjectorStep, ReadResults, ReclaimResults, ApplyResult, SkipResult, RejectResult, AckResult, ProjectorCrash
  <1> QED
    BY <1>5, <1>6, <1>7, <1>8, <1>9, <1>10, <1>11, <1>12, <1>13, <1>14 DEF Next, ConsumerStep

LEMMA AckStep == Typed /\ ReportInv /\ AckInv /\ [Next]_vars => AckInv'
  <1>1. ASSUME AckInv, UNCHANGED vars PROVE AckInv'
    BY <1>1 DEF vars, djangoVars, cmdVars, jobVars, resVars, AckInv, ResultsSettled, CommandsSettled, ResultHasEffect, Answered
  <1> QED
    BY <1>1, ResultsStaySettled, CommandsStaySettled DEF AckInv

\* A message leaves its pending list only when it has had its effect: a result
\* when its audit ended as it says, a command when its job record exists or its
\* rejection is in the result stream.
THEOREM AcksAreEarned == Spec => []AckedEntriesAreSettled
  <1>1. AckInv => AckedEntriesAreSettled
    BY DEF AckInv, ResultsSettled, CommandsSettled, ResultHasEffect, Answered, AckedEntriesAreSettled,
           AckedResultsAreProjected, AckedCommandsAreAnswered, AckedResults, AckedCommands, Entries
  <1> QED
    BY <1>1, TypeInit, TypeStep, ReportInit, ReportStep, AckInit, AckStep, PTL DEF Spec
=============================================================================
