--------------------------- MODULE AuditPipeline ---------------------------
(***************************************************************************)
(* A parallel audit's way through the system: Django commits a             *)
(* ParallelAudit and its outbox event, a Celery worker publishes a command *)
(* to a Redis stream, the Go service's consumer loop submits it, the Go    *)
(* service publishes results to a second stream, and the projector writes  *)
(* them back to the ParallelAudit (apps/audits, main.go, redis_streams.go).*)
(*                                                                         *)
(* The outbox is its promise (AtLeastOnce), the Go service its durable job *)
(* record (AuditorService): here they are the environment that delivers a  *)
(* task at least once and publishes a verdict in up to ResultMaxAttempts   *)
(* attempts.  Stream entries are named by their position.                  *)
(***************************************************************************)
EXTENDS Integers, Sequences, FiniteSets

CONSTANTS
    Audits,             \* ParallelAudit ids
    TaskWorkers,        \* Celery processes serving the audit task
    NoMessage,          \* the message of an idle worker
    MaxCopies,          \* bound: copies of a task message the outbox sends
    MaxRetries,         \* max_retries of the Celery task
    ResultMaxAttempts,  \* attempts to publish a verdict
    ReadCount,          \* entries read from a stream at once
    MaxOutages,         \* bound: Redis calls that fail or lose their reply
    MaxRejections,      \* bound: commands the Go service refuses
    MaxCrashes          \* bound: crashes of a worker, the Go service or the projector

ASSUME BoundsAssumption == MaxCopies \in Nat /\ MaxRetries \in Nat /\ ResultMaxAttempts \in Nat
ASSUME ReadCountAssumption == ReadCount \in Nat \ {0}

VARIABLES
    status,     \* status[a]: ParallelAudit.status
    local,      \* the audits whose execution_mode is LOCAL
    published,  \* published[a]: command_message_id is set
    recorded,   \* recorded[a]: {} or {n}, n the results entry whose id and hash the row holds
    sentTasks,  \* sentTasks[a]: copies of the task message the outbox has sent
    tasks,      \* the messages in the Celery queue
    worker,     \* worker[w]: stage and message of a Celery process
    commands,   \* the command stream, entry n being commands[n], an audit
    cmdRead,    \* entries delivered to the consumer group
    cmdPending, \* the group's pending entries
    consumer,   \* stage and batch of consumeCommands
    job,        \* job[a]: the Go service's durable job state
    attempts,   \* attempts[a]: Result.Attempts of the job
    delivered,  \* delivered[a]: Result.Delivered of the job
    results,    \* the result stream, entries [audit, verdict, version]
    resRead, resPending, projector,  \* as for commands
    outages, rejections, crashes     \* bounds

djangoVars == <<status, local, published, recorded>>
taskVars == <<sentTasks, tasks, worker>>
cmdVars == <<cmdRead, cmdPending, consumer>>
jobVars == <<job, attempts, delivered>>
resVars == <<resRead, resPending, projector>>
bounds == <<outages, rejections, crashes>>
vars == <<djangoVars, taskVars, commands, cmdVars, jobVars, results, resVars, bounds>>

Messages == [audit : Audits, copy : 1..MaxCopies, retries : 0..MaxRetries]
WorkerStages == {"claimed", "persist", "release", "refused"}
Idle == [at |-> "idle", msg |-> NoMessage]
NoBatch == [at |-> "idle", batch |-> <<>>]
Ended == {"success", "failed"}

\* How a job ends; "unreadable" is a success whose report stays unreadable for Django.
Verdicts == {"succeeded", "unreadable", "failed"}

\* The version of publishRejectedCommand's payload, which is always the same.
Rejection == -1

StatusOf(verdict) == IF verdict # "failed" THEN "success" ELSE "failed"

Init ==
    /\ status = [a \in Audits |-> "absent"]
    /\ local = {}
    /\ published = [a \in Audits |-> FALSE]
    /\ recorded = [a \in Audits |-> {}]
    /\ sentTasks = [a \in Audits |-> 0]
    /\ tasks = {}
    /\ worker = [w \in TaskWorkers |-> Idle]
    /\ commands = <<>> /\ cmdRead = 0 /\ cmdPending = {} /\ consumer = NoBatch
    /\ job = [a \in Audits |-> "none"]
    /\ attempts = [a \in Audits |-> 0]
    /\ delivered = [a \in Audits |-> FALSE]
    /\ results = <<>> /\ resRead = 0 /\ resPending = {} /\ projector = NoBatch
    /\ outages = 0 /\ rejections = 0 /\ crashes = 0

Outage == outages < MaxOutages /\ outages' = outages + 1

-----------------------------------------------------------------------------
(* Django: creation, outbox, Celery task *)

\* create_parallel_audit commits the row together with its outbox event; the
\* settings of the deployment choose its mode.
CreateParallelAudit(a) ==
    /\ status[a] = "absent"
    /\ status' = [status EXCEPT ![a] = "pending"]
    /\ local' \in {local, local \cup {a}}
    /\ UNCHANGED <<published, recorded, taskVars, commands, cmdVars, jobVars, results, resVars, bounds>>

\* The outbox delivers the task message, perhaps more than once.
OutboxSends(a) ==
    /\ status[a] # "absent"
    /\ sentTasks[a] < MaxCopies
    /\ sentTasks' = [sentTasks EXCEPT ![a] = @ + 1]
    /\ tasks' = tasks \cup {[audit |-> a, copy |-> sentTasks[a] + 1, retries |-> 0]}
    /\ UNCHANGED <<djangoVars, worker, commands, cmdVars, jobVars, results, resVars, bounds>>

\* Mutant: a running audit is claimed again.
ClaimRunningToo(w, m) ==
    /\ worker[w] = Idle
    /\ m \in tasks
    /\ status[m.audit] \in {"pending", "running"}
    /\ tasks' = tasks \ {m}
    /\ status' = [status EXCEPT ![m.audit] = "running"]
    /\ worker' = [worker EXCEPT ![w] = [at |-> "claimed", msg |-> m]]
    /\ UNCHANGED <<local, published, recorded, sentTasks, commands, cmdVars, jobVars, results, resVars, bounds>>

\* Mutant: a failed audit is claimed again by a late copy of its task.
ClaimFailedToo(w, m) ==
    /\ worker[w] = Idle
    /\ m \in tasks
    /\ status[m.audit] \in {"pending", "failed"}
    /\ tasks' = tasks \ {m}
    /\ status' = [status EXCEPT ![m.audit] = "running"]
    /\ worker' = [worker EXCEPT ![w] = [at |-> "claimed", msg |-> m]]
    /\ UNCHANGED <<local, published, recorded, sentTasks, commands, cmdVars, jobVars, results, resVars, bounds>>

\* _claim_audit_for_command
ClaimAudit(w, m) ==
    /\ worker[w] = Idle
    /\ m \in tasks
    /\ status[m.audit] = "pending"
    /\ tasks' = tasks \ {m}
    /\ status' = [status EXCEPT ![m.audit] = "running"]
    /\ worker' = [worker EXCEPT ![w] = [at |-> "claimed", msg |-> m]]
    /\ UNCHANGED <<local, published, recorded, sentTasks, commands, cmdVars, jobVars, results, resVars, bounds>>

SkipAudit(w, m) ==
    /\ worker[w] = Idle
    /\ m \in tasks
    /\ status[m.audit] # "pending"
    /\ tasks' = tasks \ {m}
    /\ UNCHANGED <<djangoVars, sentTasks, worker, commands, cmdVars, jobVars, results, resVars, bounds>>

\* AuditQueue.publish_command: XADD succeeds, raises AuditQueueUnavailable
\* with or without the entry added, or the payload is refused before.
PublishCommand(w) ==
    LET a == worker[w].msg.audit IN
    /\ worker[w].at = "claimed"
    /\ a \notin local
    /\ \/ /\ commands' = Append(commands, a)
          /\ worker' = [worker EXCEPT ![w].at = "persist"]
          /\ UNCHANGED outages
       \/ /\ Outage
          /\ commands' \in {commands, Append(commands, a)}
          /\ worker' = [worker EXCEPT ![w].at = "release"]
       \/ /\ Outage
          /\ worker' = [worker EXCEPT ![w].at = "refused"]
          /\ UNCHANGED commands
    /\ UNCHANGED <<djangoVars, sentTasks, tasks, cmdVars, jobVars, results, resVars, rejections, crashes>>

\* _persist_command_publication
PersistPublication(w) ==
    LET a == worker[w].msg.audit IN
    /\ worker[w].at = "persist"
    /\ published' = [published EXCEPT ![a] = @ \/ status[a] = "running"]
    /\ worker' = [worker EXCEPT ![w] = Idle]
    /\ UNCHANGED <<status, local, recorded, sentTasks, tasks, commands, cmdVars, jobVars, results, resVars, bounds>>

\* _release_command_for_retry, then self.retry; the last retry fails for good.
ReleaseForRetry(w) ==
    LET m == worker[w].msg IN
    /\ worker[w].at = "release"
    /\ status' = [status EXCEPT ![m.audit] =
                    IF @ = "running" /\ ~published[m.audit] THEN "pending" ELSE @]
    /\ worker' = [worker EXCEPT ![w] = Idle]
    /\ tasks' = IF m.retries < MaxRetries
                THEN tasks \cup {[m EXCEPT !.retries = @ + 1]} ELSE tasks
    /\ UNCHANGED <<local, published, recorded, sentTasks, commands, cmdVars, jobVars, results, resVars, bounds>>

\* _mark_failed with worker_state command_publish_failed, or after a local audit.
FailedBy(a) == IF status[a] \in {"pending", "running"} THEN "failed" ELSE status[a]

MarkRefused(w) ==
    LET a == worker[w].msg.audit IN
    /\ worker[w].at = "refused"
    /\ status' = [status EXCEPT ![a] = FailedBy(a)]
    /\ worker' = [worker EXCEPT ![w] = Idle]
    /\ UNCHANGED <<local, published, recorded, sentTasks, tasks, commands, cmdVars, jobVars, results, resVars, bounds>>

\* _run_local_parallel_audit ends in _mark_success or _mark_failed.
RunLocalAudit(w) ==
    LET a == worker[w].msg.audit IN
    /\ worker[w].at = "claimed"
    /\ a \in local
    /\ \/ status' = [status EXCEPT ![a] = IF @ = "running" THEN "success" ELSE @]
       \/ status' = [status EXCEPT ![a] = FailedBy(a)]
    /\ worker' = [worker EXCEPT ![w] = Idle]
    /\ UNCHANGED <<local, published, recorded, sentTasks, tasks, commands, cmdVars, jobVars, results, resVars, bounds>>

\* acks_late and reject_on_worker_lost: the message of a lost process is redelivered.
WorkerCrash(w) ==
    /\ worker[w] # Idle
    /\ crashes < MaxCrashes
    /\ crashes' = crashes + 1
    /\ tasks' = tasks \cup {worker[w].msg}
    /\ worker' = [worker EXCEPT ![w] = Idle]
    /\ UNCHANGED <<djangoVars, sentTasks, commands, cmdVars, jobVars, results, resVars, outages, rejections>>

-----------------------------------------------------------------------------
(* Consumer groups: what both readers do with a stream *)

\* Mutant: the batch may reach beyond the end of the stream.
NewEntriesOffByOne(read, length) ==
    {ids \in {[k \in 1..c |-> read + k] : c \in 1..ReadCount} :
        \A k \in DOMAIN ids : ids[k] <= length + 1}

\* Entries read+1, ... of a stream, read with ">".
NewEntries(read, length) ==
    {ids \in {[k \in 1..c |-> read + k] : c \in 1..ReadCount} :
        \A k \in DOMAIN ids : ids[k] <= length}

\* XAUTOCLAIM from 0-0: the first of those pending entries that were idle long
\* enough, in order.
IdleEntries(idle) ==
    LET c == IF Cardinality(idle) < ReadCount THEN Cardinality(idle) ELSE ReadCount IN
    {ids \in [1..c -> idle] :
        /\ \A k, l \in DOMAIN ids : k < l => ids[k] < ids[l]
        /\ \A n \in idle : n <= ids[c] => \E k \in DOMAIN ids : ids[k] = n}

\* The rest of a batch after its first entry is dealt with.
AfterFirst(reader) ==
    IF Len(reader.batch) = 1 THEN NoBatch
    ELSE [at |-> "first", batch |-> Tail(reader.batch)]

-----------------------------------------------------------------------------
(* Go: consumeCommands and the job *)

ReadCommands ==
    /\ consumer = NoBatch
    /\ \E ids \in NewEntries(cmdRead, Len(commands)) :
        /\ consumer' = [at |-> "first", batch |-> ids]
        /\ cmdRead' = cmdRead + Len(ids)
        /\ cmdPending' = cmdPending \cup {ids[k] : k \in DOMAIN ids}
    /\ UNCHANGED <<djangoVars, taskVars, commands, jobVars, results, resVars, bounds>>

\* Mutant: reclaiming is left to a read that returns entries.
ReclaimAfterReads(idle) ==
    /\ consumer = NoBatch
    /\ idle # {} /\ cmdRead < Len(commands)
    /\ \E ids \in IdleEntries(idle) : consumer' = [at |-> "first", batch |-> ids]
    /\ UNCHANGED <<djangoVars, taskVars, commands, cmdRead, cmdPending, jobVars, results, resVars, bounds>>

ReclaimCommands(idle) ==
    /\ consumer = NoBatch
    /\ idle # {}
    /\ \E ids \in IdleEntries(idle) : consumer' = [at |-> "first", batch |-> ids]
    /\ UNCHANGED <<djangoVars, taskVars, commands, cmdRead, cmdPending, jobVars, results, resVars, bounds>>

\* auditor.Submit: accepted, known already, or refused (channel full, service
\* stopping, record not writable, known with other options).
SubmitCommand ==
    LET a == commands[Head(consumer.batch)] IN
    /\ consumer.at = "first"
    /\ \/ /\ job' = [job EXCEPT ![a] = IF @ = "none" THEN "active" ELSE @]
          /\ consumer' = [consumer EXCEPT !.at = "ack"]
          /\ UNCHANGED rejections
       \/ /\ rejections < MaxRejections
          /\ rejections' = rejections + 1
          /\ consumer' = [consumer EXCEPT !.at = "reject"]
          /\ UNCHANGED job
    /\ UNCHANGED <<djangoVars, taskVars, commands, cmdRead, cmdPending, attempts, delivered, results, resVars, outages, crashes>>

\* publishRejectedCommand; on an error the entry stays pending.
PublishRejection ==
    LET r == [audit |-> commands[Head(consumer.batch)], verdict |-> "failed", version |-> Rejection] IN
    /\ consumer.at = "reject"
    /\ \/ /\ results' = Append(results, r)
          /\ consumer' = [consumer EXCEPT !.at = "ack"]
          /\ UNCHANGED outages
       \/ /\ Outage
          /\ results' \in {results, Append(results, r)}
          /\ consumer' = AfterFirst(consumer)
    /\ UNCHANGED <<djangoVars, taskVars, commands, cmdRead, cmdPending, jobVars, resVars, rejections, crashes>>

\* AckCommand; its error is only logged, and the XACK may have been executed.
AckCommand ==
    /\ consumer.at = "ack"
    /\ \/ cmdPending' = cmdPending \ {Head(consumer.batch)} /\ UNCHANGED outages
       \/ Outage /\ UNCHANGED cmdPending
    /\ consumer' = AfterFirst(consumer)
    /\ UNCHANGED <<djangoVars, taskVars, commands, cmdRead, jobVars, results, resVars, rejections, crashes>>

\* The audit of an accepted job ends; failures are verdicts too.
JobEnds(a) ==
    /\ job[a] = "active"
    /\ \E v \in Verdicts : job' = [job EXCEPT ![a] = v]
    /\ UNCHANGED <<djangoVars, taskVars, commands, cmdVars, attempts, delivered, results, resVars, bounds>>

\* One publishResult call with its markResult.  The payload contains the
\* attempts made so far, so every attempt has a payload of its own; a crash
\* before markResult leaves them unchanged.
PublishResult(a) ==
    LET r == [audit |-> a, verdict |-> job[a], version |-> attempts[a]] IN
    /\ job[a] \in Verdicts
    /\ ~delivered[a]
    /\ attempts[a] < ResultMaxAttempts
    /\ \/ /\ results' = Append(results, r)
          /\ delivered' = [delivered EXCEPT ![a] = TRUE]
          /\ attempts' = [attempts EXCEPT ![a] = @ + 1]
          /\ UNCHANGED <<outages, crashes>>
       \/ /\ Outage
          /\ results' \in {results, Append(results, r)}
          /\ attempts' = [attempts EXCEPT ![a] = @ + 1]
          /\ UNCHANGED <<delivered, crashes>>
       \/ /\ crashes < MaxCrashes
          /\ crashes' = crashes + 1
          /\ results' = Append(results, r)
          /\ UNCHANGED <<attempts, delivered, outages>>
    /\ UNCHANGED <<djangoVars, taskVars, commands, cmdVars, job, resVars, rejections>>

\* The Go process dies in consumeCommands; the job files survive.
ConsumerCrash ==
    /\ consumer # NoBatch
    /\ crashes < MaxCrashes
    /\ crashes' = crashes + 1
    /\ consumer' = NoBatch
    /\ UNCHANGED <<djangoVars, taskVars, commands, cmdRead, cmdPending, jobVars, results, resVars, outages, rejections>>

-----------------------------------------------------------------------------
(* Django: consume_parallel_audit_results *)

ReadResults ==
    /\ projector = NoBatch
    /\ \E ids \in NewEntries(resRead, Len(results)) :
        /\ projector' = [at |-> "first", batch |-> ids]
        /\ resRead' = resRead + Len(ids)
        /\ resPending' = resPending \cup {ids[k] : k \in DOMAIN ids}
    /\ UNCHANGED <<djangoVars, taskVars, commands, cmdVars, jobVars, results, bounds>>

ReclaimResults(idle) ==
    /\ projector = NoBatch
    /\ idle # {}
    /\ \E ids \in IdleEntries(idle) : projector' = [at |-> "first", batch |-> ids]
    /\ UNCHANGED <<djangoVars, taskVars, commands, cmdVars, jobVars, results, resRead, resPending, bounds>>

SamePayload(m, n) == results[m] = results[n]

\* apply_parallel_audit_result writes the row.
Applies(n) ==
    /\ results[n].audit \notin local
    /\ recorded[results[n].audit] = {}
    /\ status[results[n].audit] \notin Ended

\* Mutant: any recorded result makes later ones count as applied.
AnyRecorded(n) == recorded[results[n].audit] # {}

\* It returns False: this entry, or one with the same payload, is recorded.
AlreadyApplied(n) == \E m \in recorded[results[n].audit] : SamePayload(m, n)

\* Mutant: the stream id and hash of the result are not stored.
ApplyUnrecorded ==
    LET r == results[Head(projector.batch)] IN
    /\ projector.at = "first"
    /\ Applies(Head(projector.batch))
    /\ r.verdict # "unreadable"
    /\ status' = [status EXCEPT ![r.audit] = StatusOf(r.verdict)]
    /\ projector' = [projector EXCEPT !.at = "ack"]
    /\ UNCHANGED <<local, published, recorded, taskVars, commands, cmdVars, jobVars, results, resRead, resPending, bounds>>

ApplyResult ==
    LET n == Head(projector.batch)
        r == results[n] IN
    /\ projector.at = "first"
    /\ Applies(n)
    /\ r.verdict # "unreadable"
    /\ status' = [status EXCEPT ![r.audit] = StatusOf(r.verdict)]
    /\ recorded' = [recorded EXCEPT ![r.audit] = {n}]
    /\ projector' = [projector EXCEPT !.at = "ack"]
    /\ UNCHANGED <<local, published, taskVars, commands, cmdVars, jobVars, results, resRead, resPending, bounds>>

SkipResult ==
    LET n == Head(projector.batch) IN
    /\ projector.at = "first"
    /\ ~Applies(n)
    /\ projector' = IF AlreadyApplied(n) THEN [projector EXCEPT !.at = "ack"]
                                         ELSE AfterFirst(projector)
    /\ UNCHANGED <<djangoVars, taskVars, commands, cmdVars, jobVars, results, resRead, resPending, bounds>>

\* The worker's report cannot be read, this time or ever: the entry stays pending.
RejectResult ==
    LET n == Head(projector.batch) IN
    /\ projector.at = "first"
    /\ Applies(n)
    /\ \/ results[n].verdict = "succeeded" /\ Outage
       \/ results[n].verdict = "unreadable" /\ UNCHANGED outages
    /\ projector' = AfterFirst(projector)
    /\ UNCHANGED <<djangoVars, taskVars, commands, cmdVars, jobVars, results, resRead, resPending, rejections, crashes>>

\* ack_result; an error ends the iteration, the XACK may have been executed.
AckResult ==
    /\ projector.at = "ack"
    /\ \/ /\ resPending' = resPending \ {Head(projector.batch)}
          /\ projector' = AfterFirst(projector)
          /\ UNCHANGED outages
       \/ /\ Outage
          /\ resPending' \in {resPending, resPending \ {Head(projector.batch)}}
          /\ projector' = NoBatch
    /\ UNCHANGED <<djangoVars, taskVars, commands, cmdVars, jobVars, results, resRead, rejections, crashes>>

\* The projector dies, or the database fails and the loop starts over.
ProjectorCrash ==
    /\ projector # NoBatch
    /\ crashes < MaxCrashes
    /\ crashes' = crashes + 1
    /\ projector' = NoBatch
    /\ UNCHANGED <<djangoVars, taskVars, commands, cmdVars, jobVars, results, resRead, resPending, outages, rejections>>

-----------------------------------------------------------------------------
TaskStep(w) ==
    \/ \E m \in tasks : ClaimAudit(w, m) \/ SkipAudit(w, m)
    \/ PublishCommand(w) \/ PersistPublication(w) \/ ReleaseForRetry(w)
    \/ MarkRefused(w) \/ RunLocalAudit(w)

ConsumerStep ==
    \/ ReadCommands \/ (\E idle \in SUBSET cmdPending : ReclaimCommands(idle))
    \/ SubmitCommand \/ PublishRejection \/ AckCommand

ProjectorStep ==
    \/ ReadResults \/ (\E idle \in SUBSET resPending : ReclaimResults(idle))
    \/ ApplyResult \/ SkipResult \/ RejectResult \/ AckResult

Next ==
    \/ \E a \in Audits :
        CreateParallelAudit(a) \/ OutboxSends(a) \/ JobEnds(a) \/ PublishResult(a)
    \/ \E w \in TaskWorkers : TaskStep(w) \/ WorkerCrash(w)
    \/ ConsumerStep \/ ConsumerCrash
    \/ ProjectorStep \/ ProjectorCrash

Spec == Init /\ [][Next]_vars

\* Every process keeps running or is started again.  Both loops read new
\* entries again and again, and again and again a time comes when all pending
\* entries have been idle long enough.
Fairness ==
    /\ \A a \in Audits :
        /\ WF_vars(sentTasks[a] = 0 /\ OutboxSends(a))
        /\ WF_vars(JobEnds(a) \/ PublishResult(a))
    /\ \A w \in TaskWorkers : WF_vars(TaskStep(w))
    /\ WF_vars(SubmitCommand \/ PublishRejection \/ AckCommand)
    /\ SF_vars(ReadCommands) /\ SF_vars(ReclaimCommands(cmdPending))
    /\ WF_vars(ApplyResult \/ SkipResult \/ RejectResult \/ AckResult)
    /\ SF_vars(ReadResults) /\ SF_vars(ReclaimResults(resPending))

FairSpec == Spec /\ Fairness

-----------------------------------------------------------------------------
(* Properties *)

Entries(s, read, pending) == {n \in 1..read : n <= Len(s)} \ pending
AckedCommands == Entries(commands, cmdRead, cmdPending)
AckedResults == Entries(results, resRead, resPending)

Readers(read) == [at : {"idle", "first", "reject", "ack"}, batch : Seq(1..read)]

TypeOK ==
    /\ status \in [Audits -> {"absent", "pending", "running"} \cup Ended]
    /\ local \subseteq Audits /\ published \in [Audits -> BOOLEAN]
    /\ recorded \in [Audits -> SUBSET (1..Len(results))]
    /\ sentTasks \in [Audits -> 0..MaxCopies]
    /\ tasks \subseteq Messages
    /\ worker \in [TaskWorkers -> [at : WorkerStages, msg : Messages] \cup {Idle}]
    /\ commands \in Seq(Audits) /\ cmdRead \in 0..Len(commands) /\ cmdPending \subseteq 1..cmdRead
    /\ consumer \in Readers(cmdRead) /\ (consumer.at = "idle") = (consumer.batch = <<>>)
    /\ job \in [Audits -> {"none", "active"} \cup Verdicts]
    /\ attempts \in [Audits -> 0..ResultMaxAttempts] /\ delivered \in [Audits -> BOOLEAN]
    /\ results \in Seq([audit : Audits, verdict : Verdicts, version : {Rejection} \cup 0..ResultMaxAttempts])
    /\ resRead \in 0..Len(results) /\ resPending \subseteq 1..resRead
    /\ projector \in Readers(resRead) /\ (projector.at = "idle") = (projector.batch = <<>>)

\* However tasks are duplicated, retried and redelivered, an audit has at most
\* one process between its claim and the write that ends the claim.
OneClaimant ==
    \A v, w \in TaskWorkers :
        worker[v].at # "idle" /\ worker[w].at # "idle" /\ worker[v].msg.audit = worker[w].msg.audit
            => v = w

\* An ended queue audit either holds the stream entry it was projected from,
\* with that entry's verdict, or was refused before its command was sent.
EndedAsReported ==
    \A a \in Audits \ local :
        \/ \E n \in recorded[a] : results[n].audit = a /\ status[a] = StatusOf(results[n].verdict)
        \/ recorded[a] = {} /\ status[a] # "success"

AckedResultsAreProjected ==
    \A n \in AckedResults : status[results[n].audit] = StatusOf(results[n].verdict)

AckedCommandsAreAnswered ==
    \A n \in AckedCommands :
        \/ job[commands[n]] # "none"
        \/ \E k \in DOMAIN results : results[k].audit = commands[n] /\ results[k].version = Rejection

\* A message leaves its pending list only when it has had its effect: a result
\* when its audit ended as it says, a command when its job record exists or its
\* rejection is in the result stream.
AckedEntriesAreSettled == AckedResultsAreProjected /\ AckedCommandsAreAnswered

\* The users' view: an audit that ended keeps its outcome, whatever retries,
\* late releases, duplicates and conflicting results follow.
OutcomeIsFinal == [][\A a \in Audits : status[a] \in Ended => status'[a] = status[a]]_vars

\* docs/GO_AUDITOR_SERVICE.md:33: the outbox "prevents a committed
\* `ParallelAudit` from being lost before its Redis command is published":
\* an audit that waits or runs has a task, a process or a command.
NoAuditIsLost ==
    \A a \in Audits \ local :
        status[a] \in {"pending", "running"} =>
            \/ sentTasks[a] = 0
            \/ \E m \in tasks : m.audit = a
            \/ \E w \in TaskWorkers : worker[w] # Idle /\ worker[w].msg.audit = a
            \/ \E n \in DOMAIN commands : commands[n] = a

\* A published command's audit ends, unless the Go service has used up its
\* attempts to publish the verdict, or Django can never read the report: then
\* the result is rejected on every delivery and the audit stays running.
PublishedAuditsEnd ==
    \A a \in Audits :
        []<>((\E n \in DOMAIN commands : commands[n] = a) =>
                \/ status[a] \in Ended \/ job[a] = "unreadable"
                \/ attempts[a] = ResultMaxAttempts /\ ~delivered[a])

=============================================================================
