----------------------------- MODULE Processing -----------------------------
(***************************************************************************)
(* Corpus processing (apps/processing/services.py and tasks.py) with its   *)
(* callers in apps/corpora: uploads, registrations, owners' retries and    *)
(* deletions, index repair and the management commands.                    *)
(*                                                                         *)
(* A ProcessingTask, the status of its corpus and the status of the source *)
(* files are three tables written by several transactions; process_task    *)
(* runs between them for minutes, and its message may be duplicated by the *)
(* outbox (AtLeastOnce), redelivered by the broker, or retried.  Every     *)
(* transaction is one action.  The files of a corpus move together.        *)
(***************************************************************************)
EXTENDS Integers, FiniteSets

CONSTANTS
    Tasks,          \* ProcessingTask ids
    Corpora,        \* Corpus ids
    Users,          \* accounts that request processing
    NoUser,         \* requested_by of a task created by a command or a repair
    Owner,          \* Owner[c]: the uploader of a USER corpus, NoUser for others
    Workers,        \* Celery processes, and processes that run process_task themselves
    NoTask,         \* live index of a corpus that has none
    NoMessage,      \* the message of an idle worker
    MaxCopies,      \* bound: copies of a task message the outbox sends
    MaxRetries,     \* max_retries of process_corpus_task
    MaxErrors,      \* bound: I/O errors and failed imports
    MaxAuditFaults, \* bound: failures to create or dispatch the parallel audit
    MaxLosses,      \* bound: lost processes and retries the broker does not take
    MaxRegistrations, \* bound: registrations of platform corpora
    MaxDirect       \* bound: process_task calls without Celery

ASSUME NoUserAssumption == NoUser \notin Users
ASSUME NoTaskAssumption == NoTask \notin Tasks
ASSUME OwnerAssumption == Owner \in [Corpora -> Users \cup {NoUser}]
ASSUME BoundsAssumption == MaxCopies \in Nat /\ MaxRetries \in Nat

VARIABLES
    task,       \* task[t]: ProcessingTask.status, "absent" before and "deleted" after the row
    corpusOf,   \* corpusOf[t]: its corpus
    requester,  \* requester[t]: requested_by
    corpus,     \* corpus[c]: Corpus.status; "deleting" until the files are removed
    files,      \* files[c]: CorpusFile.status
    live,       \* live[c]: the task whose artifacts are published for c
    retryForms, \* corpora a view has read as FAILED and not yet resubmitted
    sent,       \* sent[t]: copies of the message the outbox has sent
    messages,   \* the messages in the Celery queue
    worker,     \* worker[w]: stage and message of a process
    direct,     \* tasks handed to process_task without Celery
    errors, auditFaults, losses, registrations \* bounds

tableVars == <<task, corpusOf, requester, corpus, files, retryForms>>
queueVars == <<sent, messages>>
bounds == <<errors, auditFaults, losses, registrations, direct>>
vars == <<tableVars, live, queueVars, worker, bounds>>

Active == {"pending", "running"}
Ended == {"success", "failed", "deleted"}
CorpusStatuses == {"absent", "created", "pending_processing", "processing", "ready",
                   "failed", "deleting", "deleted"}
Existing == CorpusStatuses \ {"absent", "deleting", "deleted"}

\* Copy 0 is a call of process_task in the caller's own process.
Messages == [task : Tasks, copy : 0..MaxCopies, retries : 0..MaxRetries]

\* Where process_task and process_corpus_task stand between transactions.
Working == {"importing", "published", "oserror", "failing", "unaudited"}
Stages == Working \cup {"called", "retry", "ended"}
Idle == [at |-> "idle", msg |-> NoMessage]

Init ==
    /\ task = [t \in Tasks |-> "absent"]
    /\ corpusOf \in [Tasks -> Corpora]
    /\ requester = [t \in Tasks |-> NoUser]
    /\ corpus = [c \in Corpora |-> "absent"]
    /\ files = [c \in Corpora |-> "pending"]
    /\ live = [c \in Corpora |-> NoTask]
    /\ retryForms = {}
    /\ sent = [t \in Tasks |-> 0]
    /\ messages = {}
    /\ worker = [w \in Workers |-> Idle]
    /\ errors = 0 /\ auditFaults = 0 /\ losses = 0 /\ registrations = 0 /\ direct = {}

Goes(w, stage) == worker' = [worker EXCEPT ![w].at = stage]

-----------------------------------------------------------------------------
(* Creating tasks *)

ActiveOf(c) == {t \in Tasks : task[t] \in Active /\ corpusOf[t] = c}
ActiveBy(u) == {t \in Tasks : task[t] \in Active /\ requester[t] = u}

\* Mutant: the check per corpus, and its constraint, are missing.
AcceptsPerUser(c, u) == u = NoUser \/ ActiveBy(u) = {}

\* The checks of create_processing_task, repeated by two unique constraints.
Accepts(c, u) == ActiveOf(c) = {} /\ (u = NoUser \/ ActiveBy(u) = {})

\* create_processing_task; its outbox event is committed with it.
CreateTask(t, c, u) ==
    /\ task[t] = "absent"
    /\ corpusOf[t] = c
    /\ Accepts(c, u)
    /\ task' = [task EXCEPT ![t] = "pending"]
    /\ requester' = [requester EXCEPT ![t] = u]
    /\ corpus' = [corpus EXCEPT ![c] = "pending_processing"]
    /\ UNCHANGED <<corpusOf, live, queueVars, errors, auditFaults, losses, registrations>>

\* _create_uploaded_corpus and its managed variant: corpus, files and task.
UploadCorpus(t, c, u) ==
    /\ corpus[c] = "absent"
    /\ Owner[c] \in {u, NoUser}
    /\ CreateTask(t, c, u)
    /\ UNCHANGED <<files, retryForms, worker, direct>>

\* register_corpus_from_manifest, _register_group, _register_sample: new rows,
\* or update_or_create over the existing ones whatever their status.
RegisterCorpus(c) ==
    /\ Owner[c] = NoUser
    /\ corpus[c] \in Existing \cup {"absent"}
    /\ registrations < MaxRegistrations
    /\ registrations' = registrations + 1
    /\ corpus' = [corpus EXCEPT ![c] = "created"]
    /\ files' = [files EXCEPT ![c] = "pending"]
    /\ UNCHANGED <<task, corpusOf, requester, retryForms, live, queueVars, worker,
                   errors, auditFaults, losses, direct>>

\* corpus_retry reads the corpus, and retry_user_corpus tests that copy.
OpenRetry(c) ==
    /\ Owner[c] # NoUser
    /\ corpus[c] = "failed"
    /\ retryForms' = retryForms \cup {c}
    /\ UNCHANGED <<task, corpusOf, requester, corpus, files, live, queueVars, worker, bounds>>

RetryUserCorpus(t, c) ==
    /\ c \in retryForms
    /\ corpus[c] \in Existing
    /\ CreateTask(t, c, Owner[c])
    /\ files' = [files EXCEPT ![c] = "pending"]
    /\ retryForms' = retryForms \ {c}
    /\ UNCHANGED <<worker, direct>>

RetryRefused(c) ==
    /\ c \in retryForms
    /\ retryForms' = retryForms \ {c}
    /\ UNCHANGED <<task, corpusOf, requester, corpus, files, live, queueVars, worker, bounds>>

\* process_corpus, repair_corpus_indexes and ensure_corpus_index_ready queue a
\* task; with --sync, and in the registration commands, the process then runs it.
RequestProcessing(t, c) ==
    /\ corpus[c] \in Existing
    /\ CreateTask(t, c, NoUser)
    /\ \/ UNCHANGED <<worker, direct>>
       \/ /\ Cardinality(direct) < MaxDirect
          /\ direct' = direct \cup {t}
          /\ \E w \in Workers :
                /\ worker[w] = Idle
                /\ worker' = [worker EXCEPT ![w] =
                     [at |-> "called", msg |-> [task |-> t, copy |-> 0, retries |-> 0]]]
    /\ UNCHANGED <<files, retryForms>>

\* Mutant: only waiting tasks keep a corpus from being deleted.
DeletableUnlessPending(c) == \A t \in ActiveOf(c) : task[t] # "pending"

Deletable(c) == ActiveOf(c) = {}

\* delete_user_corpus: the tasks' rows go with the corpus; the files follow
\* after the commit, unless the process dies first.
DeleteUserCorpus(c) ==
    /\ Owner[c] # NoUser
    /\ corpus[c] \in Existing
    /\ Deletable(c)
    /\ corpus' = [corpus EXCEPT ![c] = "deleting"]
    /\ task' = [t \in Tasks |-> IF corpusOf[t] = c /\ task[t] # "absent" THEN "deleted" ELSE task[t]]
    /\ retryForms' = retryForms \ {c}
    /\ UNCHANGED <<corpusOf, requester, files, live, queueVars, worker, bounds>>

DeleteUserCorpusFiles(c) ==
    /\ corpus[c] = "deleting"
    /\ corpus' = [corpus EXCEPT ![c] = "deleted"]
    /\ \/ live' = [live EXCEPT ![c] = NoTask] /\ UNCHANGED losses
       \/ losses < MaxLosses /\ losses' = losses + 1 /\ UNCHANGED live
    /\ UNCHANGED <<task, corpusOf, requester, files, retryForms, queueVars, worker,
                   errors, auditFaults, registrations, direct>>

-----------------------------------------------------------------------------
(* process_corpus_task *)

OutboxSends(t) ==
    /\ task[t] # "absent"
    /\ sent[t] < MaxCopies
    /\ sent' = [sent EXCEPT ![t] = @ + 1]
    /\ messages' = messages \cup {[task |-> t, copy |-> sent[t] + 1, retries |-> 0]}
    /\ UNCHANGED <<tableVars, live, worker, bounds>>

Receives(w, m) ==
    \/ worker[w] = Idle /\ m \in messages
    \/ worker[w].at = "called" /\ worker[w].msg = m

\* Mutant: a redelivered message takes over a running task.
ClaimableRunning(t) == task[t] \in Active

\* Mutant: a failed task is run again by a late copy of its message.
ClaimableFailed(t) == task[t] \in {"pending", "failed"}

Claimable(t) == task[t] = "pending"

\* _mark_running
MarkRunning(w, m) ==
    /\ Receives(w, m)
    /\ Claimable(m.task)
    /\ messages' = messages \ {m}
    /\ worker' = [worker EXCEPT ![w] = [at |-> "importing", msg |-> m]]
    /\ task' = [task EXCEPT ![m.task] = "running"]
    /\ corpus' = [corpus EXCEPT ![corpusOf[m.task]] = "processing"]
    /\ files' = [files EXCEPT ![corpusOf[m.task]] = "processing"]
    /\ UNCHANGED <<corpusOf, requester, retryForms, live, sent, bounds>>

\* The task is not pending, or its row is gone and the call raises.
SkipTask(w, m) ==
    /\ Receives(w, m)
    /\ ~Claimable(m.task)
    /\ messages' = messages \ {m}
    /\ worker' = [worker EXCEPT ![w] = Idle]
    /\ UNCHANGED <<tableVars, live, sent, bounds>>

TaskOf(w) == worker[w].msg.task
CorpusOf(w) == corpusOf[TaskOf(w)]

\* The import, and ArtifactWriter.finalize, which publishes in the end.
Finalize(w) ==
    /\ worker[w].at = "importing"
    /\ Goes(w, "published")
    /\ live' = [live EXCEPT ![CorpusOf(w)] = TaskOf(w)]
    /\ UNCHANGED <<tableVars, queueVars, bounds>>

\* They raise: OSError, perhaps when only the old copy is left to be removed,
\* or another exception.
ImportRaises(w) ==
    /\ worker[w].at = "importing"
    /\ errors < MaxErrors
    /\ errors' = errors + 1
    /\ \/ Goes(w, "oserror") /\ live' \in {live, [live EXCEPT ![CorpusOf(w)] = TaskOf(w)]}
       \/ Goes(w, "failing") /\ UNCHANGED live
    /\ UNCHANGED <<tableVars, queueVars, auditFaults, losses, registrations, direct>>

\* _mark_success, which does not look at the task's status.
MarkSuccess(w) ==
    /\ worker[w].at = "published"
    /\ task[TaskOf(w)] # "deleted"
    /\ task' = [task EXCEPT ![TaskOf(w)] = "success"]
    /\ corpus' = [corpus EXCEPT ![CorpusOf(w)] = "ready"]
    /\ files' = [files EXCEPT ![CorpusOf(w)] = "ready"]
    /\ \/ Goes(w, "ended") /\ UNCHANGED auditFaults
       \* dispatch_parallel_audit raises in on_commit
       \/ /\ auditFaults < MaxAuditFaults
          /\ auditFaults' = auditFaults + 1
          /\ Goes(w, "unaudited")
    /\ UNCHANGED <<corpusOf, requester, retryForms, live, queueVars, errors, losses,
                   registrations, direct>>

\* It raises before its commit: create_parallel_audit fails, or the row is gone.
MarkSuccessRaises(w) ==
    /\ worker[w].at = "published"
    /\ \/ task[TaskOf(w)] = "deleted" /\ Goes(w, "failing") /\ UNCHANGED auditFaults
       \/ /\ task[TaskOf(w)] # "deleted"
          /\ auditFaults < MaxAuditFaults
          /\ auditFaults' = auditFaults + 1
          /\ Goes(w, "unaudited")
    /\ UNCHANGED <<tableVars, live, queueVars, errors, losses, registrations, direct>>

\* The statements of _mark_failed; an update of a deleted row changes nothing.
Fails(t) ==
    LET c == corpusOf[t] IN
    /\ task' = [task EXCEPT ![t] = IF @ = "deleted" THEN @ ELSE "failed"]
    /\ corpus' = [corpus EXCEPT ![c] = IF @ \in Existing THEN "failed" ELSE @]
    /\ files' = [files EXCEPT ![c] = IF @ = "processing" THEN "failed" ELSE @]

\* _mark_failed, whatever the task's status has become
MarkFailed(w) ==
    /\ worker[w].at \in {"failing", "unaudited"}
    /\ Fails(TaskOf(w))
    /\ Goes(w, "ended")
    /\ UNCHANGED <<corpusOf, requester, retryForms, live, queueVars, bounds>>

\* Mutant: the files keep their status.
ReleaseKeepsFiles(t) ==
    LET c == corpusOf[t] IN
    /\ task' = [task EXCEPT ![t] = IF @ = "running" THEN "pending" ELSE @]
    /\ corpus' = [corpus EXCEPT ![c] = IF @ \in Existing THEN "pending_processing" ELSE @]
    /\ UNCHANGED files

\* The statements of _mark_pending_for_retry; only the first is conditional.
Releases(t) ==
    LET c == corpusOf[t] IN
    /\ task' = [task EXCEPT ![t] = IF @ = "running" THEN "pending" ELSE @]
    /\ corpus' = [corpus EXCEPT ![c] = IF @ \in Existing THEN "pending_processing" ELSE @]
    /\ files' = [files EXCEPT ![c] = IF @ = "processing" THEN "pending" ELSE @]

MarkPendingForRetry(w) ==
    /\ worker[w].at = "oserror"
    /\ Releases(TaskOf(w))
    /\ Goes(w, IF worker[w].msg.copy = 0 THEN "ended" ELSE "retry")
    /\ UNCHANGED <<corpusOf, requester, retryForms, live, queueVars, bounds>>

\* Mutant: `>` for `>=` in the comparison with max_retries.
RetryOffByOne(w) ==
    LET m == worker[w].msg IN
    /\ worker[w].at = "retry"
    /\ m.retries <= MaxRetries
    /\ messages' = messages \cup {[m EXCEPT !.retries = @ + 1]}
    /\ Goes(w, "ended")
    /\ UNCHANGED <<tableVars, live, sent, bounds>>

\* self.retry puts a new message into the queue, or the broker refuses it.
Retry(w) ==
    LET m == worker[w].msg IN
    /\ worker[w].at = "retry"
    /\ m.retries < MaxRetries
    /\ \/ messages' = messages \cup {[m EXCEPT !.retries = @ + 1]} /\ UNCHANGED losses
       \/ losses < MaxLosses /\ losses' = losses + 1 /\ UNCHANGED messages
    /\ Goes(w, "ended")
    /\ UNCHANGED <<tableVars, live, sent, errors, auditFaults, registrations, direct>>

\* Mutant: the last attempt raises without settling the task.
ExhaustedUnmarked(w) ==
    /\ worker[w].at = "retry"
    /\ worker[w].msg.retries >= MaxRetries
    /\ Goes(w, "ended")
    /\ UNCHANGED <<tableVars, live, queueVars, bounds>>

\* mark_processing_retry_exhausted
MarkRetryExhausted(w) ==
    /\ worker[w].at = "retry"
    /\ worker[w].msg.retries >= MaxRetries
    /\ IF task[TaskOf(w)] \in Active THEN Fails(TaskOf(w)) ELSE UNCHANGED <<task, corpus, files>>
    /\ Goes(w, "ended")
    /\ UNCHANGED <<corpusOf, requester, retryForms, live, queueVars, bounds>>

\* The task function has returned or raised: the message is acknowledged.
Acknowledge(w) ==
    /\ worker[w].at = "ended"
    /\ worker' = [worker EXCEPT ![w] = Idle]
    /\ UNCHANGED <<tableVars, live, queueVars, bounds>>

\* acks_late and reject_on_worker_lost: the message of a lost process returns.
WorkerLost(w) ==
    /\ worker[w] # Idle
    /\ losses < MaxLosses
    /\ losses' = losses + 1
    /\ messages' = IF worker[w].msg.copy = 0 THEN messages ELSE messages \cup {worker[w].msg}
    /\ worker' = [worker EXCEPT ![w] = Idle]
    /\ UNCHANGED <<tableVars, live, sent, errors, auditFaults, registrations, direct>>

-----------------------------------------------------------------------------
Receive(w) ==
    \E m \in messages \cup {worker[w].msg} : m # NoMessage /\ (MarkRunning(w, m) \/ SkipTask(w, m))

WorkerStep(w) ==
    \/ Receive(w)
    \/ Finalize(w) \/ ImportRaises(w)
    \/ MarkSuccess(w) \/ MarkSuccessRaises(w)
    \/ MarkFailed(w) \/ MarkPendingForRetry(w)
    \/ Retry(w) \/ MarkRetryExhausted(w) \/ Acknowledge(w)

Next ==
    \/ \E t \in Tasks, c \in Corpora :
        \/ \E u \in Users : UploadCorpus(t, c, u)
        \/ RetryUserCorpus(t, c)
        \/ RequestProcessing(t, c)
    \/ \E c \in Corpora :
        \/ RegisterCorpus(c) \/ OpenRetry(c) \/ RetryRefused(c)
        \/ DeleteUserCorpus(c) \/ DeleteUserCorpusFiles(c)
    \/ \E t \in Tasks : OutboxSends(t)
    \/ \E w \in Workers : WorkerStep(w) \/ WorkerLost(w)

Spec == Init /\ [][Next]_vars

\* The outbox sends every event at least once, and a process that serves the
\* queue or has started a task goes on.
Fairness ==
    /\ \A t \in Tasks : WF_vars(sent[t] = 0 /\ OutboxSends(t))
    /\ \A w \in Workers : WF_vars(WorkerStep(w))

FairSpec == Spec /\ Fairness

-----------------------------------------------------------------------------
(* Properties *)

TypeOK ==
    /\ task \in [Tasks -> {"absent"} \cup Active \cup Ended]
    /\ corpusOf \in [Tasks -> Corpora]
    /\ requester \in [Tasks -> Users \cup {NoUser}]
    /\ corpus \in [Corpora -> CorpusStatuses]
    /\ files \in [Corpora -> {"pending", "processing", "ready", "failed"}]
    /\ live \in [Corpora -> Tasks \cup {NoTask}]
    /\ retryForms \subseteq Corpora
    /\ sent \in [Tasks -> 0..MaxCopies]
    /\ messages \subseteq Messages
    /\ worker \in [Workers -> [at : Stages, msg : Messages] \cup {Idle}]

\* However messages are duplicated, retried and redelivered, a task has at most
\* one process between its claim and the transaction that ends the attempt
\* (_mark_running); two would share one staging directory.
OneWorkerPerTask ==
    \A v, w \in Workers :
        worker[v].at \in Working /\ worker[w].at \in Working /\ TaskOf(v) = TaskOf(w) => v = w

\* One unfinished task per corpus and one per account, not only when tasks are
\* created: no late release or duplicate brings a second one back to life.
OneActiveTask ==
    \A s, t \in Tasks :
        /\ s # t
        /\ task[s] \in Active
        /\ task[t] \in Active
        => corpusOf[s] # corpusOf[t] /\ (requester[s] = NoUser \/ requester[s] # requester[t])

\* A finished task is never queued or run again.
EndedStaysEnded == [][\A t \in Tasks : task[t] \in Ended => task'[t] \in Ended]_vars

\* No process was lost, and every task is left to one copy of its message.
OnceDelivered == losses = 0 /\ direct = {} /\ \A t \in Tasks : sent[t] <= 1
Undisturbed == OnceDelivered /\ auditFaults = 0

\* With one delivery of each message, and while no audit failed, the three
\* tables agree: an owner sees a corpus wait or work exactly while its task
\* does, no source file is left in PROCESSING, and the index served is that of
\* a finished task.
TablesAgree ==
    \A t \in Tasks :
        LET c == corpusOf[t] IN
        Undisturbed /\ Owner[c] # NoUser =>
            /\ task[t] = "pending" => corpus[c] = "pending_processing" /\ files[c] # "processing"
            /\ task[t] = "running" => corpus[c] = "processing" /\ files[c] = "processing"
            /\ ActiveOf(c) = {} /\ corpus[c] \in Existing =>
                 /\ corpus[c] \in {"ready", "failed"}
                 /\ files[c] # "processing"
                 /\ corpus[c] = "ready" => task[live[c]] = "success"

\* Search never opens a corpus that has no published index; and, with one
\* delivery of each message, deleting a corpus leaves none behind: nobody
\* publishes afterwards.
IndexMatchesStatus ==
    \A c \in Corpora :
        /\ corpus[c] = "ready" => live[c] # NoTask
        /\ OnceDelivered /\ corpus[c] = "deleted" => live[c] = NoTask

\* A direct call met an OSError and has released its task, whose message had
\* been skipped meanwhile: only process_corpus_task retries, and nothing will
\* run the task again.
Stranded(t) ==
    /\ t \in direct
    /\ task[t] = "pending"
    /\ sent[t] > 0
    /\ \A m \in messages : m.task # t
    /\ \A w \in Workers : worker[w] # Idle => TaskOf(w) # t

\* A queued task ends through whatever errors, retries and copies of its
\* message, so that its corpus and its account are free again, as long as no
\* process is lost; besides that only a direct call can strand it.
TasksEnd == \A t \in Tasks : []<>(task[t] \notin Active \/ Stranded(t) \/ losses > 0)

\* services.py:214: "A failed optional audit must never make a successfully
\* indexed corpus unavailable."
AuditNeverFailsCorpus ==
    [][\A w \in Workers :
        worker[w].at = "unaudited" /\ worker'[w].at = "ended" => corpus'[CorpusOf(w)] # "failed"]_vars

=============================================================================
