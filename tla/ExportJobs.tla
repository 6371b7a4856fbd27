----------------------------- MODULE ExportJobs -----------------------------
(***************************************************************************)
(* Exports (apps/exports): a job row, the file it produces, and the four   *)
(* parties that touch them: the user who creates jobs and downloads files, *)
(* the Celery processes that build them, the sweeps that expire them (every*)
(* visit of the export list, and the expire_exports command), and the      *)
(* deletion of the corpus a job reads.                                     *)
(*                                                                         *)
(* Rows change in transactions, files do not: an exception rolls the row   *)
(* back and leaves the file removed.  `due` holds the jobs whose           *)
(* expires_at has passed.                                                  *)
(***************************************************************************)
EXTENDS Integers, FiniteSets

CONSTANTS
    Jobs,          \* ExportJob rows, numbered in the order of their creation
    Users,         \* accounts
    Requester,     \* Requester[j]: requested_by of job j
    Workers,       \* Celery processes of the exports queue
    Sweepers,      \* processes that run expire_exports
    NoJob,         \* job of an idle sweeper
    NoMessage,     \* message of an idle worker
    MaxDownloads,  \* settings.EXPORT_MAX_DOWNLOADS
    MaxRetries,    \* max_retries of build_export_task
    MaxCopies,     \* bound: copies of a task message the outbox sends
    MaxErrors,     \* bound: errors while a file is written
    MaxLosses,     \* bound: lost processes and retries the broker does not take
    MaxDeletions,  \* bound: deletions of a job's corpus
    MaxFaults      \* bound: errors, losses and deletions together

ASSUME RequesterAssumption == Requester \in [Jobs -> Users]
ASSUME JobsAssumption == Jobs \subseteq Nat
ASSUME NoJobAssumption == NoJob \notin Jobs
ASSUME BoundsAssumption == MaxCopies \in Nat /\ MaxRetries \in Nat /\ MaxDownloads \in Nat

VARIABLES
    job,        \* job[j]: ExportJob.status, "absent" before the row; after it
                \* "deleting" until the corpus's directory is removed, then "gone"
    path,       \* jobs whose output_path is set
    file,       \* jobs whose final file is on the volume
    due,        \* jobs with expires_at <= now
    downloads,  \* downloads[j]: download_count
    sent,       \* sent[j]: copies of the message the outbox has sent
    messages,   \* the messages in the exports queue
    worker,     \* worker[w]: stage and message of a Celery process
    sweep,      \* sweep[s]: the instances listed, and the job whose file is to be removed
    errors, losses, deletions \* bounds

bounds == <<errors, losses, deletions>>
rowVars == <<job, path, due, downloads>>
vars == <<rowVars, file, sent, messages, worker, sweep, bounds>>

Active == {"pending", "running"}
Deleted == {"deleting", "gone"}
Ended == {"success", "failed", "expired"} \cup Deleted
Messages == [job : Jobs, copy : 1..MaxCopies, retries : 0..MaxRetries]
Working == {"writing", "written", "oserror", "failing"}
Stages == Working \cup {"claiming", "retry", "ended"}
Idle == [at |-> "idle", msg |-> NoMessage]
NoSweep == [listed |-> {}, removing |-> NoJob]

Init ==
    /\ job = [j \in Jobs |-> "absent"]
    /\ path = {} /\ file = {} /\ due = {}
    /\ downloads = [j \in Jobs |-> 0]
    /\ sent = [j \in Jobs |-> 0]
    /\ messages = {}
    /\ worker = [w \in Workers |-> Idle]
    /\ sweep = [s \in Sweepers |-> NoSweep]
    /\ errors = 0 /\ losses = 0 /\ deletions = 0

\* The bound on everything that goes wrong.
MayFail == errors + losses + deletions < MaxFaults

Goes(w, stage) == worker' = [worker EXCEPT ![w].at = stage]
JobOf(w) == worker[w].msg.job

\* A worker holds the row's lock between its SELECT FOR UPDATE and its COMMIT.
Locked(j) == \E w \in Workers : worker[w].at = "claiming" /\ JobOf(w) = j

-----------------------------------------------------------------------------
(* Users *)

\* The rows _expire_due_jobs selects.
Expirable(j) == j \in due /\ job[j] \in {"pending", "success", "failed"}

\* The user has an active job, those just expired left out.
Busy(u, expired) == \E j \in Jobs \ expired : Requester[j] = u /\ job[j] \in Active

\* create_export_job under the user's row lock: due jobs of the user expire
\* first.  A request for what is being exported already is answered with that
\* job; another refusal (busy, or the hourly limit) rolls the expiry back, but
\* the files are removed already.
CreateExportJob(j) ==
    LET expired == {k \in Jobs : Requester[k] = Requester[j] /\ Expirable(k)}
        marked == [k \in Jobs |-> IF k \in expired THEN "expired" ELSE job[k]]
        busy == Busy(Requester[j], expired)
    IN
    /\ job[j] = "absent" /\ \A k \in Jobs : k < j => job[k] # "absent"
    /\ \A k \in expired : ~Locked(k)
    /\ file' = file \ (expired \cap path)
    /\ \/ ~busy /\ job' = [marked EXCEPT ![j] = "pending"] /\ path' = path \ expired
       \/ busy /\ job' = marked /\ path' = path \ expired
       \/ UNCHANGED <<job, path>>
    /\ UNCHANGED <<due, downloads, sent, messages, worker, sweep, bounds>>

ExpiryPasses(j) ==
    /\ job[j] # "absent"
    /\ j \notin due
    /\ due' = due \cup {j}
    /\ UNCHANGED <<job, path, downloads, file, sent, messages, worker, sweep, bounds>>

\* acquire_download counts a download; the view opens the file afterwards.
AcquireDownload(j) ==
    /\ ~Locked(j)
    /\ job[j] = "success"
    /\ j \notin due
    /\ downloads[j] < MaxDownloads
    /\ j \in file
    /\ downloads' = [downloads EXCEPT ![j] = @ + 1]
    /\ UNCHANGED <<job, path, due, file, sent, messages, worker, sweep, bounds>>

\* The refusals raise inside the transaction: what _expire_job and the FAILED
\* branch wrote to the row is rolled back, the removed file stays removed.
RefuseExpiredDownload(j) ==
    /\ job[j] \notin {"absent"} \cup Deleted
    /\ ~Locked(j)
    /\ j \in due
    /\ j \in path
    /\ file' = file \ {j}
    /\ UNCHANGED <<rowVars, sent, messages, worker, sweep, bounds>>

\* delete_user_corpus deletes the rows of its exports with the corpus, whatever
\* their status; its on_commit hook removes their directory.
DeleteCorpusOf(j) ==
    /\ job[j] \notin {"absent"} \cup Deleted
    /\ ~Locked(j)
    /\ deletions < MaxDeletions /\ MayFail
    /\ deletions' = deletions + 1
    /\ job' = [job EXCEPT ![j] = "deleting"]
    /\ path' = path \ {j}
    /\ UNCHANGED <<due, downloads, file, sent, messages, worker, sweep, errors, losses>>

DeleteExportFiles(j) ==
    /\ job[j] = "deleting"
    /\ job' = [job EXCEPT ![j] = "gone"]
    /\ file' = file \ {j}
    /\ UNCHANGED <<path, due, downloads, sent, messages, worker, sweep, bounds>>

-----------------------------------------------------------------------------
(* Sweeps *)

\* _expire_due_jobs lists the due rows and keeps the instances it read.
ListDueJobs(s) ==
    LET found == {j \in Jobs : Expirable(j)} IN
    /\ sweep[s] = NoSweep
    /\ found # {}
    /\ sweep' = [sweep EXCEPT ![s].listed = {[job |-> j, path |-> j \in path] : j \in found}]
    /\ UNCHANGED <<rowVars, file, sent, messages, worker, bounds>>

\* _expire_job saves one of them, whatever the row has become.
ExpireJob(s) ==
    \E i \in sweep[s].listed :
        /\ sweep[s].removing = NoJob
        /\ ~Locked(i.job)
        /\ job[i.job] \notin Deleted
        /\ job' = [job EXCEPT ![i.job] = "expired"]
        /\ path' = path \ {i.job}
        /\ sweep' = [sweep EXCEPT ![s] = [listed |-> @.listed \ {i},
                                          removing |-> IF i.path THEN i.job ELSE NoJob]]
        /\ UNCHANGED <<due, downloads, file, sent, messages, worker, bounds>>

\* save(update_fields=...) on a deleted row raises and ends the sweep.
SweepRaises(s) ==
    /\ sweep[s].removing = NoJob
    /\ \E i \in sweep[s].listed : job[i.job] \in Deleted
    /\ sweep' = [sweep EXCEPT ![s] = NoSweep]
    /\ UNCHANGED <<rowVars, file, sent, messages, worker, bounds>>

RemoveExpiredFile(s) ==
    /\ sweep[s].removing # NoJob
    /\ file' = file \ {sweep[s].removing}
    /\ sweep' = [sweep EXCEPT ![s].removing = NoJob]
    /\ UNCHANGED <<rowVars, sent, messages, worker, bounds>>

SweeperLost(s) ==
    /\ sweep[s] # NoSweep
    /\ losses < MaxLosses /\ MayFail
    /\ losses' = losses + 1
    /\ sweep' = [sweep EXCEPT ![s] = NoSweep]
    /\ UNCHANGED <<rowVars, file, sent, messages, worker, errors, deletions>>

-----------------------------------------------------------------------------
(* build_export_task *)

OutboxSends(j) ==
    /\ job[j] # "absent"
    /\ sent[j] < MaxCopies
    /\ sent' = [sent EXCEPT ![j] = @ + 1]
    /\ messages' = messages \cup {[job |-> j, copy |-> sent[j] + 1, retries |-> 0]}
    /\ UNCHANGED <<rowVars, file, worker, sweep, bounds>>

\* Mutant: a redelivered message takes over a running job.
ClaimableRunning(j) == job[j] \in Active /\ j \notin due

Claimable(j) == job[j] = "pending" /\ j \notin due

\* _mark_running reads the row and the clock under the row lock ...
ReadForRunning(w, m) ==
    /\ worker[w] = Idle
    /\ m \in messages
    /\ ~Locked(m.job)
    /\ Claimable(m.job)
    /\ messages' = messages \ {m}
    /\ worker' = [worker EXCEPT ![w] = [at |-> "claiming", msg |-> m]]
    /\ UNCHANGED <<rowVars, file, sent, sweep, bounds>>

\* ... and commits; an expired or deleted job raises or is skipped, and the
\* expiry it writes is rolled back with the exception.
MarkRunning(w) ==
    /\ worker[w].at = "claiming"
    /\ job' = [job EXCEPT ![JobOf(w)] = "running"]
    /\ Goes(w, "writing")
    /\ UNCHANGED <<path, due, downloads, file, sent, messages, sweep, bounds>>

SkipJob(w, m) ==
    /\ worker[w] = Idle
    /\ m \in messages
    /\ ~Locked(m.job)
    /\ ~Claimable(m.job)
    /\ messages' = messages \ {m}
    /\ UNCHANGED <<rowVars, file, sent, worker, sweep, bounds>>

\* Mutant: the job succeeds before the temporary file is renamed.
NotReplaced(w) ==
    /\ worker[w].at = "writing"
    /\ Goes(w, "written")
    /\ UNCHANGED <<rowVars, file, sent, messages, sweep, bounds>>

\* The rows are written to a temporary file, which os.replace renames.
ReplaceFile(w) ==
    /\ worker[w].at = "writing"
    /\ file' = file \cup {JobOf(w)}
    /\ Goes(w, "written")
    /\ UNCHANGED <<rowVars, sent, messages, sweep, bounds>>

\* An OSError while writing is retried; any other exception, also one of the
\* success transaction, is final.
WritingRaises(w) ==
    /\ errors < MaxErrors /\ MayFail
    /\ errors' = errors + 1
    /\ \/ worker[w].at = "writing" /\ Goes(w, "oserror")
       \/ worker[w].at \in {"writing", "written"} /\ Goes(w, "failing")
    /\ UNCHANGED <<rowVars, file, sent, messages, sweep, losses, deletions>>

\* _mark_success, whatever the row has become; without a row it raises.
MarkSuccess(w) ==
    LET j == JobOf(w) IN
    /\ worker[w].at = "written"
    /\ \/ /\ job[j] \notin Deleted
          /\ job' = [job EXCEPT ![j] = "success"]
          /\ path' = path \cup {j}
          /\ Goes(w, "ended")
       \/ job[j] \in Deleted /\ Goes(w, "failing") /\ UNCHANGED <<job, path>>
    /\ UNCHANGED <<due, downloads, file, sent, messages, sweep, bounds>>

Fails(j) == job' = [job EXCEPT ![j] = IF @ \in Deleted THEN @ ELSE "failed"]

\* The handler of other exceptions: the final file goes, then _mark_failed.
MarkFailed(w) ==
    /\ worker[w].at = "failing"
    /\ file' = file \ {JobOf(w)}
    /\ Fails(JobOf(w))
    /\ Goes(w, "ended")
    /\ UNCHANGED <<path, due, downloads, sent, messages, sweep, bounds>>

\* Mutant: the job keeps RUNNING while its retry waits.
NotReleased(j) == UNCHANGED job

Released(j) == job' = [job EXCEPT ![j] = IF @ = "running" THEN "pending" ELSE @]

MarkPendingForRetry(w) ==
    /\ worker[w].at = "oserror"
    /\ Released(JobOf(w))
    /\ Goes(w, "retry")
    /\ UNCHANGED <<path, due, downloads, file, sent, messages, sweep, bounds>>

\* Mutant: one more retry than max_retries.
RetryOffByOne(w) ==
    LET m == worker[w].msg IN
    /\ worker[w].at = "retry"
    /\ m.retries <= MaxRetries
    /\ \/ messages' = messages \cup {[m EXCEPT !.retries = @ + 1]} /\ UNCHANGED losses
       \/ losses < MaxLosses /\ MayFail /\ losses' = losses + 1 /\ UNCHANGED messages
    /\ Goes(w, "ended")
    /\ UNCHANGED <<rowVars, file, sent, sweep, errors, deletions>>

Retry(w) ==
    LET m == worker[w].msg IN
    /\ worker[w].at = "retry"
    /\ m.retries < MaxRetries
    /\ \/ messages' = messages \cup {[m EXCEPT !.retries = @ + 1]} /\ UNCHANGED losses
       \/ losses < MaxLosses /\ MayFail /\ losses' = losses + 1 /\ UNCHANGED messages
    /\ Goes(w, "ended")
    /\ UNCHANGED <<rowVars, file, sent, sweep, errors, deletions>>

MarkRetryExhausted(w) ==
    /\ worker[w].at = "retry"
    /\ worker[w].msg.retries >= MaxRetries
    /\ ~Locked(JobOf(w))
    /\ IF job[JobOf(w)] \in Active THEN Fails(JobOf(w)) ELSE UNCHANGED job
    /\ Goes(w, "ended")
    /\ UNCHANGED <<path, due, downloads, file, sent, messages, sweep, bounds>>

Acknowledge(w) ==
    /\ worker[w].at = "ended"
    /\ worker' = [worker EXCEPT ![w] = Idle]
    /\ UNCHANGED <<rowVars, file, sent, messages, sweep, bounds>>

\* acks_late and reject_on_worker_lost: the message of a lost process returns.
WorkerLost(w) ==
    /\ worker[w] # Idle
    /\ losses < MaxLosses /\ MayFail
    /\ losses' = losses + 1
    /\ messages' = messages \cup {worker[w].msg}
    /\ worker' = [worker EXCEPT ![w] = Idle]
    /\ UNCHANGED <<rowVars, file, sent, sweep, errors, deletions>>

-----------------------------------------------------------------------------
WorkerStep(w) ==
    \/ \E m \in messages : ReadForRunning(w, m) \/ SkipJob(w, m)
    \/ MarkRunning(w) \/ ReplaceFile(w) \/ WritingRaises(w)
    \/ MarkSuccess(w) \/ MarkFailed(w) \/ MarkPendingForRetry(w)
    \/ Retry(w) \/ MarkRetryExhausted(w) \/ Acknowledge(w)

SweepStep(s) == ListDueJobs(s) \/ ExpireJob(s) \/ SweepRaises(s) \/ RemoveExpiredFile(s)

Next ==
    \/ \E j \in Jobs :
        \/ CreateExportJob(j) \/ ExpiryPasses(j) \/ RefuseExpiredDownload(j)
        \/ AcquireDownload(j) \/ DeleteCorpusOf(j) \/ DeleteExportFiles(j)
        \/ OutboxSends(j)
    \/ \E s \in Sweepers : SweepStep(s) \/ SweeperLost(s)
    \/ \E w \in Workers : WorkerStep(w) \/ WorkerLost(w)

Spec == Init /\ [][Next]_vars

\* Time passes, the outbox sends each event once at least, the processes go on,
\* and someone sweeps again and again.
Fairness ==
    /\ \A j \in Jobs : WF_vars(sent[j] = 0 /\ OutboxSends(j)) /\ WF_vars(ExpiryPasses(j))
    /\ \A w \in Workers : WF_vars(WorkerStep(w))
    /\ \A s \in Sweepers : WF_vars(SweepStep(s))

FairSpec == Spec /\ Fairness

-----------------------------------------------------------------------------
(* Properties *)

TypeOK ==
    /\ job \in [Jobs -> {"absent"} \cup Active \cup Ended]
    /\ path \subseteq Jobs /\ file \subseteq Jobs /\ due \subseteq Jobs
    /\ downloads \in [Jobs -> 0..MaxDownloads]
    /\ sent \in [Jobs -> 0..MaxCopies]
    /\ messages \subseteq Messages
    /\ worker \in [Workers -> [at : Stages, msg : Messages] \cup {Idle}]
    /\ sweep \in [Sweepers -> [listed : SUBSET [job : Jobs, path : BOOLEAN],
                               removing : Jobs \cup {NoJob}]]

\* A job is built by one process at a time, whatever is sent or expires: two
\* would race to rename, and to remove, the same final file.
OneWorkerPerJob ==
    \A v, w \in Workers :
        worker[v].at \in Working /\ worker[w].at \in Working /\ JobOf(v) = JobOf(w) => v = w

\* An account has one unfinished export, though sweeps and late releases write
\* rows they read earlier.
OneActiveJob ==
    \A j, k \in Jobs :
        j # k /\ job[j] \in Active /\ job[k] \in Active => Requester[j] # Requester[k]

\* Neither jobs nor accounts are served twice at once.
JobsAreExclusive == OneWorkerPerJob /\ OneActiveJob

\* Until it expires, a job shown as downloadable has its file: no failing
\* attempt, stale sweep or rolled back expiry has removed it.
DownloadableHasFile == \A j \in Jobs : job[j] = "success" /\ j \notin due => j \in file /\ j \in path

\* Unless a process is lost or the broker refuses a retry, an export ends
\* whatever goes wrong while its file is written, and its account may ask for
\* another.
ExportsEnd == \A j \in Jobs : []<>(job[j] \notin Active \/ losses > 0)

=============================================================================
