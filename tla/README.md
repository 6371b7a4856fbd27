# A TLA+ verification project for the corpus platform

The repository is a Django application that stores language corpora, indexes
them, searches them and exports results, with a Go worker that audits parallel
corpora. Its hard part is not a computation but what happens *between*
computations: several processes (Gunicorn workers, three Celery pools, the
outbox publisher, the audit result projector, the Go service) share a
PostgreSQL database, a Redis broker with two audit streams and a data volume,
and every one of them can die between two writes. This project models those
processes, checks them with TLC on small instances and proves the central facts
with TLAPS for every instance. Beside them it has the search and statistics
tools as pure functions of an index, checked against one another.

All paths below are relative to `src/`; `apps/` stands for `backend/apps/`, and
`auditor/` for `backend/go/corpus-auditor/`.

1. [Inventory](#1-inventory)
2. [Plan](#2-plan)
3. [Modules and the code they model](#3-modules-and-the-code-they-model)
4. [Runs](#4-runs)
5. [Fairness](#5-fairness)
6. [Proofs](#6-proofs)
7. [What the work found](#7-what-the-work-found)
8. [What is not modelled](#8-what-is-not-modelled)

## 1. Inventory

| Component | State | Operations | Interacts with |
| --- | --- | --- | --- |
| outbox (`apps/outbox`) | `OutboxEvent` rows: status, attempt_count, lease, next attempt time | enqueue, claim, send, mark, release, purge, replay, polling loop | enqueued by processing, exports and audits inside their transactions; sends Celery messages |
| processing (`apps/processing/services.py`, `tasks.py`) | `ProcessingTask`, status of `Corpus` and `CorpusFile` | create, run, progress, succeed, fail, retry, exhaust | woken by the outbox; writes artifacts; creates a parallel audit; retried and deleted by corpora |
| artifacts (`apps/processing/artifacts.py`, `storage_compaction.py`) | staged, live and backup directories and index files on the volume, without any lock | open, finalize/publish, roll back, abort, compact, publish compact, roll back | read by search, parallel, statistics, audits and exports |
| audits (`apps/audits`) | `ParallelAudit` rows, dispatch message id, result message id and hash | create, claim for command, publish command, project result, fail, run locally | outbox to Celery to the Redis command stream; Redis result stream to the projector |
| Go auditor (`auditor/`) | job records in memory and as JSON on disk, bounded job queue, worker goroutines, result delivery state | submit, batch, cancel, run, publish result, retry results, restore, close | command and result streams, HTTP/gRPC, report files |
| exports (`apps/exports`) | `ExportJob` rows, generated files | create, run, succeed, fail, retry, download, expire | outbox, Celery, filesystem |
| corpora (`apps/corpora`) | corpora, files, grants, quota use | upload, replace grants, retry, delete, register manifest | processing, accounts, filesystem |
| accounts (`apps/accounts`) | users, profiles, quota requests, login counters in the cache | register, review quota, lock out | every view |
| admin_portal, audit, feedback, health, api | forms, search history, saved searches, messages, probes | CRUD and read-only views | the services above |
| search, parallel, statistics | none (pure reads of the index files) | forms, query parsing, matching, sampling, sorting, paging, file view, word lists, clusters, n-grams, keywords, collocates, plots, pair search | artifacts; exports call them page by page |
| corpus_intake, importers | none (batch commands) | scan, classify, read formats | processing, corpora |
| frontend, deploy, loadtests | none of their own | rendering, provisioning | HTTP |

What is hard about each, and what makes it correct:

- **Outbox.** A publisher claims a row in one transaction, calls the broker
  outside any, and records the outcome in another; it can die, be overtaken
  after its lease, or lose the broker's reply. Correct: no row reads as
  delivered that the broker never took; a settled row stays settled; retries
  are bounded; nothing committed is stranded.
- **Processing.** Three tables and a directory tell one story, written by half
  a dozen transactions of processes that may be two for one message. Correct:
  one process at a time on a task; an ended task stays ended; one unfinished
  task per corpus and per account; a ready corpus has an index; a deleted one
  has none; every task ends.
- **Go audit service.** A mutex protects memory, but audits, Redis calls and
  the crash ignore it. Correct: a job is neither forgotten nor run twice; a
  recorded verdict is for ever; what is marked delivered was sent; the service
  can restart from what it wrote.
- **Audit pipeline.** Two streams with pending lists, two state machines that
  only meet through messages that come twice, late or in the other order.
  Correct: one process at a time holds an audit's claim; an outcome is final
  and is the one reported; an acknowledged message has had its effect.
- **Exports.** Rows roll back, files do not, and sweeps save instances they
  read earlier. Correct: one builder at a time; a downloadable job has a file;
  one unfinished job per account; every job ends; a finished file holds what the
  screen showed.
- **Artifacts and compaction.** Several renames stand for one publication.
  Correct: a reader never combines two versions, and a crash leaves a state
  that a restart or a roll-back makes whole.
- **Accounts, quota and saved searches.** Counters and limits are read in one
  place and enforced in another. Correct: limits hold under concurrent
  requests; a lock-out is neither lost nor permanent.
- **Search, parallel concordance, statistics.** The same question is answered by
  several code paths: sorted and counted in SQL or in memory, from stored
  tables or from tokens, page by page or as one stream. Correct: they agree;
  pages partition the result; counts do not depend on the page.
- **Importers.** Sequential parsers. Correct: they agree with a reference.

`PROJECT.json` lists every component with its status, and under `hazards` each
place in the code where one of these goes wrong without a test noticing.

## 2. Plan

Order of work, most important behaviour first. Done modules are in bold.

1. **`AtLeastOnce`** (abstract promise) and **`Outbox`**, which implements it;
   **`OutboxProofs`**. Everything asynchronous hangs on this.
2. **`AuditorService`** and **`AuditorServiceProofs`**: the component with real
   shared-memory concurrency and its own persistence.
3. **`AuditPipeline`** and **`AuditPipelineProofs`**: composes the Django control
   plane, the command consumer, the projector and two streams. The outbox enters
   as what `AtLeastOnce` promises and the service as what `AuditorService` keeps
   on disk.
4. **`Processing`** and **`ProcessingProofs`**.
5. **`ExportJobs`** and **`ExportJobsProofs`**.
6. **`AtomicPublish`** (abstract promise) and **`ArtifactPublish`**, which
   implements it as far as the code does: the renames of `ArtifactWriter._publish`
   with roll-back, compaction of the same files, a crash between any two calls,
   and a search; **`ArtifactPublishProofs`**.
7. **`CorpusIndex`**, **`Search`**, **`Statistics`**, **`Parallel`**: the tools as
   functions, composed by **`CorpusPages`** with publications and exports;
   **`CorpusPagesProofs`** and **`CorpusOrderProofs`**.
8. `UserLimits`: quota and upload (`apps/corpora/services.py`), quota review,
   saved searches, login counters.
9. `CommandStream`: malformed entries and trimming, which `AuditPipeline` leaves
   out.
10. The importers and the intake scan as functions against a reference.

Every safety and every action property of a passing run has its theorem; what 1--7
leave to prove is liveness, which TLC checks.

## 3. Modules and the code they model

A transaction, a critical section or a single external call is one action; every
place between two of them is a place where another process runs or the process
dies. Formatting, progress percentages, logging and report contents are left
out. Definitions commented *Mutant* are deliberate mistakes that show the
properties can fail; no action uses them.

### `AtLeastOnce`, `Outbox` -- `apps/outbox`

`status[e]`, `attempts`, `replays` are the columns of a row; `due` and
`leaseOver` are the comparisons of `available_at` and `locked_until` with the
clock. A publisher's `stage`, `claim` and `batch` are its Python locals.

| Action | Code |
| --- | --- |
| `EnqueueTask` | `enqueue_task` committed with its business row |
| `SelectBatch`, `ClaimEvent`, `SkipEvent` | the id list and `_claim_event` of `publish_pending_events` |
| `BrokerAccepts`, `BrokerAcceptsThenRaises`, `BrokerRejects` | `current_app.send_task` in `publish_event` |
| `MarkPublished`, `ReleaseForRetry` | `_mark_published`, `_release_for_retry` |
| `PurgePublished`, `RequeueDeadLetter` | `purge_published_events`, `_requeue_dead_letter` |
| `Crash` | a process or its database connection dies between two transactions |

`accepted` is history: the copies the broker took. `AtLeastOnce` sees a row as
`absent`, `outstanding`, `settled`, `abandoned` or `forgotten`; `Outbox!Promise`
maps the row's status to that phase and `accepted` to the copies.

### `AuditorService` -- `auditor/internal/service`

`mem` is `service.jobs`, `disk` the JSON documents, `queue` the channel,
`worker` the goroutines, `pub` the calls of `publishResult`, by a spawned
goroutine or by the ticker. `Submit`, `SubmitBatch` (and its roll-back, and a
crash half way), `Cancel`, `Dequeue`, `StartJob`, `Finish`, `BeginSpawned`,
`BeginRetry`, `CallPublisher`, `MarkResult`, `BeginClose`, `Exit`, `Crash`,
`Restart` are the critical sections of the functions of like names (`Restart` is
`New` with `restore`). Each write of a document may fail while `MaxFaults`
lasts. The audit itself is a choice between success and failure.

### `AuditPipeline` -- `apps/audits`, `auditor/cmd/corpus-auditor-service`, `redis_streams.go`

`status`, `published` and `recorded` are the `ParallelAudit` row, `local` the
rows whose mode a worker runs by itself (`RunLocalAudit`); `worker` is a
Celery process inside `publish_audit_command`; `commands` and `results` are the
streams with what their groups have read and hold pending; `consumer` and
`projector` are the two loops. `ClaimAudit`, `PublishCommand`,
`PersistPublication`, `ReleaseForRetry`, `MarkRefused` are the transactions of
`publish_parallel_audit_command` (`apps/audits/services.py`); `SubmitCommand`, `PublishRejection`,
`AckCommand` the body of `consumeCommands`; `ApplyResult`, `SkipResult`,
`RejectResult`, `AckResult` the projector. A Redis call may fail before or after
it took effect (`MaxOutages`). A report may be unreadable for a while, which counts
as an outage, or for good: such a job ends as `unreadable`, and the projector rejects
its result on every delivery.

### `Processing` -- `apps/processing`, `apps/corpora/services.py`

`task`, `corpus`, `files` are the three status columns, `live` the published
index, `messages` the Celery queue, `worker` the stage of a process in
`process_task`, `direct` the tasks a command handed to `process_task` without
Celery, so that nobody retries them, `retryForms` the corpora a view has read and
not yet acted upon. Actions: `UploadCorpus`, `RegisterCorpus`, `OpenRetry`, `RetryUserCorpus`,
`RequestProcessing` (repair and commands), `DeleteUserCorpus` and the removal of
its files, `OutboxSends`, `Receive`, `MarkRunning`, `ImportRaises`, `Finalize`,
`MarkSuccess`, `MarkSuccessRaises`, `MarkFailed`, `MarkPendingForRetry`,
`MarkRetryExhausted`, `Retry`, `WorkerLost`.

### `ExportJobs` -- `apps/exports`

`job`, `path`, `due`, `downloads` are columns; `file` is the volume. Jobs are
numbered in the order of their creation, as their rows are. Row and
file change apart: `ReplaceFile` and `MarkSuccess` are two actions, so are
`ListDueJobs`, `ExpireJob` and `RemoveExpiredFile`, and a refused download
removes the file while its row is rolled back.

### `AtomicPublish`, `ArtifactPublish` -- `apps/processing/artifacts.py`, `storage_compaction.py`

A directory is known by the version it was built as: `live[d]`, `staging[d]` and
`backup[t][d]` say which version stands at a path, 0 being none. Inside an index
directory `sqlite[v]` and `precompact[v]` are the files compaction exchanges, and
`archive[v]` is the compressed token file beside the plain one.

| Actions | Code |
| --- | --- |
| `Build` | `open`, the import and `finalize` up to `_publish`: only staging is written |
| `ClearBackup`, `SaveLive`, `Replace`, `RemoveBackup` | the loops of `_publish` over `processed` and `index` |
| `Undo`, `Restore` | its `except` branch, backwards |
| `NextLoop`, `PublishRaises`, `Abort`, `WriterLost` | the end of a loop, an `OSError` in any call, `abort`, the death of the process |
| `BuildPilot`, `CheckPilot` | `compact_corpus_storage` and the checks of `publish_compact_artifacts` |
| `LinkBackup`, `PublishIndex`, `PublishArchive`, `InspectPublished` | its calls |
| `CompactionRaises`, `UndoArchive`, `UndoIndex`, `RestoreIndex`, `Unlink`, `CompactionBreaksOff`, `CompactorLost` | its roll-back, and what ends it early |
| `RequireArtifacts`, `OpenIndex`, `ReadMetadata`, `EndSearch` | `_require_artifacts`, the connection, `_metadata_for` |

`AtomicPublish` has a committed version that only a newer one replaces and a
served version that is the committed one or none. `Committed` is the newest
version of which every part is on disk, in place or kept aside; `Served` is what
a search would combine from the two paths. The promise ends (`sound`) when a
roll-back is itself broken off or directories move during a compaction.

### `CorpusIndex`, `Search`, `Statistics`, `Parallel`, `CorpusPages` -- `apps/search`, `apps/statistics`, `apps/parallel`, `apps/exports`

These modules are functions, except for `CorpusPages`. `CorpusIndex` is what
`ArtifactWriter` writes: token rows, word totals, n-gram tables. A word is an
abstract surface; its case-folded form, its place in a sort order, the wildcard
patterns that match it and the surfaces it contains are constants, so that no
string is taken apart. Every word is two characters long: spans of characters
are spans of words.

- `Search`: forms, `compile_query`, matching, sampling by the linear
  congruence, sort keys, paging and pattern counts of the simple search (in SQL)
  and the advanced one (in memory), regular expressions over texts, the CQP
  subset, and the file view. Words are stored folded, so both orders agree on
  them; file names are not. A document has its name (`FileName`, what SQL counts
  by), the name's place folded by `COLLATE NOCASE` (`FileRank`, what SQL sorts by)
  and its place folded by `casefold` (`FoldedRank`, what memory sorts and counts
  by); `FilePlace` and `CountedValue` choose. `Tokenized` is the segmenter, which
  takes a query apart between blanks as well, `Segmented` leaves a query with a
  wildcard to its blanks, and `NearWords` refuses a context word that is more than
  one.
- `Statistics`: word list (stored and counted), clusters, n-grams with an open
  slot (a filter is looked for in an n-gram as it is displayed, its words put
  together: `GramFiltered`, with `Across` for what reaches over several words),
  keywords, word cloud, collocates with their contingency table, and the
  concordance plot. Measures are fractions.
- `Parallel`: conditions on both sides, one hit per occurrence, every nth entry,
  sort words, excerpts and highlights, the conditions an export keeps.
- `CorpusPages`: `Publish`, one action per tool that opens the index published
  at that moment, and the exports: `StartExport` with `ExportKwicPage` page by
  page, `ExportPairs` and `StreamPairs` in one read.

`MCxxx` modules only name the instances: symmetry sets, owner functions, and for
`CorpusPages` three small corpora and the requests.

## 4. Runs

Every passing run is exhaustive over its instance. `CHECK_DEADLOCK FALSE` is set
everywhere because each of these systems may come to rest: the finite supply of
requests is used up and nothing is left to do.

| Run | Instance | Shows |
| --- | --- | --- |
| `outbox` | 1 event, 3 publishers, 2 attempts, 2 crashes, 1 replay | row and broker agree (`PublishedWasAccepted`), settled rows stay settled against publishers with stale leases, retries are bounded, `Outbox` implements `AtLeastOnce`, and the event is delivered or becomes a dead letter |
| `auditor` | 2 jobs, 2 workers, channel of 2, 2 failed writes, 1 crash | every accepted job has exactly one place where it waits, runs or is finished (`EveryJobHasOnePlace`), none is marked delivered without being sent or given two verdicts |
| `auditor_live` | 1 job, 2 workers, 2 attempts, 2 failed writes, 2 crashes | an accepted job is reported or uses up its attempts |
| `auditor_restart` | 2 jobs, 1 worker, channel of 1 | *violated*: a full channel plus a running job do not fit after a crash |
| `audit_pipeline` | 1 audit of either mode, 2 processes, 2 task copies, 1 retry, 2 publication attempts, reads of 2 entries, 1 outage, 1 rejection, 1 crash, a report readable or not | claims are exclusive, an outcome is final and is the reported one, acknowledged entries have had their effect, and an audit whose command reached the stream ends |
| `audit_lost` | 1 audit, 1 process, 1 crash | *violated*: a crash between claim and `XADD` loses the audit |
| `processing` | a user's corpus and a platform corpus, 2 tasks, 2 processes, 2 copies of a message, 1 direct call, 1 retry, 2 errors, 1 lost process, 1 registration | attempts are exclusive, ended tasks stay ended, one unfinished task per corpus and account, and a corpus has an index when its status says so and none once deleted (`IndexMatchesStatus`) |
| `processing_tables` | 1 corpus, 2 tasks, 2 processes, 2 copies of a message, 1 direct call, 1 retry, 2 errors, 1 audit fault, deletion | the three tables tell the same story (`TablesAgree`), and every task ends or is stranded by a direct call (`TasksEnd`) |
| `processing_audit_fault` | 1 task, 1 audit fault | *violated*: a failed audit fails the corpus |
| `export_jobs` | 2 jobs of one user, 2 processes, 1 sweep, 1 download, together 3 faults out of 2 errors, 1 loss and 1 deletion | one builder per job and one unfinished job per account (`JobsAreExclusive`), downloadable jobs have files, every job ends unless a process is lost |
| `corpus_pages` | 3 corpora of four sentences and up to three pairs, 242 requests, file names that SQL and memory sort or count differently, 2 publications, export pages of 3 hits | pages partition the result (`PagesPartition`), the engines agree, pattern counts do not depend on the page, the file view shows the hit, all tools count the same tokens (`CountsAgree`), collocation is symmetric, an export is the search |
| `artifact_publish` | 3 versions, 3 faults, a first or an existing version, a compaction, a search | a search shows texts of the index it searched or newer ones after an exchange, and the exchange implements `AtomicPublish` |

**Why the bounds suffice.** Two actors are enough for every race in this code,
because each race is between a holder of a claim and one late-comer; the outbox
has three publishers so that a stale publisher, its successor and a third that
reclaims from the successor exist at once. One event is enough there because
rows meet only in a batch, and the safety properties are proved for any number.
Two attempts or one retry give a first, a repeated and an exhausted try.
Three versions are an old one, a failed one and its successor; three faults let
an attempt fail, its roll-back fail and a process die. The corpora have a query
word in both cases, as part of another word, across a sentence border, in two
documents and in two languages, results longer than a page, and a document
without hits; the requests vary one choice of a form at a time.
Crash and error budgets exceed the number of places an attempt can be hit
twice. `MaxReplays`, `MaxCrashes`, `MaxFaults`, `MaxOutages`, `MaxRejections`,
`MaxErrors`, `MaxLosses`, `MaxAuditFaults`, `MaxCopies`, `MaxRegistrations`,
`MaxDirect`, `MaxDeletions`, `MaxVersion` and `MaxPublications` are the bounds; the other numeric constants are
settings of the program.

**Conditions that are part of a claim.**

- `EveryJobIsReported` is checked with one job, so that a restart always fits;
  `auditor_restart` is what happens otherwise.
- `OneVerdict` holds as long as no file operation failed: after one, memory says
  `failed`, is published as such, and a restart runs the job again.
- `TablesAgree` speaks of user corpora while `Undisturbed`: no message was sent
  twice, no process lost or called directly (`OnceDelivered`), and no audit failed.
  With duplicates the release of an attempt can set a corpus to waiting after its
  task ended (section 7). `IndexMatchesStatus` says of every state that a ready
  corpus has an index, and while `OnceDelivered` that a deleted one has none. These
  conditions are part of the invariants, about states and not about the bounds: the
  runs have copies, direct calls, losses and audit faults.
- `TasksEnd` and `ExportsEnd` stop at a lost process (section 7), and `TasksEnd`
  excepts a task that a direct call has left behind (`Stranded`): the direct call
  claims the task, its message is skipped and acknowledged, and an `OSError` sets
  the task back to pending with nobody left to run it.
- `SearchIsOfOneVersion` and `PublishesAtomically` end with `broken` and `raced`
  (section 7).
- `EnginesAgree` compares totals and the hits of samples always, and the order
  between SQL and memory except for phrases sorted by key C (`WordsAlike`), for key
  FILE if the corpus has names that NOCASE and `casefold` place differently or, when
  matches are counted, names that differ in case only (`FilesAlike`), and for a
  sample without keys. The names of the instance have both. Its CQP part is about
  whole English words without wildcards, whose case does not matter.
- `FileShowsTheHit` leaves out a Chinese query that the segmenter splits, and
  `ExportIsTheSearch` a random sample and the conditions an export job drops:
  there the code paths differ (section 7). An export is compared if all its pages
  were read from one publication; nothing in the code ensures that.
- `DownloadableHasFile` is about jobs that are not due. A due job may keep the word
  success without its file after a rolled back expiry, and a file may outlive a job
  whose corpus was deleted while it was built.
- `CountsAgree` speaks of word lists by surface without a tag and in any case. It
  compares the concordance for words that a query takes as they stand: one that
  the segmenter splits, or that is a wildcard pattern, is another query.
- `PublishedAuditsEnd` exempts a verdict whose publication attempts ran out, and a
  job whose report Django can never read: its audit stays running.
- `TasksEnd`, `ExportsEnd` and `PublishedAuditsEnd` say of every task, job and
  audit that again and again it has ended or is exempt.
- Symmetry is used only in runs whose specification has no fairness.

## 5. Fairness

Each `FairSpec` assumes what deployment and code provide, and no more.

- *Outbox*: leases and back-offs run out; the publisher goes on after any
  outcome. `publish_outbox --loop` catches errors and sleeps, and its container
  is `restart: unless-stopped` (`docker-compose.prod.yml`). No fairness for
  crashes, purging or replays.
- *AuditorService*: goroutines run, audits end at `AuditTimeout`, the ticker
  fires, and the container is started again after an exit.
- *AuditPipeline*: weak fairness of processes; strong fairness of reading and of
  reclaiming, because both loops do these two in turn and an entry's idle time
  passes while it waits, so each is possible again and again though not without
  interruption. `ReclaimCommands(cmdPending)` is the case in which all pending
  entries are idle long enough.
- *ArtifactPublish*, *CorpusPages*: none; what they promise is safety.
- *Processing*, *ExportJobs*: the outbox sends each event at least once (proved
  and checked for `Outbox`, apart from dead letters); Celery processes that have
  begun a task go on; time passes; the export list is visited or
  `expire_exports` runs again and again.

## 6. Proofs

`tlapm` checks every theorem below from the named assumptions of the modules
(`MaxAttempts`, `Limit`, `QueueCapacity`, `ResultMaxAttempts` positive, the null
values outside their sets, bounds natural, `Jobs` and `Publishers` finite; of
`CorpusPages`, that corpora are lists of sentences and pairs as the importers hand
them over, two of which share no document, that documents are numbered and places in
an order are integers, which no two folded words share, that files of one name are
folded to one place, that a segmented query is a
list with words, that folding the case of a word leaves it punctuation or none, that
numbers in a request are integers, its terms words and its terms and keys lists, its
sort keys those of `SORT_FIELDS`, and its page size, open slot and parallel context
such as the form offers, and that `ExportSize`, `MaxPublications` and the lengths of
stored n-grams are positive) for every value of the constants.

**`OutboxProofs`.** `TypeCorrect`. `DeliveredRowsWereAccepted` needs two more
facts to be inductive: a publisher in stage `accepted` has had a copy of its
claim accepted (`SentWasAccepted`), and claimed rows exist
(`ClaimsAreCommitted`); acceptance is never undone, so it survives every
overtaking. `SettledRowsStaySettled` follows step by step from the type
invariant: each writer tests the status under the row lock. The refinement
`OutboxDeliversAtLeastOnce` maps every step to one of `Request`, `Deliver`,
`Settle`, `Abandon`, `Revive`, `Forget` or a stutter; `MarkPublished` maps to
`Settle` only because of `SentWasAccepted`. `AttemptsAreBounded` rests on
`RetryInv`: a pending row is below the limit; while a row is being published, each
attempt beyond the limit is one of a publisher still out or of a crash, and the
first of them to record an outcome ends the retries; a dead letter is ahead by at
most what one replay takes back. It counts publishers that are out, hence
`PublishersAssumption`.

**`AuditorServiceProofs`.** `TypeCorrect`. `VerdictsAreDurable`: a worker
overwrites a document after an audit during which it held no lock. `VerdictInv`
says why this is harmless: memory agrees with every recorded verdict
(`VerdictInMemory`), a job under audit is running or was cancelled
(`AuditedIsRunning`), it is under audit at one worker (`OneAuditor`), and no
worker outlives the process (`DownIsIdle`). `DeliveredJobsWereSent` uses that a
publisher holding a good reply has sent (`RepliedWasSent`), since the job may be
deleted, restarted or marked by the other publisher meanwhile.
`JobsHaveOnePlace` rests on `PlaceInv`: besides the property, only jobs the map
knows are in a place (`PlacedIsKnown`), so that new jobs can be sent into the
channel unseen; an idle worker has no job; and the channel does not outlive the
process. A restart and a batch send each job exactly once because an injective
order of as many jobs as there are meets them all (`OrdersAreComplete`).
`VerdictsAreUnique` rests on `OnceInv`: while no write has failed, memory and
documents agree on states, what was sent is a recorded verdict, and a publisher
inside Redis is publishing one; with the durability of verdicts, the entry it adds
after any delay is the same verdict.

**`ProcessingProofs`.** `TypeCorrect`. `AttemptsAreExclusive` rests on
`AttemptInv`: exclusive, *and* a task somebody works on is neither absent nor
pending (`WorkedOnIsClaimed`); without the second half a release could meet a
second attempt at the same task. `EndedTasksStayEnded` and `OneTaskAtATime`
share the lemma `TaskChanges`, which lists all a step can do to task rows.
The tables take three inductive invariants, each on top of the one before. `ServedInv` holds
always: who is past publication has left an index of its own task, so a ready
corpus has one (`ReadyCorporaAreServed`). `OnceInv` holds while `OnceDelivered`:
an unsent task is waiting, a message and a worker for one task exclude each other
(`MessageIsOnly`, `CarrierIsOnly`), and the row says how far its carrier has come
(`StageIsStatus`); so nobody publishes for a corpus after its deletion
(`DeletedCorporaStayUnserved`). The condition is needed: with two copies, one may
exhaust the retries and fail the task, the user deletes the corpus, and the other
publishes; a lost process leaves its published index to a later deletion of a
failed task. `TablesInv` holds while also no audit failed, and is an agreement of
each corpus with its unfinished task or its last ended one
(`TablesStayInAgreement`); a failed audit would put a finished task back to failed.

**`AuditPipelineProofs`.** `TypeCorrect` says that a reader of a stream is at
entries it has read, and has read no further than the stream goes. `StatusChanges`
lists what a step can do to a row; `OutcomesAreFinal` follows. `ClaimsAreExclusive`
needs that an audit some process holds is neither absent nor waiting
(`ClaimedIsStarted`): the only step back to waiting is the release by the holder
itself. `OutcomesAreReported`: what a row records is an entry of its audit with
its verdict (`RecordedIsReported`), and without one only a local run succeeds
(`UnreportedIsNoSuccess`). `AcksAreEarned` rests on `AckInv`, which extends the
property to the entry a reader is about to acknowledge, and on `EffectsLast`:
ends are final, jobs are kept and streams only grow, so what was done when an
entry was dealt with is still done when it is acknowledged, however much later.

**`ExportJobsProofs`.** `TypeCorrect`. `ExportsAreExclusive` needs that holders of
a message are exclusive, that a job read as pending and not yet written is
pending, that a job somebody works on is marked as being built, and that an
account has one unfinished job; a stale sweep may overwrite the row between
these, which is why the invariant speaks of the process and the row.
`DownloadsHaveFiles` needs that what a sweep removes is due (due dates never
move) and that a process that has replaced the file still has it when it marks
success.

**`ArtifactPublishProofs`.** `TypeCorrect`. The idea of the other two is
`Former(d)`, the version of directory `d` that a roll-back would end with: the one
in the task's backup while the loops can be undone, else the one in place.
`SameFormer`, `Exchanged` and `LeftAsIs` are all a step of the writer can do to
it: nothing, the rename of the index, which brings both directories to the new
version at once, or an end that leaves the directories as they stand (a lost
writer, a roll-back that broke off). `VersionInv` follows: the two former versions
do not differ, no backup is newer, and both are older than the one being put in
place; `LiveIs` derives that the live directories never mix.
`SearchesAreOfOneVersion` also needs `FilesInv` (an index file is the one its
directory was built with) and `OpenedInv` (before the exchange, what a search
opened is older than the new version). `PublicationIsAtomic` maps the rename of
the index to `Replace`, a step that breaks a roll-back off or moves directories
under a compaction to `Break`, and every other to `Hide`, `Show` or a stutter; it
rests on `Shown`, by which `Committed` is `Former("index")` while the writer lives
and only the version in place is served.

**`CorpusPagesProofs`.** `PagesAreInvariant`, from which `PagesAreTyped` and
`ExportsAreTheSearch` follow. An export asks the questions of the screen again,
with pages of another size, no sample and any number of publications in between.
The proof cuts everything from one sequence: `SearchOrder` is all matches of a
question in the order it asks for, `PairOrder` all occurrences of pairs. An answer
without a sample is the page of that sequence its number and size say, in the
simple and in the advanced engine (`Answers`), and the sequence depends neither on
page and size nor on the seed (`SameOrdering`). Pages of one sequence follow each
other without gap and end with its end (`PagesJoined`, `NextPage`, `ExportGrows`). So
the invariant `Written` is inductive: while all pages were read from the corpus of
the screen, the rows written are the hits of the pages before the next, and a
finished export has written all. `TypeOK` needs that a page number is clamped into
`1..pages` and that a page has no more rows than the total, which rests on counting
the elements that filters, samples and slices leave. `InOrder` sorts, `At` selects
and `Extended` joins records; they stand where `SelectSeq` and `@@` would, whose
library definitions the provers cannot expand. Where a fact about numbers needs
induction, the proofs take a least counterexample (`LeastNumber`).

`PagesAlwaysPartition`, in the second half of the module: pages that follow each
other in one sequence partition the result only if that sequence holds every match
once, and it is made by sorting: in SQL, in memory, by the hash of a sample, or by
the words around an anchor. Sorting keeps each match once if no two tie, so every
order must be shown to be total on what it sorts. All of them end with a place. For
the concordance that is the row, the character and the length (`Place`), and two
matches of one row and length are one match, because what a match says of the text
follows from the number of its row in the stream (`StreamsDiffer`,
`MatchesArePlaced`); this holds for compiled words, CQP patterns and the spans of a
regular expression alike (`FoundArePlaced`). A comparison of lists of numbers is
transitive and total (`SeqLessTransitive`, `SeqLessTotal`), so is that of lists of
values before them (`SortingOrders`), and an enumeration by such an order arranges
its set (`RankedEnumerates`, `Arranges`). Pairs are expanded row by row into
occurrences with ascending places (`ExpandedInSequence`), thinned, and sorted by
keys that are equally long for all of them (`KeyHeadTyped`), hence decided by the
place at their end (`SortingKeepsOccurrences`). That the anchor of a hit lies in its
excerpt and is as long as the term is arithmetic of `_context_slice`
(`SliceMarksTerm`), once it is known that every span found is one of the term
(`TermSpansAreSpans`).

`EnginesAlwaysAgree` compares three computations of one page. They find the same
matches: a query without context words gives the advanced search one list
(`AdvancedOfPlain`), and a quoted phrase of plain words compiles to filters that
accept what its matchers accept (`PhraseFindsTheSame`). They sort by the same
values: the five words that are loaded on each side of a match reach every word a
sort key can name (`SameValueLoaded`), and key C, which SQL reads from the first
word and memory from all, is the same for one word (`SameValueInSql`). They count the
same matches together, or do not count (`GroupedAlike`): by file, SQL groups by name
and memory by folded name, which is the same if no two names of the corpus differ in
case only. A sort depends on values and groups only (`SameValuesSortAlike`), and a
page on the sorted matches (`PlainShows`, `InMemoryShows`, `ComplexShows`). Where the orders may differ, totals
and samples agree still, because both arrange the same matches
(`SameMatchesSameHits`).

**`CorpusOrderProofs`.** `PatternCountsAlwaysAgree` needs the same about patterns:
what is loaded to show a page (the width of its context, but at least five words)
and what is loaded to count (five words around every match) both give a match its
pattern in the whole table (`PatternLoaded`), so a count of records is a count of
matches (`RecordsCounted`), and of places in the order that the pages cut up
(`HitsCounted`). If no key is left the simple search counts on the page only; a
pattern then is a row, and its matches, all equally long, are alone in their rows
(`AloneInItsRow`).

`CollocatesAlwaysMirror` needs three things. What a page lists are entries of the
whole set: collocates are sorted by a score first, which is a fraction compared by
cross products, so the order must be total on fractions whose denominators are
positive (`FractionsChain`, `FractionsOrdered`), and two entries that tie are one
word, because no two folded words share a place (`EntriesListed`). No word stands in
its own window (`NearIsApart`), so left and right add up. And a word is in the
window of a node when the node is in the window of the word with its sides exchanged
(`WindowTurns`); that the node is then counted, too, uses that it is no punctuation
and that its collocates were not chosen by tag (`NearTurns`). Swapping pairs keeps
their number (`SwappedAlike`).

`FileAlwaysShowsTheHit` joins what a text is cut at to what a search has found. The
words of a match are words of the text, so whatever is looked for spans some of its
characters (`AlongWithin`, `FileMarksInText`). A fold marks the spans that begin
behind the last one marked: those are apart, and a span passed over begins in one
that is marked (`MarkOneMore`, `MarkedCover`). Joining the piece in front of each
marked span, the span and the rest tiles the text (`PiecesJoined`, `SegmentsTile`).
Last, a hit is the place of a match, whichever engine, sample or page shows it
(`ConcordanceAmong`), and a tag or context words only take matches away
(`FoundAreCompiled`), so the file view, which looks for the bare words, finds that
match as well (`HitMarked`).

`CountsAlwaysAgree` has two parts. The frequency of a word is the number of its rows
in the table of words. The word list shows it, stored or counted (`WordListCounts`),
and so do both other lists and the cloud, if they are long enough to hold every word
(`ListsHoldWord`, `CloudHoldsWord`); a concordance of the word has one match in each
of these rows (`ConcordanceOfWord`), and a plot puts each of them into one cell of
one document (`PlotOfWord`). The n-grams are stored otherwise than they are counted:
`_write_ngrams` takes one file after the other, counts its windows and adds the
counts up, and `range` adds one for each file's documents. `Grammed` says that the
table it ends with holds, for every gram of a stored length, the number of rows the
gram stands at and the number of documents of these rows. It is shown for the first
results together, one more at a time (`TablesJoin`, `NgramTableOfRows`,
`TableGrammed`): the windows of a result are laid out in rows that no other result
has (`WindowsPlaced`, `WindowsApart`), so frequencies add up, and as two results
share no document, so do ranges. From `Grammed`, a row of stored n-grams is an entry
of a tally of windows (`StoredRows`, `StandingIsWindows`, `StoredAreTallied`); the
windows of a gram with an open slot are divided among the n-grams that fill it, each
in one (`FillingIsApart`), so its frequency is their sum (`OpenAddsUp`). A row of a
list is an entry of the set that is listed because no two entries tie
(`OpenSpotsTell`, `RanksTellTexts`). The sums are folds over sets and sequences;
they are computed by taking away one element after the other below a least
counterexample.

**Only model-checked.** Out of the prover's reach: liveness (`NoEventStranded`,
`EveryJobIsReported`, `PublishedAuditsEnd`, `TasksEnd`, `ExportsEnd`), `ENABLED`, and what the folds of
`Search`, `Statistics` and `Parallel` compute for every input beyond the bounds and
types the proofs above need. No module uses a `RECURSIVE` operator.

## 7. What the work found

Three disagreements between code and its own words, each a run:

- `auditor_restart`: `restore` puts every queued and formerly running job into a
  channel of `QueueCapacity` places and fails with `ErrQueueFull` if they do not
  fit (`auditor/internal/service/service.go:328`), while running jobs never
  counted against the capacity. `auditor/README.md:29` promises that in-flight
  jobs return to `queued`.
- `audit_lost`: `_claim_audit_for_command` commits `running` before the `XADD`
  (`apps/audits/services.py:71`). A process that dies in between leaves an audit
  that the redelivered task skips. `docs/GO_AUDITOR_SERVICE.md:33` says the
  outbox prevents this.
- `processing_audit_fault`: the optional parallel audit is created inside the
  success transaction and dispatched from its non-robust `on_commit` hook
  (`apps/processing/services.py:218`), so its failure marks the corpus failed,
  against the comment at lines 214-215.

Limits the models contain and the properties are stated around:

- An expired lease counts as an attempt, so an event can become a dead letter
  after fewer failures than `docs/OPERATIONS.md:19` suggests
  (`apps/outbox/services.py:195`).
- A crash while a batch is saved leaves part of it accepted
  (`service.go:231`; `auditor/README.md:19` calls batches atomic).
- A refused command is acknowledged with no job record, only its rejection
  result (`main.go:157`; `docs/GO_AUDITOR_SERVICE.md:35`).
- A verdict that is published a second time with another attempt count is a
  different payload, and the projector reports a conflict instead of a duplicate
  (`apps/audits/services.py:157`; `auditor/README.md:26-27`). The entry stays
  pending; the outcome is unharmed.
- The last attempt releases a task in one transaction and fails it in the next;
  a duplicate message may claim it in between and is then failed under its feet
  (`apps/processing/services.py:247`). `AttemptsAreExclusive` and
  `EndedTasksStayEnded` hold all the same.
- A process lost after its claim leaves the task `running`: the redelivered
  message finds nothing claimable and the corpus waits until an operator acts
  (`apps/processing/services.py:135`). The same holds for exports
  (`apps/exports/services.py:441`), whose sweeps pass running jobs over.
- `process_task` called directly (`process_corpus`, `repair_corpus_indexes`) sets a
  task back to pending after an `OSError` (`apps/processing/services.py:113`) and leaves the retry
  to the Celery wrapper (`apps/processing/tasks.py:17`). If the task's message was
  skipped meanwhile, the task stays pending and its corpus and account stay blocked
  until an operator acts.
- The release of an attempt whose task another copy has failed meanwhile still sets
  the corpus to waiting (`apps/processing/services.py:262`): its owner can neither
  use nor retry it.
- A result whose report Django cannot read, for good, is rejected on every delivery
  and never acknowledged (`apps/audits/services.py:128`): the audit stays running.
- The roll-back of `SubmitBatch` may leave a document of a refused batch, which a
  restart then runs.
- Between the removal of the old directory and the rename of the new one a search
  finds nothing, although `docs/FORMAL_CORPUS_IMPORT.md:32` and the notice at
  `apps/processing/index_health.py:300` call the replacement atomic.
  `AtomicPublish` therefore lets a version be hidden for a while; after a lost
  writer it may stay hidden, as the task stays `running`.
- A retry of the same task first clears that task's backup directory
  (`apps/processing/artifacts.py:606-607`). After a broken-off roll-back this
  backup is the only copy of the former version (`broken`).
- `publish_compact_artifacts` takes no lock (`storage_compaction.py:149-158`): a
  publication between its check and its renames makes it put the pilot of the old
  index into the new directory (`raced`).
- A concordance export job drops the random sample of the search, a parallel one
  file name, confidence, mode and context (`apps/exports/services.py:292`), so its
  rows are not those of the screen, against `docs/USER_GUIDE.md:19` and
  `scripts/build_contract_test_report.py:421`; the streamed parallel export keeps
  them.
- A concordance export opens the index anew for every page and may combine two
  publications (`apps/exports/services.py:400`).
- Key FILE sorts names as NOCASE folds them in SQL, which is ASCII only, and as
  `casefold` folds them in memory, so letters with accents come in another order; by
  frequency, SQL counts names as they stand and memory folded, so names that differ
  in case only are counted apart or together (`apps/search/query.py:288`, `305-312`,
  `337-345`, `369-370`).
- The filter of stored n-grams folds the query by `casefold` and the n-gram by
  SQLite's `lower`, ASCII only (`apps/statistics/frequency_analysis.py:484`). N-grams
  are displayed as their words stand, so a letter outside ASCII in upper case is not
  found; the model folds both alike.
- Key C sorts a phrase by its first word in SQL and by all words in memory; a
  random sample without sort keys stays in random order in the simple search and
  is sorted in the advanced one.
- `_source_snippets` is keyed by the position of the first token: of two hits of
  different length at one token, one gets the text of the other.
- The file view does not split a Chinese query as the concordance does, so the
  word from which it was opened may not be highlighted.
- The total of the stored word list ignores the tag that is asked for.

## 8. What is not modelled

- *Accounts, quota, upload, saved searches, login protection*: planned
  (section 2). Known limits there: `save_search` reads the user's quota under the
  lock of the corpus (`apps/audit/services_saved_search.py:80`), so two saves on
  two corpora may both pass; upload renames files into place before its
  transaction commits (`apps/corpora/services.py:308`), so a crash leaves them
  behind.
- *Malformed stream entries and trimming by `MAXLEN`*: planned. One malformed
  entry makes `parseMessageList` refuse the whole batch it came in
  (`redis_streams.go:336`).
- *Within the tools*: measures with logarithms or roots (they are floating point),
  the layout of the word cloud, highlights inferred for the other language,
  fall-backs for indexes of an older schema, limits on the length of patterns.
- *Importers, intake, audit algorithm*: sequential; where another module depends
  on them they are a nondeterministic outcome.
- *HTTP, gRPC, templates, frontend, admin forms, feedback, health, API,
  configuration, deployment, load tests*: translation, rendering or settings;
  they add no state machine. The requests they carry are actions of the models.
- *Paths, permissions, query contents, audit reports*: data the properties do
  not tell apart.
- *Celery, Redis, PostgreSQL, the file system*: modelled as the code uses them:
  late acknowledgement with redelivery of a lost worker's message, at-least-once
  stream groups with pending lists, row locks held to the end of a transaction,
  atomic rename.
