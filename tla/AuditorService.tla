--------------------------- MODULE AuditorService ---------------------------
(***************************************************************************)
(* The Go audit service of backend/go/corpus-auditor/internal/service.     *)
(*                                                                         *)
(* Submitted jobs live in a map guarded by service.mu, in one JSON file    *)
(* each, and, while queued, in a bounded channel read by the workers.      *)
(* Terminal results are published by a goroutine spawned when the job ends *)
(* and by the 5 s ticker of main.go; a publication holds no lock while it  *)
(* calls Redis.  Every critical section under service.mu is one action.    *)
(*                                                                         *)
(* A write of a job file may fail (MaxFaults) and the process may crash    *)
(* (MaxCrashes) or be stopped; the files survive both.                     *)
(***************************************************************************)
EXTENDS Integers, Sequences, FiniteSets

CONSTANTS
    Jobs,               \* job ids
    Inputs,             \* what a request's fingerprint tells apart
    NoInput,            \* the request of a job that does not exist
    Workers,            \* config.WorkerCount goroutines
    NoJob,              \* the job of an idle worker
    QueueCapacity,      \* cap(service.queue)
    ResultMaxAttempts,  \* config.ResultMaxAttempts
    MaxFaults,          \* bound: failed file operations
    MaxCrashes          \* bound: crashes and stops of the process

ASSUME QueueCapacityAssumption == QueueCapacity \in Nat \ {0}
ASSUME ResultMaxAttemptsAssumption == ResultMaxAttempts \in Nat \ {0}
ASSUME JobsAssumption == IsFiniteSet(Jobs)
ASSUME NullsAssumption == NoJob \notin Jobs /\ NoInput \notin Inputs

VARIABLES
    process,   \* "up", "stopping" (Close), "down", or "failed_start" (New returned an error)
    mem,       \* mem[j]: service.jobs[j]
    disk,      \* disk[j]: the job's JSON document
    queue,     \* service.queue
    worker,    \* worker[w]: where goroutine w is, and its job
    pub,       \* pub[<<j, k>>]: a publishResult call for j, from a spawned goroutine or the ticker
    sent,      \* sent[j]: states XADDed to the result stream for j (history)
    faults,    \* failed file operations so far (bound)
    crashes    \* crashes and stops so far (bound)

vars == <<process, mem, disk, queue, worker, pub, sent, faults, crashes>>

Terminal == {"succeeded", "failed", "cancelled"}
States == {"none", "queued", "running"} \cup Terminal
Callers == {"spawned", "ticker"}
PubStages == {"idle", "ready", "calling", "ok", "error"}

\* types.go Job, reduced to what the service's control depends on; `due` says
\* that Result.NextAt is zero or has passed.
Job == [state : States, input : Inputs \cup {NoInput},
        delivered : BOOLEAN, attempts : Nat, due : BOOLEAN]

Absent == [state |-> "none", input |-> NoInput,
           delivered |-> FALSE, attempts |-> 0, due |-> TRUE]

NewJob(i) == [Absent EXCEPT !.state = "queued", !.input = i]

IdleWorker == [at |-> "idle", job |-> NoJob]

Init ==
    /\ process = "up"
    /\ mem = [j \in Jobs |-> Absent]
    /\ disk = [j \in Jobs |-> Absent]
    /\ queue = <<>>
    /\ worker = [w \in Workers |-> IdleWorker]
    /\ pub = [c \in Jobs \X Callers |-> "idle"]
    /\ sent = [j \in Jobs |-> {}]
    /\ faults = 0
    /\ crashes = 0

\* A file operation fails only while the fault budget lasts.
MayFail(n) == faults + n <= MaxFaults
Running == process \in {"up", "stopping"}

-----------------------------------------------------------------------------
(* Submit, SubmitBatch, Cancel.  A call that is refused (conflict, full,   *)
(* stopping, unknown job) or idempotent changes nothing and is no action.  *)

Submit(j, i) ==
    /\ process = "up"
    /\ mem[j].state = "none"
    /\ Len(queue) < QueueCapacity
    /\ mem' = [mem EXCEPT ![j] = NewJob(i)]
    /\ disk' = [disk EXCEPT ![j] = NewJob(i)]
    /\ queue' = Append(queue, j)
    /\ UNCHANGED <<process, worker, pub, sent, faults, crashes>>

\* A batch is a function from job ids to inputs.
Batches == UNION {[js -> Inputs] : js \in SUBSET Jobs \ {{}}}

\* Mutant: jobs that exist already are not skipped.
AllIn(b) == DOMAIN b

NewIn(b) == {j \in DOMAIN b : mem[j].state = "none"}

BatchFits(b) ==
    /\ process = "up"
    /\ \A j \in DOMAIN b \ NewIn(b) : mem[j].input = b[j]
    /\ QueueCapacity - Len(queue) >= Cardinality(NewIn(b))
    /\ NewIn(b) # {}

\* The documents of the jobs in js as SubmitBatch writes them.
Written(b, js) == [j \in Jobs |-> IF j \in js THEN NewJob(b[j]) ELSE disk[j]]

SubmitBatch(b) ==
    /\ BatchFits(b)
    /\ mem' = [j \in Jobs |-> IF j \in NewIn(b) THEN NewJob(b[j]) ELSE mem[j]]
    /\ disk' = Written(b, NewIn(b))
    /\ \E order \in [1..Cardinality(NewIn(b)) -> NewIn(b)] :
        /\ \A m, n \in DOMAIN order : order[m] = order[n] => m = n
        /\ queue' = queue \o order
    /\ UNCHANGED <<process, worker, pub, sent, faults, crashes>>

\* A Save fails: the jobs saved before are removed again, and a removal that
\* fails too is ignored, so its document stays.
SubmitBatchRollsBack(b) ==
    /\ BatchFits(b)
    /\ \E left \in SUBSET NewIn(b) :
        /\ left # NewIn(b)
        /\ MayFail(1 + Cardinality(left))
        /\ disk' = Written(b, left)
        /\ faults' = faults + 1 + Cardinality(left)
    /\ UNCHANGED <<process, mem, queue, worker, pub, sent, crashes>>

\* Save fails: memory says cancelled, the document and the running audit do
\* not know, no publication is spawned.
Cancel(j) ==
    /\ Running
    /\ mem[j].state \in {"queued", "running"}
    /\ mem' = [mem EXCEPT ![j].state = "cancelled"]
    /\ \/ /\ disk' = [disk EXCEPT ![j] = mem'[j]]
          /\ pub' = [pub EXCEPT ![<<j, "spawned">>] = "ready"]
          /\ UNCHANGED faults
       \/ /\ MayFail(1)
          /\ faults' = faults + 1
          /\ UNCHANGED <<disk, pub>>
    /\ UNCHANGED <<process, queue, worker, sent, crashes>>

-----------------------------------------------------------------------------
(* worker and execute *)

\* The receive in worker; `select` may take it although closed is ready too.
Dequeue(w) ==
    /\ Running
    /\ worker[w].at = "idle"
    /\ queue # <<>>
    /\ worker' = [worker EXCEPT ![w] = [at |-> "popped", job |-> Head(queue)]]
    /\ queue' = Tail(queue)
    /\ UNCHANGED <<process, mem, disk, pub, sent, faults, crashes>>

\* First critical section of execute: the job is no longer to be run.
DropJob(w) ==
    LET j == worker[w].job IN
    /\ Running
    /\ worker[w].at = "popped"
    /\ mem[j].state # "queued" \/ process = "stopping"
    /\ worker' = [worker EXCEPT ![w] = IdleWorker]
    /\ UNCHANGED <<process, mem, disk, queue, pub, sent, faults, crashes>>

StartJob(w) ==
    LET j == worker[w].job IN
    /\ process = "up"
    /\ worker[w].at = "popped"
    /\ mem[j].state = "queued"
    /\ mem' = [mem EXCEPT ![j].state = "running"]
    /\ disk' = [disk EXCEPT ![j] = mem'[j]]
    /\ worker' = [worker EXCEPT ![w].at = "auditing"]
    /\ UNCHANGED <<process, queue, pub, sent, faults, crashes>>

\* The document with the running (or final) state cannot be written: the job
\* fails with state_write_failed, and that state is saved if it can be.
FailsToSave(w) ==
    LET j == worker[w].job IN
    /\ mem' = [mem EXCEPT ![j].state = "failed"]
    /\ \/ MayFail(1) /\ faults' = faults + 1 /\ disk' = [disk EXCEPT ![j] = mem'[j]]
       \/ MayFail(2) /\ faults' = faults + 2 /\ UNCHANGED disk

\* Mutant: the worker loses its job before it has returned.
EndsTwice(w) ==
    /\ worker' = [worker EXCEPT ![w].job = NoJob]
    /\ pub' = [pub EXCEPT ![<<worker[w].job, "spawned">>] = "ready"]

EndsPublishing(w) ==
    /\ worker' = [worker EXCEPT ![w] = IdleWorker]
    /\ pub' = [pub EXCEPT ![<<worker[w].job, "spawned">>] = "ready"]

StartJobFails(w) ==
    /\ process = "up"
    /\ worker[w].at = "popped"
    /\ mem[worker[w].job].state = "queued"
    /\ FailsToSave(w)
    /\ EndsPublishing(w)
    /\ UNCHANGED <<process, queue, sent, crashes>>

\* Mutant: a cancellation that came during the audit is overwritten.
FinishAnyway(w) ==
    LET j == worker[w].job IN
    /\ process = "up"
    /\ worker[w].at = "auditing"
    /\ \E verdict \in {"succeeded", "failed"} :
          mem' = [mem EXCEPT ![j].state = verdict]
    /\ disk' = [disk EXCEPT ![j] = mem'[j]]
    /\ EndsPublishing(w)
    /\ UNCHANGED <<process, queue, sent, faults, crashes>>

\* Mutant: the result is published before it is saved.
FinishUnsaved(w) ==
    LET j == worker[w].job IN
    /\ process = "up"
    /\ worker[w].at = "auditing"
    /\ mem[j].state # "cancelled"
    /\ \E verdict \in {"succeeded", "failed"} :
          mem' = [mem EXCEPT ![j].state = verdict]
    /\ EndsPublishing(w)
    /\ UNCHANGED <<process, disk, queue, sent, faults, crashes>>

\* Last critical section of execute, job not cancelled and service not stopping.
Finish(w) ==
    LET j == worker[w].job IN
    /\ process = "up"
    /\ worker[w].at = "auditing"
    /\ mem[j].state # "cancelled"
    /\ \/ /\ \E verdict \in {"succeeded", "failed"} :
                mem' = [mem EXCEPT ![j].state = verdict]
          /\ disk' = [disk EXCEPT ![j] = mem'[j]]
          /\ UNCHANGED faults
       \/ FailsToSave(w)
    /\ EndsPublishing(w)
    /\ UNCHANGED <<process, queue, sent, crashes>>

FinishCancelled(w) ==
    /\ Running
    /\ worker[w].at = "auditing"
    /\ mem[worker[w].job].state = "cancelled"
    /\ worker' = [worker EXCEPT ![w] = IdleWorker]
    /\ UNCHANGED <<process, mem, disk, queue, pub, sent, faults, crashes>>

\* Close cancelled the audit: the job goes back to queued for the next start.
FinishStopping(w) ==
    LET j == worker[w].job IN
    /\ process = "stopping"
    /\ worker[w].at = "auditing"
    /\ mem[j].state = "running"
    /\ mem' = [mem EXCEPT ![j].state = "queued"]
    /\ \/ disk' = [disk EXCEPT ![j] = mem'[j]] /\ UNCHANGED faults
       \/ MayFail(1) /\ faults' = faults + 1 /\ UNCHANGED disk
    /\ worker' = [worker EXCEPT ![w] = IdleWorker]
    /\ UNCHANGED <<process, queue, pub, sent, crashes>>

-----------------------------------------------------------------------------
(* publishResult, markResult, RetryPendingResults *)

\* Mutant: a result is published once only.
PublishableOnce(j) ==
    mem[j].state \in Terminal /\ ~mem[j].delivered /\ mem[j].attempts = 0 /\ mem[j].due

Publishable(j) ==
    /\ mem[j].state \in Terminal
    /\ ~mem[j].delivered
    /\ mem[j].attempts < ResultMaxAttempts
    /\ mem[j].due

\* The spawned goroutine reaches the lock.
BeginSpawned(j) ==
    /\ Running
    /\ pub[<<j, "spawned">>] = "ready"
    /\ pub' = [pub EXCEPT ![<<j, "spawned">>] = IF Publishable(j) THEN "calling" ELSE "idle"]
    /\ UNCHANGED <<process, mem, disk, queue, worker, sent, faults, crashes>>

\* RetryPendingResults walks its ids one by one, and publishResult checks each again.
BeginRetry(j) ==
    /\ process = "up"
    /\ \A k \in Jobs : pub[<<k, "ticker">>] = "idle"
    /\ Publishable(j)
    /\ pub' = [pub EXCEPT ![<<j, "ticker">>] = "calling"]
    /\ UNCHANGED <<process, mem, disk, queue, worker, sent, faults, crashes>>

\* XADD: the reply may be lost although the entry was added.
CallPublisher(c) ==
    /\ Running
    /\ pub[c] = "calling"
    /\ \E added, reply \in BOOLEAN :
        /\ reply => added
        /\ pub' = [pub EXCEPT ![c] = IF reply THEN "ok" ELSE "error"]
        /\ sent' = [sent EXCEPT ![c[1]] = IF added THEN @ \cup {mem[c[1]].state} ELSE @]
    /\ UNCHANGED <<process, mem, disk, queue, worker, faults, crashes>>

\* Mutant: the error of Publish is dropped.
MarkDelivered(c) ==
    LET j == c[1] IN
    /\ Running
    /\ pub[c] \in {"ok", "error"}
    /\ pub' = [pub EXCEPT ![c] = "idle"]
    /\ mem' = [mem EXCEPT ![j].attempts = @ + 1, ![j].delivered = TRUE, ![j].due = TRUE]
    /\ disk' = [disk EXCEPT ![j] = mem'[j]]
    /\ UNCHANGED <<process, queue, worker, sent, faults, crashes>>

\* A job's record after one more attempt to publish its result.
Marked(r, ok) ==
    [state |-> r.state, input |-> r.input, delivered |-> ok,
     attempts |-> r.attempts + 1,
     due |-> ok \/ r.attempts + 1 >= ResultMaxAttempts]

\* markResult; the result of Save is ignored.
MarkResult(c) ==
    LET j == c[1] IN
    /\ Running
    /\ pub[c] \in {"ok", "error"}
    /\ pub' = [pub EXCEPT ![c] = "idle"]
    /\ \/ mem[j].delivered /\ UNCHANGED <<mem, disk, faults>>
       \/ /\ ~mem[j].delivered
          /\ mem' = [mem EXCEPT ![j] = Marked(mem[j], pub[c] = "ok")]
          /\ \/ disk' = [disk EXCEPT ![j] = mem'[j]] /\ UNCHANGED faults
             \/ MayFail(1) /\ faults' = faults + 1 /\ UNCHANGED disk
    /\ UNCHANGED <<process, queue, worker, sent, crashes>>

\* The clock reaches Result.NextAt.
BackoffElapses(j) ==
    /\ ~mem[j].due \/ ~disk[j].due
    /\ mem' = [mem EXCEPT ![j].due = TRUE]
    /\ disk' = [disk EXCEPT ![j].due = TRUE]
    /\ UNCHANGED <<process, queue, worker, pub, sent, faults, crashes>>

-----------------------------------------------------------------------------
(* Close, crash and restart *)

\* Memory, channel and goroutines are gone; the documents d survive.
LosesMemory(d) ==
    /\ crashes < MaxCrashes
    /\ crashes' = crashes + 1
    /\ process' = "down"
    /\ mem' = [j \in Jobs |-> Absent]
    /\ disk' = d
    /\ queue' = <<>>
    /\ worker' = [w \in Workers |-> IdleWorker]
    /\ pub' = [c \in Jobs \X Callers |-> "idle"]
    /\ UNCHANGED <<sent, faults>>

Crash == Running /\ LosesMemory(disk)

\* The process dies between two of a batch's files.
CrashInBatch(b) ==
    /\ BatchFits(b)
    /\ \E js \in SUBSET NewIn(b) : LosesMemory(Written(b, js))

\* Close sets stopping and cancels the running audits; the process exits once
\* every worker has returned, whatever the publishing goroutines are doing.
BeginClose ==
    /\ process = "up"
    /\ crashes < MaxCrashes
    /\ process' = "stopping"
    /\ UNCHANGED <<mem, disk, queue, worker, pub, sent, faults, crashes>>

Exit ==
    /\ process = "stopping"
    /\ \A w \in Workers : worker[w].at = "idle"
    /\ LosesMemory(disk)
   

Unfinished == {j \in Jobs : disk[j].state \in {"queued", "running"}}

\* restore's view of a document
Restored(j) == IF disk[j].state = "running" THEN [disk[j] EXCEPT !.state = "queued"]
                                            ELSE disk[j]

\* New: the unfinished jobs fit into the channel.
Restart ==
    /\ process \in {"down", "failed_start"}
    /\ Cardinality(Unfinished) <= QueueCapacity
    /\ process' = "up"
    /\ mem' = [j \in Jobs |-> Restored(j)]
    /\ disk' = [j \in Jobs |-> Restored(j)]
    /\ \E order \in [1..Cardinality(Unfinished) -> Unfinished] :
        /\ \A m, n \in DOMAIN order : order[m] = order[n] => m = n
        /\ queue' = order
    /\ UNCHANGED <<worker, pub, sent, faults, crashes>>

\* The non-blocking send finds the channel full, or a document cannot be
\* rewritten: New returns the error and the process exits; the documents
\* visited so far stay rewritten.
RestartFails ==
    /\ process \in {"down", "failed_start"}
    /\ \/ Cardinality(Unfinished) > QueueCapacity /\ UNCHANGED faults
       \/ /\ \E j \in Jobs : disk[j].state = "running"
          /\ MayFail(1)
          /\ faults' = faults + 1
    /\ \E visited \in SUBSET Unfinished :
        disk' = [j \in Jobs |-> IF j \in visited THEN Restored(j) ELSE disk[j]]
    /\ process' = "failed_start"
    /\ UNCHANGED <<mem, queue, worker, pub, sent, crashes>>

Next ==
    \/ \E j \in Jobs, i \in Inputs : Submit(j, i)
    \/ \E b \in Batches : SubmitBatch(b) \/ SubmitBatchRollsBack(b) \/ CrashInBatch(b)
    \/ \E j \in Jobs : Cancel(j) \/ BeginSpawned(j) \/ BeginRetry(j) \/ BackoffElapses(j)
    \/ \E w \in Workers :
        \/ Dequeue(w) \/ DropJob(w) \/ StartJob(w) \/ StartJobFails(w)
        \/ Finish(w) \/ FinishCancelled(w) \/ FinishStopping(w)
    \/ \E c \in Jobs \X Callers : CallPublisher(c) \/ MarkResult(c)
    \/ Crash \/ BeginClose \/ Exit \/ Restart \/ RestartFails

Spec == Init /\ [][Next]_vars

\* Goroutines run, audits end (AuditTimeout), the ticker ticks, and the
\* container is started again after an exit.
Fairness ==
    /\ \A w \in Workers :
        /\ WF_vars(Dequeue(w))
        /\ WF_vars(DropJob(w) \/ StartJob(w) \/ StartJobFails(w))
        /\ WF_vars(Finish(w) \/ FinishCancelled(w) \/ FinishStopping(w))
    /\ \A j \in Jobs :
        /\ WF_vars(BeginSpawned(j))
        /\ WF_vars(BeginRetry(j))
        /\ WF_vars(BackoffElapses(j))
    /\ \A c \in Jobs \X Callers : WF_vars(CallPublisher(c)) /\ WF_vars(MarkResult(c))
    /\ WF_vars(Exit) /\ WF_vars(Restart)

FairSpec == Spec /\ Fairness

-----------------------------------------------------------------------------
(* Properties *)

TypeOK ==
    /\ process \in {"up", "stopping", "down", "failed_start"}
    /\ mem \in [Jobs -> Job]
    /\ disk \in [Jobs -> Job]
    /\ queue \in Seq(Jobs)
    /\ worker \in [Workers -> [at : {"idle", "popped", "auditing"}, job : Jobs \cup {NoJob}]]
    /\ \A w \in Workers : worker[w].at # "idle" => worker[w].job \in Jobs
    /\ pub \in [Jobs \X Callers -> PubStages]
    /\ sent \in [Jobs -> SUBSET States]
    /\ faults \in Nat
    /\ crashes \in Nat

\* A queued job is on its way to a worker, a running one is at one.
NoJobForgotten ==
    process = "up" =>
        \A j \in Jobs :
            /\ mem[j].state = "queued" =>
                 \/ \E n \in DOMAIN queue : queue[n] = j
                 \/ \E w \in Workers : worker[w] = [at |-> "popped", job |-> j]
            /\ mem[j].state = "running" =>
                 \E w \in Workers : worker[w] = [at |-> "auditing", job |-> j]

\* No job is queued twice, at two workers, or queued while it is at one.
ExecutedOnce ==
    /\ \A m, n \in DOMAIN queue : queue[m] = queue[n] => m = n
    /\ \A n \in DOMAIN queue, w \in Workers : worker[w].job # queue[n]
    /\ \A v, w \in Workers : worker[v].job = worker[w].job => v = w \/ worker[v] = IdleWorker

\* An accepted job is in exactly one place: nothing is lost between map and
\* channel, and two audits never write the same report files at once.
EveryJobHasOnePlace == NoJobForgotten /\ ExecutedOnce

\* A job that reads as delivered was added to the result stream, in memory
\* and in the document a restart will trust.
DeliveredWasSent ==
    \A j \in Jobs : mem[j].delivered \/ disk[j].delivered => sent[j] # {}

\* A document that records a verdict records it for ever: no interleaving of
\* cancel, worker, publishers and restarts overwrites or removes it.
VerdictIsDurable ==
    [][\A j \in Jobs : disk[j].state \in Terminal => disk'[j].state = disk[j].state]_vars

\* Without file faults everything published for a job is the verdict in its
\* document, across crashes: consumers never see two different results.
OneVerdict ==
    faults = 0 => \A j \in Jobs : sent[j] \subseteq {disk[j].state}

\* corpus-auditor/README.md:29: "On restart, in-flight jobs return to
\* `queued`".  The running jobs no longer occupy the channel, so up to
\* WorkerCount more than its capacity may have to fit into it.
RestartSucceeds == process # "failed_start"

\* Every accepted job ends, and its result reaches the stream unless its
\* attempts are used up.
EveryJobIsReported ==
    \A j \in Jobs :
        disk[j].state = "queued" ~>
            sent[j] # {} \/ mem[j].attempts >= ResultMaxAttempts

=============================================================================
