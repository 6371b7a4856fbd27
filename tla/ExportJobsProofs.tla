-------------------------- MODULE ExportJobsProofs --------------------------
(***************************************************************************)
(* What ExportJobs guarantees for every number of jobs, accounts, message  *)
(* copies, processes, sweeps, errors and losses: a job is built by one     *)
(* process at a time, an account has one unfinished job, and what is shown *)
(* as downloadable has its file.                                           *)
(***************************************************************************)
EXTENDS ExportJobs, TLAPS

USE NoJobAssumption

\* Moving a busy process to another stage keeps its message and the others.
LEMMA GoesOnly ==
    ASSUME TypeOK, NEW w \in Workers, worker[w].at \in Stages, NEW stage \in Stages, Goes(w, stage)
    PROVE  /\ worker' \in [Workers -> [at : Stages, msg : Messages] \cup {Idle}]
           /\ worker'[w].at = stage
           /\ worker'[w].msg = worker[w].msg
           /\ \A v \in Workers : v # w => worker'[v] = worker[v]
  <1>1. worker[w] \in [at : Stages, msg : Messages]
    BY DEF TypeOK, Idle, Stages, Working
  <1>2. [worker[w] EXCEPT !.at = stage] \in [at : Stages, msg : Messages]
    BY <1>1
  <1> QED
    BY <1>1, <1>2 DEF Goes, TypeOK

\* A process at a stage has a message of a job.
LEMMA BusyType ==
    ASSUME TypeOK, NEW w \in Workers, worker[w] # Idle
    PROVE  /\ worker[w].at \in Stages
           /\ worker[w].msg \in Messages
           /\ JobOf(w) \in Jobs
  <1>1. worker[w] \in [at : Stages, msg : Messages]
    BY DEF TypeOK
  <1> QED
    BY <1>1 DEF Messages, JobOf

\* ... and no process is at a stage that is none.
LEMMA StagesAreBusy ==
    ASSUME NEW w \in Workers, worker[w].at \in Stages
    PROVE  worker[w] # Idle
  BY DEF Idle, Stages, Working

-----------------------------------------------------------------------------
(* Type correctness *)

\* Steps of users, of time and of the outbox.
LEMMA TypeUserStep ==
    ASSUME TypeOK, NEW j \in Jobs,
           \/ CreateExportJob(j) \/ ExpiryPasses(j) \/ RefuseExpiredDownload(j)
           \/ AcquireDownload(j) \/ DeleteCorpusOf(j) \/ DeleteExportFiles(j)
           \/ OutboxSends(j)
    PROVE  TypeOK'
  <1> USE DEF rowVars, bounds, TypeOK, Active, Ended, Deleted
  <1>1. CASE CreateExportJob(j)
    BY <1>1 DEF CreateExportJob
  <1>2. CASE ExpiryPasses(j)
    BY <1>2 DEF ExpiryPasses
  <1>3. CASE RefuseExpiredDownload(j)
    BY <1>3 DEF RefuseExpiredDownload
  <1>4. CASE AcquireDownload(j)
    <2>1. downloads[j] + 1 \in 0..MaxDownloads
      BY <1>4, BoundsAssumption DEF AcquireDownload
    <2> QED
      BY <1>4, <2>1 DEF AcquireDownload
  <1>5. CASE DeleteCorpusOf(j)
    BY <1>5 DEF DeleteCorpusOf
  <1>6. CASE DeleteExportFiles(j)
    BY <1>6 DEF DeleteExportFiles
  <1>7. CASE OutboxSends(j)
    <2>1. sent[j] + 1 \in 1..MaxCopies
      BY <1>7, BoundsAssumption DEF OutboxSends
    <2>2. [job |-> j, copy |-> sent[j] + 1, retries |-> 0] \in Messages
      BY <2>1, BoundsAssumption DEF Messages
    <2>3. sent' \in [Jobs -> 0..MaxCopies]
      BY <1>7, <2>1 DEF OutboxSends
    <2> QED
      BY <1>7, <2>2, <2>3 DEF OutboxSends
  <1> QED
    BY <1>1, <1>2, <1>3, <1>4, <1>5, <1>6, <1>7

\* Steps of the sweeps.
LEMMA TypeSweepStep ==
    ASSUME TypeOK, NEW s \in Sweepers, SweepStep(s) \/ SweeperLost(s)
    PROVE  TypeOK'
  <1> USE DEF rowVars, bounds
  <1>1. NoSweep \in [listed : SUBSET [job : Jobs, path : BOOLEAN], removing : Jobs \cup {NoJob}]
    BY DEF NoSweep
  <1>2. CASE ListDueJobs(s)
    <2> DEFINE found == {j \in Jobs : Expirable(j)}
               listing == {[job |-> j, path |-> j \in path] : j \in found}
    <2>1. \A j \in found : (j \in path) \in BOOLEAN
      OBVIOUS
    <2>2. \A j \in found : [job |-> j, path |-> j \in path] \in [job : Jobs, path : BOOLEAN]
      BY <2>1
    <2>3. listing \subseteq [job : Jobs, path : BOOLEAN]
      BY <2>2
    <2>4. [sweep[s] EXCEPT !.listed = listing] \in
              [listed : SUBSET [job : Jobs, path : BOOLEAN], removing : Jobs \cup {NoJob}]
      BY <2>3 DEF TypeOK
    <2> HIDE DEF listing
    <2>5. sweep' = [sweep EXCEPT ![s].listed = listing]
      BY <1>2 DEF ListDueJobs, listing
    <2> QED
      BY <1>2, <2>4, <2>5 DEF ListDueJobs, TypeOK
  <1>3. CASE ExpireJob(s)
    <2>1. PICK i \in sweep[s].listed :
              /\ job' = [job EXCEPT ![i.job] = "expired"]
              /\ path' = path \ {i.job}
              /\ sweep' = [sweep EXCEPT ![s] = [listed |-> @.listed \ {i},
                                                removing |-> IF i.path THEN i.job ELSE NoJob]]
              /\ UNCHANGED <<due, downloads, file, sent, messages, worker, bounds>>
      BY <1>3 DEF ExpireJob
    <2>2. i.job \in Jobs
      BY DEF TypeOK
    <2>3. [listed |-> sweep[s].listed \ {i}, removing |-> IF i.path THEN i.job ELSE NoJob] \in
              [listed : SUBSET [job : Jobs, path : BOOLEAN], removing : Jobs \cup {NoJob}]
      BY <2>2 DEF TypeOK
    <2> QED
      BY <2>1, <2>2, <2>3 DEF TypeOK, Ended
  <1>4. CASE SweepRaises(s) \/ SweeperLost(s)
    BY <1>1, <1>4 DEF SweepRaises, SweeperLost, TypeOK
  <1>5. CASE RemoveExpiredFile(s)
    <2>1. [sweep[s] EXCEPT !.removing = NoJob] \in
              [listed : SUBSET [job : Jobs, path : BOOLEAN], removing : Jobs \cup {NoJob}]
      BY DEF TypeOK
    <2> QED
      BY <1>5, <2>1 DEF RemoveExpiredFile, TypeOK
  <1> QED
    BY <1>2, <1>3, <1>4, <1>5 DEF SweepStep

\* Steps of the processes.
LEMMA TypeWorkerStep ==
    ASSUME TypeOK, NEW w \in Workers, WorkerStep(w) \/ WorkerLost(w)
    PROVE  TypeOK'
  <1> USE DEF rowVars, bounds
  <1>1. ASSUME NEW m \in messages, ReadForRunning(w, m) PROVE TypeOK'
    <2>1. [at |-> "claiming", msg |-> m] \in [at : Stages, msg : Messages]
      BY <1>1 DEF TypeOK, Stages
    <2> QED
      BY <1>1, <2>1 DEF ReadForRunning, TypeOK
  <1>2. ASSUME NEW m \in messages, SkipJob(w, m) PROVE TypeOK'
    BY <1>2 DEF SkipJob, TypeOK
  <1>3. CASE MarkRunning(w) \/ MarkSuccess(w) \/ MarkFailed(w) \/ MarkPendingForRetry(w)
    <2>1. worker[w].at \in Stages /\ JobOf(w) \in Jobs
      BY <1>3, StagesAreBusy, BusyType
         DEF MarkRunning, MarkSuccess, MarkFailed, MarkPendingForRetry, Stages, Working
    <2>2. worker' \in [Workers -> [at : Stages, msg : Messages] \cup {Idle}]
      BY <1>3, <2>1, GoesOnly
         DEF MarkRunning, MarkSuccess, MarkFailed, MarkPendingForRetry, Stages, Working
    <2> QED
      BY <1>3, <2>1, <2>2
         DEF MarkRunning, MarkSuccess, MarkFailed, MarkPendingForRetry, Fails, Released,
             TypeOK, Active, Ended
  <1>4. CASE ReplaceFile(w) \/ WritingRaises(w) \/ MarkRetryExhausted(w)
    <2>1. worker[w].at \in Stages /\ JobOf(w) \in Jobs
      BY <1>4, StagesAreBusy, BusyType
         DEF ReplaceFile, WritingRaises, MarkRetryExhausted, Stages, Working
    <2>2. worker' \in [Workers -> [at : Stages, msg : Messages] \cup {Idle}]
      BY <1>4, <2>1, GoesOnly DEF ReplaceFile, WritingRaises, MarkRetryExhausted, Stages, Working
    <2> QED
      BY <1>4, <2>1, <2>2
         DEF ReplaceFile, WritingRaises, MarkRetryExhausted, Fails, TypeOK, Active, Ended
  <1>5. CASE Retry(w)
    <2>1. worker[w].at \in Stages
      BY <1>5 DEF Retry, Stages
    <2>2. worker[w].msg \in Messages
      BY <2>1, StagesAreBusy, BusyType
    <2>3. [worker[w].msg EXCEPT !.retries = @ + 1] \in Messages
      BY <1>5, <2>2, BoundsAssumption DEF Retry, Messages
    <2>4. worker' \in [Workers -> [at : Stages, msg : Messages] \cup {Idle}]
      BY <1>5, <2>1, GoesOnly DEF Retry, Stages
    <2> QED
      BY <1>5, <2>3, <2>4 DEF Retry, TypeOK
  <1>6. CASE Acknowledge(w)
    BY <1>6 DEF Acknowledge, TypeOK
  <1>7. CASE WorkerLost(w)
    BY <1>7, BusyType DEF WorkerLost, TypeOK
  <1> QED
    BY <1>1, <1>2, <1>3, <1>4, <1>5, <1>6, <1>7 DEF WorkerStep

LEMMA TypeInit == Init => TypeOK
  BY BoundsAssumption DEF Init, TypeOK, NoSweep

LEMMA TypeStep == TypeOK /\ [Next]_vars => TypeOK'
  <1>1. ASSUME TypeOK, Next PROVE TypeOK'
    BY <1>1, TypeUserStep, TypeSweepStep, TypeWorkerStep DEF Next
  <1>2. ASSUME TypeOK, UNCHANGED vars PROVE TypeOK'
    BY <1>2 DEF TypeOK, vars, rowVars, bounds
  <1> QED
    BY <1>1, <1>2

\* Every variable keeps its type: rows their statuses, files and due jobs are
\* jobs, counters stay below their bounds.
THEOREM TypeCorrect == Spec => []TypeOK
  BY TypeInit, TypeStep, PTL DEF Spec

-----------------------------------------------------------------------------
(* Exclusive attempts, one unfinished job per account *)

\* A process that has read the row for its claim, or builds the file.
Holds(w) == worker[w].at \in Working \cup {"claiming"}

HoldersAreExclusive == \A v, w \in Workers : Holds(v) /\ Holds(w) /\ JobOf(v) = JobOf(w) => v = w

\* The row lock keeps a job pending until its claim commits.
ClaimedIsPending == \A w \in Workers : worker[w].at = "claiming" => job[JobOf(w)] = "pending"

\* A job that is built can neither be claimed nor be downloaded: whatever
\* expires, fails or deletes it, nothing makes it wait again but its builder.
Built == {"running", "failed", "expired"} \cup Deleted

WorkedOnIsClaimed == \A w \in Workers : worker[w].at \in Working => job[JobOf(w)] \in Built

ClaimInv == HoldersAreExclusive /\ ClaimedIsPending /\ WorkedOnIsClaimed /\ OneActiveJob

\* Steps of users: they write rows that are not locked, and create a job only
\* for an account without an unfinished one.
LEMMA ClaimUserStep ==
    ASSUME TypeOK, ClaimInv, NEW j \in Jobs,
           \/ CreateExportJob(j) \/ ExpiryPasses(j) \/ RefuseExpiredDownload(j)
           \/ AcquireDownload(j) \/ DeleteCorpusOf(j) \/ DeleteExportFiles(j)
           \/ OutboxSends(j)
    PROVE  ClaimInv'
  <1> USE DEF rowVars, bounds, ClaimInv
  <1>1. worker' = worker
    BY DEF CreateExportJob, ExpiryPasses, RefuseExpiredDownload, AcquireDownload, DeleteCorpusOf,
           DeleteExportFiles, OutboxSends
  <1>2. HoldersAreExclusive'
    BY <1>1 DEF HoldersAreExclusive, Holds, JobOf
  <1>3. \A w \in Workers : Holds(w) => JobOf(w) \in Jobs
    BY StagesAreBusy, BusyType DEF Holds, Stages
  <1>4. CASE CreateExportJob(j)
    <2> DEFINE expired == {k \in Jobs : Requester[k] = Requester[j] /\ Expirable(k)}
    <2>1. \/ job' = job
          \/ \A k \in Jobs : job'[k] = IF k \in expired THEN "expired" ELSE job[k]
          \/ /\ ~Busy(Requester[j], expired)
             /\ \A k \in Jobs : job'[k] = IF k = j THEN "pending"
                                         ELSE IF k \in expired THEN "expired" ELSE job[k]
      BY <1>4 DEF CreateExportJob, TypeOK
    <2>2. expired \subseteq Jobs /\ job[j] = "absent" /\ \A k \in expired : ~Locked(k) /\ job[k] \in {"pending", "success", "failed"}
      BY <1>4 DEF CreateExportJob, Expirable
    <2> HIDE DEF expired
    <2>3. ClaimedIsPending'
      BY <1>1, <1>3, <2>1, <2>2 DEF ClaimedIsPending, Holds, JobOf, Locked
    <2>4. WorkedOnIsClaimed'
      BY <1>1, <1>3, <2>1, <2>2 DEF WorkedOnIsClaimed, Built, Deleted, Holds, JobOf
    <2>5. OneActiveJob'
      <3> SUFFICES ASSUME NEW a \in Jobs, NEW b \in Jobs, a # b,
                          job'[a] \in Active, job'[b] \in Active, Requester[a] = Requester[b]
                   PROVE  FALSE
        BY DEF OneActiveJob
      <3>1. \A k \in Jobs \ {j} : job'[k] \in Active => job'[k] = job[k]
        BY <2>1 DEF Active
      <3>2. CASE job'[a] = job[a] /\ job'[b] = job[b]
        BY <3>2 DEF OneActiveJob
      <3>3. CASE job'[a] # job[a] \/ job'[b] # job[b]
        <4>1. ~Busy(Requester[j], expired) /\ \A k \in expired \ {j} : job'[k] = "expired"
          BY <2>1, <2>2, <3>1, <3>3 DEF Active
        <4>2. \A k \in Jobs \ {j} : job'[k] \in Active => Requester[k] # Requester[j]
          BY <3>1, <4>1 DEF Busy, Active
        <4> QED
          BY <3>1, <3>3, <4>2
      <3> QED
        BY <3>2, <3>3
    <2> QED
      BY <1>2, <2>3, <2>4, <2>5
  <1>5. CASE DeleteCorpusOf(j)
    <2>1. ~Locked(j) /\ \A k \in Jobs : job'[k] = IF k = j THEN "deleting" ELSE job[k]
      BY <1>5 DEF DeleteCorpusOf, TypeOK
    <2> QED
      BY <1>1, <1>2, <1>3, <2>1
         DEF ClaimedIsPending, WorkedOnIsClaimed, OneActiveJob, Active, Built, Deleted, Holds, JobOf, Locked
  <1>6. CASE DeleteExportFiles(j)
    <2>1. job[j] = "deleting" /\ \A k \in Jobs : job'[k] = IF k = j THEN "gone" ELSE job[k]
      BY <1>6 DEF DeleteExportFiles, TypeOK
    <2> QED
      BY <1>1, <1>2, <1>3, <2>1
         DEF ClaimedIsPending, WorkedOnIsClaimed, OneActiveJob, Active, Built, Deleted, Holds, JobOf
  <1>7. CASE ExpiryPasses(j) \/ RefuseExpiredDownload(j) \/ AcquireDownload(j) \/ OutboxSends(j)
    <2>1. job' = job
      BY <1>7 DEF ExpiryPasses, RefuseExpiredDownload, AcquireDownload, OutboxSends
    <2> QED
      BY <1>1, <1>2, <2>1 DEF ClaimedIsPending, WorkedOnIsClaimed, OneActiveJob, JobOf
  <1> QED
    BY <1>4, <1>5, <1>6, <1>7

\* Steps of sweeps: a stale instance writes "expired" over an unlocked row.
LEMMA ClaimSweepStep ==
    ASSUME TypeOK, ClaimInv, NEW s \in Sweepers, SweepStep(s) \/ SweeperLost(s)
    PROVE  ClaimInv'
  <1> USE DEF rowVars, bounds, ClaimInv
  <1>1. worker' = worker
    BY DEF SweepStep, ListDueJobs, ExpireJob, SweepRaises, RemoveExpiredFile, SweeperLost
  <1>2. HoldersAreExclusive'
    BY <1>1 DEF HoldersAreExclusive, Holds, JobOf
  <1>3. \A w \in Workers : Holds(w) => JobOf(w) \in Jobs
    BY StagesAreBusy, BusyType DEF Holds, Stages
  <1>4. CASE ExpireJob(s)
    <2>1. PICK j \in Jobs : ~Locked(j) /\ job' = [job EXCEPT ![j] = "expired"]
      <3>1. PICK i \in sweep[s].listed : ~Locked(i.job) /\ job' = [job EXCEPT ![i.job] = "expired"]
        BY <1>4 DEF ExpireJob
      <3>2. i.job \in Jobs
        BY DEF TypeOK
      <3> QED
        BY <3>1, <3>2
    <2>2. \A k \in Jobs : job'[k] = IF k = j THEN "expired" ELSE job[k]
      BY <2>1 DEF TypeOK
    <2> QED
      BY <1>1, <1>2, <1>3, <2>1, <2>2
         DEF ClaimedIsPending, WorkedOnIsClaimed, OneActiveJob, Active, Built, Holds, JobOf, Locked
  <1>5. CASE ListDueJobs(s) \/ SweepRaises(s) \/ RemoveExpiredFile(s) \/ SweeperLost(s)
    <2>1. job' = job
      BY <1>5 DEF ListDueJobs, SweepRaises, RemoveExpiredFile, SweeperLost
    <2> QED
      BY <1>1, <1>2, <2>1 DEF ClaimedIsPending, WorkedOnIsClaimed, OneActiveJob, JobOf
  <1> QED
    BY <1>4, <1>5 DEF SweepStep

\* Steps of processes that go on, or give up, with what they hold.
LEMMA ClaimHolderStep ==
    ASSUME TypeOK, ClaimInv, NEW w \in Workers,
           \/ MarkRunning(w) \/ ReplaceFile(w) \/ WritingRaises(w)
           \/ MarkSuccess(w) \/ MarkFailed(w) \/ MarkPendingForRetry(w)
    PROVE  ClaimInv'
  <1> USE DEF rowVars, bounds, ClaimInv
  <1> DEFINE j == JobOf(w)
  <1>1. Holds(w) /\ j \in Jobs
    BY StagesAreBusy, BusyType
       DEF Holds, Stages, Working, MarkRunning, ReplaceFile, WritingRaises, MarkSuccess, MarkFailed,
           MarkPendingForRetry
  <1>2. \A v \in Workers : v # w => worker'[v] = worker[v] /\ JobOf(v)' = JobOf(v) /\ Holds(v)' = Holds(v)
    BY GoesOnly
       DEF Holds, JobOf, Stages, Working, MarkRunning, ReplaceFile, WritingRaises, MarkSuccess, MarkFailed,
           MarkPendingForRetry
  <1>3. JobOf(w)' = j
    BY GoesOnly
       DEF Holds, JobOf, Stages, Working, MarkRunning, ReplaceFile, WritingRaises, MarkSuccess, MarkFailed,
           MarkPendingForRetry
  <1>4. HoldersAreExclusive'
    BY <1>1, <1>2, <1>3 DEF HoldersAreExclusive
  <1>5. \A v \in Workers : v # w /\ Holds(v) => JobOf(v) # j /\ JobOf(v) \in Jobs
    BY <1>1, StagesAreBusy, BusyType DEF HoldersAreExclusive, Holds, Stages
  <1>6. \A k \in Jobs : k # j => job'[k] = job[k]
    BY DEF MarkRunning, ReplaceFile, WritingRaises, MarkSuccess, MarkFailed, MarkPendingForRetry,
           Fails, Released, TypeOK
  <1>7. \A v \in Workers : v # w /\ Holds(v) => job'[JobOf(v)] = job[JobOf(v)]
    BY <1>5, <1>6
  <1>8. worker'[w].at # "claiming" /\ (worker'[w].at \in Working => job'[j] \in Built)
    <2>1. CASE MarkRunning(w)
      BY <2>1, <1>1, GoesOnly DEF MarkRunning, TypeOK, Built, Stages, Working
    <2>2. CASE ReplaceFile(w) \/ WritingRaises(w)
      BY <2>2, <1>1, GoesOnly DEF ReplaceFile, WritingRaises, WorkedOnIsClaimed, Stages, Working
    <2>3. CASE MarkSuccess(w)
      BY <2>3, <1>1, GoesOnly DEF MarkSuccess, Built, Stages, Working
    <2>4. CASE MarkFailed(w) \/ MarkPendingForRetry(w)
      BY <2>4, <1>1, GoesOnly DEF MarkFailed, MarkPendingForRetry, Stages, Working
    <2> QED
      BY <2>1, <2>2, <2>3, <2>4
  <1>9. ClaimedIsPending' /\ WorkedOnIsClaimed'
    <2>1. ASSUME NEW v \in Workers, v # w
          PROVE  /\ worker'[v].at = "claiming" => job'[JobOf(v)'] = "pending"
                 /\ worker'[v].at \in Working => job'[JobOf(v)'] \in Built
      BY <2>1, <1>2, <1>7 DEF ClaimedIsPending, WorkedOnIsClaimed, Holds
    <2> QED
      BY <2>1, <1>3, <1>8 DEF ClaimedIsPending, WorkedOnIsClaimed
  <1>10. job'[j] \in Active => job[j] \in Active
    BY <1>1
       DEF MarkRunning, ReplaceFile, WritingRaises, MarkSuccess, MarkFailed, MarkPendingForRetry,
           Fails, Released, TypeOK, Active, Deleted, ClaimedIsPending
  <1>11. OneActiveJob'
    BY <1>6, <1>10 DEF OneActiveJob
  <1> QED
    BY <1>4, <1>9, <1>11

\* The other steps of processes.
LEMMA ClaimWorkerStep ==
    ASSUME TypeOK, ClaimInv, NEW w \in Workers, WorkerStep(w) \/ WorkerLost(w)
    PROVE  ClaimInv'
  <1> USE DEF rowVars, bounds, ClaimInv
  <1>1. \A v \in Workers : Holds(v) => JobOf(v) \in Jobs
    BY StagesAreBusy, BusyType DEF Holds, Stages
  <1>2. ASSUME NEW m \in messages, ReadForRunning(w, m) PROVE ClaimInv'
    <2>1. \A v \in Workers : worker'[v] = IF v = w THEN [at |-> "claiming", msg |-> m] ELSE worker[v]
      BY <1>2 DEF ReadForRunning, TypeOK
    <2>2. job' = job /\ job[m.job] = "pending" /\ ~Locked(m.job)
      BY <1>2 DEF ReadForRunning, Claimable
    <2>3. \A v \in Workers : Holds(v) => JobOf(v) # m.job
      BY <2>2 DEF Holds, Locked, WorkedOnIsClaimed, Built, Deleted
    <2>4. HoldersAreExclusive'
      BY <2>1, <2>3 DEF HoldersAreExclusive, Holds, JobOf
    <2> QED
      BY <2>1, <2>2, <2>4 DEF ClaimedIsPending, WorkedOnIsClaimed, OneActiveJob, JobOf, Working
  <1>3. ASSUME NEW m \in messages, SkipJob(w, m) PROVE ClaimInv'
    BY <1>3 DEF SkipJob, HoldersAreExclusive, ClaimedIsPending, WorkedOnIsClaimed, OneActiveJob, Holds, JobOf
  <1>4. CASE Retry(w) \/ Acknowledge(w) \/ WorkerLost(w) \/ MarkRetryExhausted(w)
    <2>1. \A v \in Workers : v # w => worker'[v] = worker[v]
      BY <1>4, GoesOnly DEF Retry, Acknowledge, WorkerLost, MarkRetryExhausted, TypeOK, Stages
    <2>2. worker'[w].at \in {"ended", "idle"}
      BY <1>4, GoesOnly DEF Retry, Acknowledge, WorkerLost, MarkRetryExhausted, TypeOK, Stages, Idle
    <2>3. HoldersAreExclusive'
      BY <2>1, <2>2 DEF HoldersAreExclusive, Holds, JobOf, Working
    <2>4. CASE job' = job
      BY <2>1, <2>2, <2>3, <2>4 DEF ClaimedIsPending, WorkedOnIsClaimed, OneActiveJob, JobOf, Working
    <2>5. CASE MarkRetryExhausted(w) /\ job' # job
      <3>1. ~Locked(JobOf(w)) /\ \A k \in Jobs : job'[k] = job[k] \/ (job'[k] = "failed" /\ k = JobOf(w))
        BY <2>5 DEF MarkRetryExhausted, Fails, Active, Deleted, TypeOK
      <3> QED
        BY <1>1, <2>1, <2>2, <2>3, <3>1
           DEF ClaimedIsPending, WorkedOnIsClaimed, OneActiveJob, Active, Built, Locked, JobOf, Holds, Working
    <2> QED
      BY <1>4, <2>4, <2>5 DEF Retry, Acknowledge, WorkerLost
  <1> QED
    BY <1>2, <1>3, <1>4, ClaimHolderStep DEF WorkerStep

LEMMA ClaimInit == Init => ClaimInv
  BY DEF Init, Idle, ClaimInv, HoldersAreExclusive, ClaimedIsPending, WorkedOnIsClaimed, OneActiveJob,
         Holds, Working, Active

LEMMA ClaimStep == TypeOK /\ ClaimInv /\ [Next]_vars => ClaimInv'
  <1>1. ASSUME TypeOK, ClaimInv, Next PROVE ClaimInv'
    BY <1>1, ClaimUserStep, ClaimSweepStep, ClaimWorkerStep DEF Next
  <1>2. ASSUME ClaimInv, UNCHANGED vars PROVE ClaimInv'
    BY <1>2 DEF vars, rowVars, ClaimInv, HoldersAreExclusive, ClaimedIsPending, WorkedOnIsClaimed,
                OneActiveJob, Holds, JobOf
  <1> QED
    BY <1>1, <1>2

\* A job is built by one process at a time, and an account has one unfinished
\* job, whatever is sent, expires, fails, is lost or is deleted.
THEOREM ExportsAreExclusive == Spec => []JobsAreExclusive
  <1>1. ClaimInv => JobsAreExclusive
    BY DEF ClaimInv, HoldersAreExclusive, Holds, JobsAreExclusive, OneWorkerPerJob
  <1> QED
    BY <1>1, TypeInit, TypeStep, ClaimInit, ClaimStep, PTL DEF Spec

-----------------------------------------------------------------------------
(* Files of downloadable jobs *)

\* What a sweep has listed, and what it is about to remove, is due.
SweptIsDue ==
    \A s \in Sweepers : sweep[s].removing \in due \cup {NoJob} /\ \A i \in sweep[s].listed : i.job \in due

\* The file a builder has renamed into place is there when it marks its
\* success, unless the job is due or its corpus and directory are gone.
WrittenHasFile ==
    \A w \in Workers :
        worker[w].at = "written" => JobOf(w) \in file \cup due \/ job[JobOf(w)] = "gone"

FileInv == SweptIsDue /\ WrittenHasFile /\ DownloadableHasFile

\* Only jobs that are due, gone, or being failed by their builder lose a file.
LEMMA FilesLost ==
    ASSUME TypeOK, ClaimInv, FileInv, Next, NEW j \in file, j \notin file'
    PROVE  \/ j \in due
           \/ job'[j] = "gone"
           \/ \E w \in Workers : MarkFailed(w) /\ JobOf(w) = j
  <1> USE DEF rowVars, bounds
  <1>1. ASSUME NEW k \in Jobs, CreateExportJob(k) PROVE j \in due
    BY <1>1 DEF CreateExportJob, Expirable
  <1>2. ASSUME NEW k \in Jobs, RefuseExpiredDownload(k) PROVE j \in due
    BY <1>2 DEF RefuseExpiredDownload
  <1>3. ASSUME NEW k \in Jobs, DeleteExportFiles(k) PROVE job'[j] = "gone"
    BY <1>3 DEF DeleteExportFiles, TypeOK
  <1>4. ASSUME NEW s \in Sweepers, RemoveExpiredFile(s) PROVE j \in due
    BY <1>4 DEF RemoveExpiredFile, FileInv, SweptIsDue
  <1>5. ASSUME NEW w \in Workers, MarkFailed(w) PROVE JobOf(w) = j
    BY <1>5 DEF MarkFailed
  <1>6. ASSUME NEW w \in Workers, ReplaceFile(w) PROVE FALSE
    BY <1>6 DEF ReplaceFile
  <1>7. ASSUME NEW k \in Jobs, ExpiryPasses(k) \/ AcquireDownload(k) \/ DeleteCorpusOf(k) \/ OutboxSends(k)
        PROVE FALSE
    BY <1>7 DEF ExpiryPasses, AcquireDownload, DeleteCorpusOf, OutboxSends
  <1>8. ASSUME NEW s \in Sweepers, ListDueJobs(s) \/ ExpireJob(s) \/ SweepRaises(s) \/ SweeperLost(s)
        PROVE FALSE
    BY <1>8 DEF ListDueJobs, ExpireJob, SweepRaises, SweeperLost
  <1>9. ASSUME NEW w \in Workers,
               \/ \E m \in messages : ReadForRunning(w, m) \/ SkipJob(w, m)
               \/ MarkRunning(w) \/ WritingRaises(w) \/ MarkSuccess(w) \/ MarkPendingForRetry(w)
               \/ Retry(w) \/ MarkRetryExhausted(w) \/ Acknowledge(w) \/ WorkerLost(w)
        PROVE FALSE
    BY <1>9 DEF ReadForRunning, SkipJob, MarkRunning, WritingRaises, MarkSuccess, MarkPendingForRetry,
                Retry, MarkRetryExhausted, Acknowledge, WorkerLost
  <1> QED
    BY <1>1, <1>2, <1>3, <1>4, <1>5, <1>6, <1>7, <1>8, <1>9 DEF Next, SweepStep, WorkerStep

\* A job succeeds, or loses its path, in few ways, and stays due for ever.
LEMMA RowsChange ==
    ASSUME TypeOK, ClaimInv, FileInv, Next
    PROVE  /\ due \subseteq due'
           /\ \A k \in Jobs : job[k] = "gone" => job'[k] = "gone"
           /\ \A k \in Jobs : job'[k] = "success" /\ job[k] # "success" =>
                  \E w \in Workers : worker[w].at = "written" /\ JobOf(w) = k /\ k \in path' /\ file' = file
           /\ \A k \in path : k \notin path' => k \in due \/ job'[k] # "success"
  <1> USE DEF rowVars, bounds
  <1>1. CASE \E j \in Jobs : CreateExportJob(j)
    <2> PICK j \in Jobs : CreateExportJob(j)
      BY <1>1
    <2> DEFINE expired == {k \in Jobs : Requester[k] = Requester[j] /\ Expirable(k)}
    <2>1. due' = due /\ path' \in {path, path \ expired}
      BY DEF CreateExportJob
    <2>2. \A k \in Jobs :
              job'[k] = job[k] \/ (k \in expired /\ job'[k] = "expired") \/ (job[k] = "absent" /\ job'[k] = "pending")
      BY DEF CreateExportJob, TypeOK
    <2>3. \A k \in expired : k \in due /\ job[k] # "gone"
      BY DEF Expirable
    <2> HIDE DEF expired
    <2> QED
      BY <2>1, <2>2, <2>3
  <1>2. CASE \E j \in Jobs : ExpiryPasses(j) \/ RefuseExpiredDownload(j) \/ AcquireDownload(j) \/ OutboxSends(j)
    BY <1>2 DEF ExpiryPasses, RefuseExpiredDownload, AcquireDownload, OutboxSends
  <1>3. CASE \E j \in Jobs : DeleteCorpusOf(j) \/ DeleteExportFiles(j)
    BY <1>3 DEF DeleteCorpusOf, DeleteExportFiles, Deleted, TypeOK
  <1>4. CASE \E s \in Sweepers : ExpireJob(s)
    <2> PICK s \in Sweepers : ExpireJob(s)
      BY <1>4
    <2>1. PICK i \in sweep[s].listed :
              /\ job[i.job] \notin Deleted
              /\ job' = [job EXCEPT ![i.job] = "expired"]
              /\ path' = path \ {i.job}
              /\ UNCHANGED <<due, file>>
      BY DEF ExpireJob
    <2>2. i.job \in Jobs
      BY DEF TypeOK
    <2> QED
      BY <2>1, <2>2 DEF Deleted, TypeOK
  <1>5. CASE \E s \in Sweepers : ListDueJobs(s) \/ SweepRaises(s) \/ RemoveExpiredFile(s) \/ SweeperLost(s)
    BY <1>5 DEF ListDueJobs, SweepRaises, RemoveExpiredFile, SweeperLost
  <1>6. ASSUME NEW w \in Workers, MarkSuccess(w)
        PROVE  /\ due' = due /\ file' = file /\ path \subseteq path'
               /\ \A k \in Jobs :
                      \/ job'[k] = job[k]
                      \/ job'[k] = "success" /\ k = JobOf(w) /\ k \in path' /\ job[k] # "gone" /\ worker[w].at = "written"
    BY <1>6 DEF MarkSuccess, Deleted, TypeOK
  <1>7. ASSUME NEW w \in Workers,
               MarkRunning(w) \/ MarkFailed(w) \/ MarkPendingForRetry(w) \/ MarkRetryExhausted(w)
        PROVE  /\ due' = due /\ path' = path
               /\ \A k \in Jobs : job'[k] = job[k] \/ (job'[k] \in {"running", "failed", "pending"} /\ job[k] # "gone")
    <2>1. MarkRunning(w) => job[JobOf(w)] = "pending"
      BY DEF MarkRunning, ClaimInv, ClaimedIsPending
    <2> QED
      BY <1>7, <2>1 DEF MarkRunning, MarkFailed, MarkPendingForRetry, MarkRetryExhausted, Fails, Released, Deleted,
                        Active, TypeOK
  <1>8. ASSUME NEW w \in Workers,
               \/ \E m \in messages : ReadForRunning(w, m) \/ SkipJob(w, m)
               \/ ReplaceFile(w) \/ WritingRaises(w) \/ Retry(w) \/ Acknowledge(w) \/ WorkerLost(w)
        PROVE  UNCHANGED <<due, path, job>>
    BY <1>8 DEF ReadForRunning, SkipJob, ReplaceFile, WritingRaises, Retry, Acknowledge, WorkerLost
  <1> QED
    BY <1>1, <1>2, <1>3, <1>4, <1>5, <1>6, <1>7, <1>8 DEF Next, SweepStep, WorkerStep

\* The sweeps list and remove what is due.
LEMMA SweptStaysDue ==
    ASSUME TypeOK, ClaimInv, FileInv, Next
    PROVE  SweptIsDue'
  <1> USE DEF rowVars, bounds
  <1>1. due \subseteq due'
    BY RowsChange
  <1>2. ASSUME NEW s \in Sweepers, ListDueJobs(s) PROVE SweptIsDue'
    <2>1. \A i \in {[job |-> j, path |-> j \in path] : j \in {j \in Jobs : Expirable(j)}} : i.job \in due
      BY DEF Expirable
    <2>2. sweep[s].removing = NoJob
      BY <1>2 DEF ListDueJobs, NoSweep
    <2> QED
      BY <1>1, <1>2, <2>1, <2>2 DEF ListDueJobs, FileInv, SweptIsDue, TypeOK
  <1>3. ASSUME NEW s \in Sweepers, ExpireJob(s) PROVE SweptIsDue'
    <2>1. PICK i \in sweep[s].listed :
              sweep' = [sweep EXCEPT ![s] = [listed |-> @.listed \ {i},
                                             removing |-> IF i.path THEN i.job ELSE NoJob]]
      BY <1>3 DEF ExpireJob
    <2> QED
      BY <1>1, <2>1 DEF FileInv, SweptIsDue, TypeOK
  <1>4. ASSUME NEW s \in Sweepers, SweepRaises(s) \/ RemoveExpiredFile(s) \/ SweeperLost(s) PROVE SweptIsDue'
    BY <1>1, <1>4 DEF SweepRaises, RemoveExpiredFile, SweeperLost, NoSweep, FileInv, SweptIsDue, TypeOK
  <1>5. CASE UNCHANGED sweep
    BY <1>1, <1>5 DEF FileInv, SweptIsDue
  <1>6. ASSUME NEW j \in Jobs,
               \/ CreateExportJob(j) \/ ExpiryPasses(j) \/ RefuseExpiredDownload(j)
               \/ AcquireDownload(j) \/ DeleteCorpusOf(j) \/ DeleteExportFiles(j) \/ OutboxSends(j)
        PROVE  UNCHANGED sweep
    BY <1>6 DEF CreateExportJob, ExpiryPasses, RefuseExpiredDownload, AcquireDownload, DeleteCorpusOf,
                DeleteExportFiles, OutboxSends
  <1>7. ASSUME NEW w \in Workers, WorkerStep(w) \/ WorkerLost(w)
        PROVE  UNCHANGED sweep
    BY <1>7 DEF WorkerStep, WorkerLost, ReadForRunning, SkipJob, MarkRunning, ReplaceFile, WritingRaises,
                MarkSuccess, MarkFailed, MarkPendingForRetry, Retry, MarkRetryExhausted, Acknowledge
  <1> QED
    BY <1>2, <1>3, <1>4, <1>5, <1>6, <1>7 DEF Next, SweepStep

\* A process comes to "written" only by renaming its file.
LEMMA WrittenByReplace ==
    ASSUME TypeOK, Next, NEW w \in Workers, worker'[w].at = "written"
    PROVE  \/ worker[w].at = "written" /\ JobOf(w)' = JobOf(w)
           \/ ReplaceFile(w) /\ JobOf(w)' = JobOf(w) /\ JobOf(w) \in file'
  <1>1. CASE worker'[w] = worker[w]
    BY <1>1 DEF JobOf
  <1>2. ASSUME NEW j \in Jobs,
               \/ CreateExportJob(j) \/ ExpiryPasses(j) \/ RefuseExpiredDownload(j)
               \/ AcquireDownload(j) \/ DeleteCorpusOf(j) \/ DeleteExportFiles(j) \/ OutboxSends(j)
        PROVE  worker' = worker
    BY <1>2 DEF CreateExportJob, ExpiryPasses, RefuseExpiredDownload, AcquireDownload, DeleteCorpusOf,
                DeleteExportFiles, OutboxSends
  <1>3. ASSUME NEW s \in Sweepers, SweepStep(s) \/ SweeperLost(s)
        PROVE  worker' = worker
    BY <1>3 DEF SweepStep, ListDueJobs, ExpireJob, SweepRaises, RemoveExpiredFile, SweeperLost
  <1>4. ASSUME NEW v \in Workers, v # w, WorkerStep(v) \/ WorkerLost(v)
        PROVE  worker'[w] = worker[w]
    BY <1>4 DEF WorkerStep, WorkerLost, ReadForRunning, SkipJob, MarkRunning, ReplaceFile, WritingRaises,
                MarkSuccess, MarkFailed, MarkPendingForRetry, Retry, MarkRetryExhausted, Acknowledge, Goes, TypeOK
  <1>5. CASE ReplaceFile(w)
    BY <1>5, GoesOnly DEF ReplaceFile, JobOf, Stages, Working
  <1>6. CASE (WorkerStep(w) /\ ~ReplaceFile(w)) \/ WorkerLost(w)
    <2>1. ASSUME NEW m \in messages, ReadForRunning(w, m) \/ SkipJob(w, m)
          PROVE  worker'[w].at # "written"
      BY <2>1 DEF ReadForRunning, SkipJob, Idle, TypeOK
    <2>2. CASE MarkRunning(w) \/ WritingRaises(w) \/ MarkSuccess(w) \/ MarkFailed(w) \/ MarkPendingForRetry(w)
      BY <2>2, GoesOnly DEF MarkRunning, WritingRaises, MarkSuccess, MarkFailed, MarkPendingForRetry, Stages, Working
    <2>3. CASE Retry(w) \/ MarkRetryExhausted(w)
      BY <2>3, GoesOnly DEF Retry, MarkRetryExhausted, Stages
    <2>4. CASE Acknowledge(w) \/ WorkerLost(w)
      BY <2>4 DEF Acknowledge, WorkerLost, Idle, TypeOK
    <2> QED
      BY <1>6, <2>1, <2>2, <2>3, <2>4 DEF WorkerStep
  <1> QED
    BY <1>1, <1>2, <1>3, <1>4, <1>5, <1>6 DEF Next

LEMMA FileInit == Init => FileInv
  BY DEF Init, Idle, NoSweep, FileInv, SweptIsDue, WrittenHasFile, DownloadableHasFile

LEMMA FileStep == TypeOK /\ ClaimInv /\ FileInv /\ [Next]_vars => FileInv'
  <1>1. ASSUME TypeOK, ClaimInv, FileInv, Next PROVE WrittenHasFile'
    <2> SUFFICES ASSUME NEW w \in Workers, worker'[w].at = "written"
                 PROVE  JobOf(w)' \in file' \cup due' \/ job'[JobOf(w)'] = "gone"
      BY DEF WrittenHasFile
    <2> DEFINE j == JobOf(w)
    <2>1. CASE ReplaceFile(w) /\ JobOf(w)' = j /\ j \in file'
      BY <2>1
    <2>2. CASE worker[w].at = "written" /\ JobOf(w)' = j
      <3>1. j \in Jobs
        BY <1>1, <2>2, StagesAreBusy, BusyType DEF Stages, Working
      <3>2. j \in file \cup due \/ job[j] = "gone"
        BY <1>1, <2>2 DEF FileInv, WrittenHasFile
      <3>3. ASSUME NEW v \in Workers, MarkFailed(v), JobOf(v) = j PROVE FALSE
        <4>1. Holds(v) /\ Holds(w) /\ v # w
          BY <2>2, <3>3 DEF Holds, Working, MarkFailed
        <4> QED
          BY <1>1, <3>3, <4>1 DEF ClaimInv, HoldersAreExclusive
      <3>4. due \subseteq due' /\ (job[j] = "gone" => job'[j] = "gone")
        BY <1>1, <3>1, RowsChange
      <3> QED
        BY <1>1, <2>2, <3>2, <3>3, <3>4, FilesLost
    <2> QED
      BY <1>1, <2>1, <2>2, WrittenByReplace
  <1>2. ASSUME TypeOK, ClaimInv, FileInv, Next PROVE DownloadableHasFile'
    <2> SUFFICES ASSUME NEW k \in Jobs, job'[k] = "success", k \notin due'
                 PROVE  k \in file' /\ k \in path'
      BY DEF DownloadableHasFile
    <2>1. due \subseteq due'
      BY <1>2, RowsChange
    <2>2. CASE job[k] = "success"
      <3>1. k \in file /\ k \in path
        BY <1>2, <2>1, <2>2 DEF FileInv, DownloadableHasFile
      <3>2. ASSUME NEW w \in Workers, MarkFailed(w), JobOf(w) = k PROVE FALSE
        BY <1>2, <2>2, <3>2 DEF MarkFailed, ClaimInv, WorkedOnIsClaimed, Working, Built, Deleted
      <3>3. k \in path'
        BY <1>2, <2>1, <3>1, RowsChange
      <3> QED
        BY <1>2, <2>1, <3>1, <3>2, <3>3, FilesLost
    <2>3. CASE job[k] # "success"
      <3>1. PICK w \in Workers : worker[w].at = "written" /\ JobOf(w) = k /\ k \in path' /\ file' = file
        BY <1>2, <2>3, RowsChange
      <3>2. k \in file \cup due \/ job[k] = "gone"
        BY <1>2, <3>1 DEF FileInv, WrittenHasFile
      <3> QED
        BY <1>2, <2>1, <3>1, <3>2, RowsChange
    <2> QED
      BY <2>2, <2>3
  <1>3. ASSUME FileInv, UNCHANGED vars PROVE FileInv'
    BY <1>3 DEF vars, rowVars, FileInv, SweptIsDue, WrittenHasFile, DownloadableHasFile, JobOf
  <1> QED
    BY <1>1, <1>2, <1>3, SweptStaysDue DEF FileInv

\* Until it expires, a job shown as downloadable has its file and its path:
\* neither a failing attempt nor a stale sweep nor a rolled back expiry takes
\* them away.
THEOREM DownloadsHaveFiles == Spec => []DownloadableHasFile
  <1>1. FileInv => DownloadableHasFile
    BY DEF FileInv
  <1> QED
    BY <1>1, TypeInit, TypeStep, ClaimInit, ClaimStep, FileInit, FileStep, PTL DEF Spec
=============================================================================
