------------------------ MODULE AuditorServiceProofs ------------------------
(* Theorems about AuditorService for any jobs, workers, channel and bounds. *)
EXTENDS AuditorService, FiniteSetTheorems, SequenceTheorems, TLAPS

USE QueueCapacityAssumption, ResultMaxAttemptsAssumption, NullsAssumption

-----------------------------------------------------------------------------
(* Facts about records, sequences and cardinalities *)

\* Cardinalities of sets of jobs are numbers.
LEMMA JobSetsAreCounted ==
    ASSUME NEW S \in SUBSET Jobs PROVE Cardinality(S) \in Nat
  BY JobsAssumption, FS_Subset, FS_CardinalityType

\* An order in which a set of jobs is sent is a sequence of jobs.
LEMMA OrdersAreSequences ==
    ASSUME NEW S \in SUBSET Jobs, NEW n \in Nat, NEW order \in [1..n -> S]
    PROVE  order \in Seq(Jobs)
<1>1. order \in [1..n -> Jobs]
  OBVIOUS
<1> QED
  BY <1>1

\* The documents Submit and SubmitBatch create are well formed.
LEMMA NewJobIsJob == \A i \in Inputs : NewJob(i) \in Job
  BY DEF NewJob, Job, States, Absent

\* A state change leaves a well-formed record with the other fields as they were.
LEMMA WithState ==
    ASSUME NEW r \in Job, NEW s \in States
    PROVE  /\ [r EXCEPT !.state = s] \in Job
           /\ [r EXCEPT !.state = s].state = s
           /\ [r EXCEPT !.state = s].delivered = r.delivered
  BY DEF Job

\* The clock changes nothing but `due`.
LEMMA WithDue ==
    ASSUME NEW r \in Job
    PROVE  /\ [r EXCEPT !.due = TRUE] \in Job
           /\ [r EXCEPT !.due = TRUE].state = r.state
           /\ [r EXCEPT !.due = TRUE].delivered = r.delivered
  BY DEF Job

\* markResult's record: the state stays, `delivered` is the outcome.
LEMMA MarkedJob ==
    ASSUME NEW r \in Job, NEW ok \in BOOLEAN
    PROVE  /\ Marked(r, ok) \in Job
           /\ Marked(r, ok).state = r.state
           /\ Marked(r, ok).delivered <=> ok
  BY DEF Marked, Job

\* restore turns running documents into queued ones and keeps the others.
LEMMA RestoredJob ==
    ASSUME disk \in [Jobs -> Job], NEW j \in Jobs
    PROVE  /\ Restored(j) \in Job
           /\ Restored(j).state = IF disk[j].state = "running" THEN "queued" ELSE disk[j].state
           /\ Restored(j).delivered = disk[j].delivered
<1>1. disk[j] \in Job /\ "queued" \in States
  BY DEF States
<1> QED
  BY <1>1, WithState DEF Restored

-----------------------------------------------------------------------------
(* Types *)

LEMMA TypeSubmit ==
    ASSUME TypeOK, NEW j \in Jobs, NEW i \in Inputs, Submit(j, i) PROVE TypeOK'
  BY NewJobIsJob DEF Submit, TypeOK

LEMMA TypeBatch ==
    ASSUME TypeOK, NEW b \in Batches,
           SubmitBatch(b) \/ SubmitBatchRollsBack(b) \/ CrashInBatch(b)
    PROVE  TypeOK'
<1>1. NewIn(b) \subseteq Jobs /\ \A j \in NewIn(b) : NewJob(b[j]) \in Job
  BY NewJobIsJob DEF Batches, NewIn
<1>2. \A js \in SUBSET NewIn(b) : Written(b, js) \in [Jobs -> Job] /\ Cardinality(js) \in Nat
  BY <1>1, JobSetsAreCounted DEF Written, TypeOK
<1>3. CASE SubmitBatch(b)
  <2>1. PICK order \in [1..Cardinality(NewIn(b)) -> NewIn(b)] : queue' = queue \o order
    BY <1>3 DEF SubmitBatch
  <2>2. order \in Seq(Jobs)
    BY <1>1, <1>2, OrdersAreSequences
  <2>3. queue' \in Seq(Jobs)
    BY <2>1, <2>2 DEF TypeOK
  <2>4. mem' \in [Jobs -> Job]
    BY <1>1, <1>3 DEF SubmitBatch, TypeOK
  <2>5. disk' \in [Jobs -> Job]
    BY <1>2, <1>3 DEF SubmitBatch
  <2> QED
    BY <1>1, <1>3, <2>3, <2>4, <2>5 DEF SubmitBatch, TypeOK
<1>4. CASE SubmitBatchRollsBack(b)
  BY <1>2, <1>4 DEF SubmitBatchRollsBack, TypeOK
<1>5. CASE CrashInBatch(b)
  <2>1. Absent \in Job
    BY DEF Absent, Job, States
  <2> QED
    BY <1>1, <1>2, <1>5, <2>1 DEF CrashInBatch, LosesMemory, TypeOK, IdleWorker, PubStages
<1> QED
  BY <1>3, <1>4, <1>5

\* A record update with a state keeps the table of jobs well typed.
LEMMA TypeOfStateChange ==
    ASSUME NEW f \in [Jobs -> Job], NEW j \in Jobs, NEW s \in States
    PROVE  [f EXCEPT ![j].state = s] \in [Jobs -> Job]
  BY WithState

LEMMA TypeJobSteps ==
    ASSUME TypeOK, NEW j \in Jobs,
           Cancel(j) \/ BeginSpawned(j) \/ BeginRetry(j) \/ BackoffElapses(j)
    PROVE  TypeOK'
<1>1. CASE Cancel(j)
  <2>1. mem' \in [Jobs -> Job]
    BY <1>1, TypeOfStateChange DEF Cancel, TypeOK, States, Terminal
  <2>2. disk' \in [Jobs -> Job]
    BY <1>1, <2>1 DEF Cancel, TypeOK
  <2>3. faults' \in Nat
    BY <1>1 DEF Cancel, TypeOK, MayFail
  <2>4. pub' \in [Jobs \X Callers -> PubStages]
    BY <1>1 DEF Cancel, TypeOK, PubStages, Callers
  <2> QED
    BY <1>1, <2>1, <2>2, <2>3, <2>4 DEF Cancel, TypeOK
<1>2. CASE BeginSpawned(j)
  BY <1>2 DEF BeginSpawned, TypeOK, PubStages, Callers
<1>3. CASE BeginRetry(j)
  BY <1>3 DEF BeginRetry, TypeOK, PubStages, Callers
<1>4. CASE BackoffElapses(j)
  <2>1. mem' \in [Jobs -> Job] /\ disk' \in [Jobs -> Job]
    BY <1>4, WithDue DEF BackoffElapses, TypeOK
  <2> QED
    BY <1>4, <2>1 DEF BackoffElapses, TypeOK
<1> QED
  BY <1>1, <1>2, <1>3, <1>4

LEMMA TypeFailsToSave ==
    ASSUME TypeOK, NEW w \in Workers, worker[w].job \in Jobs, FailsToSave(w)
    PROVE  mem' \in [Jobs -> Job] /\ disk' \in [Jobs -> Job] /\ faults' \in Nat
<1>1. mem' \in [Jobs -> Job]
  BY TypeOfStateChange DEF FailsToSave, TypeOK, States, Terminal
<1>2. disk' \in [Jobs -> Job]
  BY <1>1 DEF FailsToSave, TypeOK
<1>3. faults' \in Nat
  BY DEF FailsToSave, TypeOK, MayFail
<1> QED
  BY <1>1, <1>2, <1>3

LEMMA TypeWorkerSteps ==
    ASSUME TypeOK, NEW w \in Workers,
           \/ Dequeue(w) \/ DropJob(w) \/ StartJob(w) \/ StartJobFails(w)
           \/ Finish(w) \/ FinishCancelled(w) \/ FinishStopping(w)
    PROVE  TypeOK'
<1> DEFINE Effects ==
        /\ worker' \in [Workers -> [at : {"idle", "popped", "auditing"}, job : Jobs \cup {NoJob}]]
        /\ \A v \in Workers : worker'[v].at # "idle" => worker'[v].job \in Jobs
        /\ pub' \in [Jobs \X Callers -> PubStages]
<1>0. ASSUME worker[w].job \in Jobs, EndsPublishing(w) PROVE Effects
  BY <1>0 DEF EndsPublishing, TypeOK, IdleWorker, PubStages, Callers
<1>1. CASE Dequeue(w)
  BY <1>1 DEF Dequeue, TypeOK
<1>2. CASE DropJob(w)
  BY <1>2 DEF DropJob, TypeOK, IdleWorker
<1>3. CASE StartJob(w)
  <2>1. worker[w].job \in Jobs
    BY <1>3 DEF StartJob, TypeOK
  <2>2. mem' \in [Jobs -> Job]
    BY <1>3, <2>1, TypeOfStateChange DEF StartJob, TypeOK, States
  <2>3. disk' \in [Jobs -> Job]
    BY <1>3, <2>1, <2>2 DEF StartJob, TypeOK
  <2> QED
    BY <1>3, <2>1, <2>2, <2>3 DEF StartJob, TypeOK
<1>4. CASE StartJobFails(w)
  BY <1>0, <1>4, TypeFailsToSave DEF StartJobFails, TypeOK
<1>5. CASE Finish(w)
  <2>1. worker[w].job \in Jobs
    BY <1>5 DEF Finish, TypeOK
  <2>2. mem' \in [Jobs -> Job] /\ disk' \in [Jobs -> Job] /\ faults' \in Nat
    <3>1. CASE FailsToSave(w)
      BY <2>1, <3>1, TypeFailsToSave
    <3>2. ASSUME NEW verdict \in {"succeeded", "failed"},
                 mem' = [mem EXCEPT ![worker[w].job].state = verdict],
                 disk' = [disk EXCEPT ![worker[w].job] = mem'[worker[w].job]],
                 UNCHANGED faults
          PROVE  mem' \in [Jobs -> Job] /\ disk' \in [Jobs -> Job] /\ faults' \in Nat
      <4>1. mem' \in [Jobs -> Job]
        BY <2>1, <3>2, TypeOfStateChange DEF TypeOK, States, Terminal
      <4> QED
        BY <2>1, <3>2, <4>1 DEF TypeOK
    <3> QED
      BY <1>5, <3>1, <3>2 DEF Finish
  <2> QED
    BY <1>0, <1>5, <2>1, <2>2 DEF Finish, TypeOK
<1>6. CASE FinishCancelled(w)
  BY <1>6 DEF FinishCancelled, TypeOK, IdleWorker
<1>7. CASE FinishStopping(w)
  <2>1. worker[w].job \in Jobs
    BY <1>7 DEF FinishStopping, TypeOK
  <2>2. mem' \in [Jobs -> Job]
    BY <1>7, <2>1, TypeOfStateChange DEF FinishStopping, TypeOK, States
  <2>3. disk' \in [Jobs -> Job]
    BY <1>7, <2>1, <2>2 DEF FinishStopping, TypeOK
  <2> QED
    BY <1>7, <2>2, <2>3 DEF FinishStopping, TypeOK, IdleWorker
<1> QED
  BY <1>1, <1>2, <1>3, <1>4, <1>5, <1>6, <1>7

LEMMA TypePublisherSteps ==
    ASSUME TypeOK, NEW c \in Jobs \X Callers, CallPublisher(c) \/ MarkResult(c) PROVE TypeOK'
<1>1. CASE CallPublisher(c)
  <2>1. c[1] \in Jobs /\ mem[c[1]].state \in States
    BY DEF TypeOK, Job
  <2> QED
    BY <1>1, <2>1 DEF CallPublisher, TypeOK, PubStages
<1>2. CASE MarkResult(c)
  <2>0. c[1] \in Jobs /\ mem[c[1]] \in Job /\ (pub[c] = "ok") \in BOOLEAN
    BY DEF TypeOK
  <2>1. Marked(mem[c[1]], pub[c] = "ok") \in Job
    BY <2>0, MarkedJob
  <2>3. mem' \in [Jobs -> Job]
    BY <1>2, <2>1 DEF MarkResult, TypeOK
  <2>4. disk' \in [Jobs -> Job]
    BY <1>2, <2>3 DEF MarkResult, TypeOK
  <2> QED
    BY <1>2, <2>3, <2>4 DEF MarkResult, TypeOK, PubStages, MayFail
<1> QED
  BY <1>1, <1>2

LEMMA TypeProcessSteps ==
    ASSUME TypeOK, Crash \/ BeginClose \/ Exit \/ Restart \/ RestartFails PROVE TypeOK'
<1>0. Absent \in Job
  BY DEF Absent, Job, States
<1>1. CASE Crash \/ Exit
  <2>1. LosesMemory(disk)
    BY <1>1 DEF Crash, Exit
  <2> QED
    BY <1>0, <2>1 DEF LosesMemory, TypeOK, IdleWorker, PubStages
<1>2. CASE BeginClose
  BY <1>2 DEF BeginClose, TypeOK
<1>3. \A j \in Jobs : Restored(j) \in Job
  BY RestoredJob DEF TypeOK
<1>4. CASE Restart
  <2>1. Unfinished \in SUBSET Jobs /\ Cardinality(Unfinished) \in Nat
    BY JobSetsAreCounted DEF Unfinished
  <2>2. queue' \in Seq(Jobs)
    BY <1>4, <2>1, OrdersAreSequences DEF Restart
  <2> QED
    BY <1>3, <1>4, <2>2 DEF Restart, TypeOK
<1>5. CASE RestartFails
  BY <1>3, <1>5 DEF RestartFails, TypeOK, MayFail
<1> QED
  BY <1>1, <1>2, <1>4, <1>5

\* The types of the service's records, channel, goroutines and documents.
THEOREM TypeCorrect == Spec => []TypeOK
<1>1. Init => TypeOK
  BY DEF Init, TypeOK, Job, States, Absent, IdleWorker, PubStages
<1>2. ASSUME TypeOK, Next PROVE TypeOK'
  BY <1>2, TypeSubmit, TypeBatch, TypeJobSteps, TypeWorkerSteps, TypePublisherSteps,
     TypeProcessSteps DEF Next
<1>3. TypeOK /\ UNCHANGED vars => TypeOK'
  BY DEF TypeOK, vars
<1> QED
  BY <1>1, <1>2, <1>3, PTL DEF Spec

-----------------------------------------------------------------------------
(* Verdicts.  A worker overwrites a document after an audit during which   *)
(* it held no lock.  That is harmless because of four facts: memory agrees *)
(* with every recorded verdict; a job being audited is running or was      *)
(* cancelled; it is audited by one worker; and no worker outlives the      *)
(* process.                                                                *)
VerdictInMemory ==
    Running => \A j \in Jobs : disk[j].state \in Terminal => mem[j].state = disk[j].state

AuditedIsRunning ==
    \A w \in Workers :
        worker[w].at = "auditing" => mem[worker[w].job].state \in {"running", "cancelled"}

OneAuditor ==
    \A v, w \in Workers :
        worker[v].at = "auditing" /\ worker[w].at = "auditing" /\ worker[v].job = worker[w].job
            => v = w

DownIsIdle == ~Running => \A w \in Workers : worker[w] = IdleWorker

VerdictInv == VerdictInMemory /\ AuditedIsRunning /\ OneAuditor /\ DownIsIdle

\* What the durability of verdicts asks of one step.
VerdictsKept == \A j \in Jobs : disk[j].state \in Terminal => disk'[j].state = disk[j].state

\* A state change is a change of one job only.
LEMMA StateOfOneJob ==
    ASSUME NEW f \in [Jobs -> Job], NEW j \in Jobs, NEW s \in States
    PROVE  /\ [f EXCEPT ![j].state = s][j].state = s
           /\ [f EXCEPT ![j].state = s][j].delivered = f[j].delivered
           /\ \A i \in Jobs \ {j} : [f EXCEPT ![j].state = s][i] = f[i]
<1>1. f[j] \in Job
  OBVIOUS
<1> QED
  BY <1>1, WithState

LEMMA VerdictSubmit ==
    ASSUME TypeOK, VerdictInv, NEW j \in Jobs, NEW i \in Inputs, Submit(j, i)
    PROVE  VerdictInv' /\ VerdictsKept
<1>1. NewJob(i).state = "queued" /\ mem[j].state = "none" /\ Running
  BY DEF Submit, NewJob, Absent, Running
<1>2. disk[j].state \notin Terminal
  BY <1>1 DEF VerdictInv, VerdictInMemory, Terminal
<1>3. \A w \in Workers : worker[w].at = "auditing" => worker[w].job # j
  BY <1>1 DEF VerdictInv, AuditedIsRunning
<1> QED
  BY <1>1, <1>2, <1>3 DEF Submit, TypeOK, VerdictInv, VerdictInMemory, AuditedIsRunning,
     OneAuditor, DownIsIdle, Running, VerdictsKept, Terminal

LEMMA VerdictBatch ==
    ASSUME TypeOK, VerdictInv, NEW b \in Batches,
           SubmitBatch(b) \/ SubmitBatchRollsBack(b) \/ CrashInBatch(b)
    PROVE  VerdictInv' /\ VerdictsKept
<1>1. Running /\ \A j \in NewIn(b) : j \in Jobs /\ mem[j].state = "none" /\ NewJob(b[j]).state = "queued"
  <2>1. BatchFits(b)
    BY DEF SubmitBatch, SubmitBatchRollsBack, CrashInBatch
  <2>2. Running
    BY <2>1 DEF BatchFits, Running
  <2>3. \A j \in NewIn(b) : j \in Jobs /\ mem[j].state = "none"
    BY DEF NewIn, Batches
  <2>4. \A j \in NewIn(b) : NewJob(b[j]).state = "queued"
    BY DEF NewJob, Absent
  <2> QED
    BY <2>2, <2>3, <2>4
<1>2. \A j \in NewIn(b) : disk[j].state \notin Terminal
  BY <1>1 DEF VerdictInv, VerdictInMemory, Terminal
<1>3. ASSUME NEW js \in SUBSET NewIn(b), disk' = Written(b, js)
      PROVE  /\ VerdictsKept
             /\ \A j \in Jobs : disk'[j].state \in Terminal
                    => disk[j].state = disk'[j].state /\ j \notin NewIn(b)
  BY <1>1, <1>2, <1>3 DEF Written, VerdictsKept, Terminal
<1>4. CASE SubmitBatch(b)
  <2>1. \A w \in Workers : worker[w].at = "auditing" => worker[w].job \notin NewIn(b)
    BY <1>1 DEF VerdictInv, AuditedIsRunning
  <2>2. /\ mem' = [j \in Jobs |-> IF j \in NewIn(b) THEN NewJob(b[j]) ELSE mem[j]]
        /\ disk' = Written(b, NewIn(b))
        /\ UNCHANGED <<process, worker>>
    BY <1>4 DEF SubmitBatch
  <2>3. VerdictsKept /\ \A j \in Jobs : disk'[j].state \in Terminal
                           => disk[j].state = disk'[j].state /\ j \notin NewIn(b)
    BY <1>3, <2>2
  <2>4. VerdictInMemory'
    BY <1>1, <2>2, <2>3 DEF VerdictInv, VerdictInMemory, Running
  <2>5. AuditedIsRunning'
    BY <2>1, <2>2 DEF TypeOK, VerdictInv, AuditedIsRunning
  <2>6. OneAuditor' /\ DownIsIdle'
    BY <2>2 DEF VerdictInv, OneAuditor, DownIsIdle, Running
  <2> QED
    BY <2>3, <2>4, <2>5, <2>6 DEF VerdictInv
<1>5. CASE SubmitBatchRollsBack(b)
  BY <1>1, <1>3, <1>5 DEF SubmitBatchRollsBack, VerdictInv, VerdictInMemory,
     AuditedIsRunning, OneAuditor, DownIsIdle, Running
<1>6. CASE CrashInBatch(b)
  BY <1>3, <1>6 DEF CrashInBatch, LosesMemory, VerdictInv, VerdictInMemory,
     AuditedIsRunning, OneAuditor, DownIsIdle, Running, IdleWorker
<1> QED
  BY <1>4, <1>5, <1>6

LEMMA VerdictJobSteps ==
    ASSUME TypeOK, VerdictInv, NEW j \in Jobs,
           Cancel(j) \/ BeginSpawned(j) \/ BeginRetry(j) \/ BackoffElapses(j)
    PROVE  VerdictInv' /\ VerdictsKept
<1>1. CASE Cancel(j)
  <2>1. /\ mem'[j].state = "cancelled"
        /\ \A i \in Jobs \ {j} : mem'[i] = mem[i]
    BY <1>1, StateOfOneJob DEF Cancel, TypeOK, States, Terminal
  <2>2. disk[j].state \notin Terminal /\ Running
    BY <1>1 DEF Cancel, VerdictInv, VerdictInMemory, Terminal
  <2>3. \/ disk' = disk
        \/ disk' = [disk EXCEPT ![j] = mem'[j]]
    BY <1>1 DEF Cancel
  <2>4. \A i \in Jobs : disk'[i].state \in Terminal => mem'[i].state = disk'[i].state
    BY <2>1, <2>2, <2>3 DEF TypeOK, VerdictInv, VerdictInMemory
  <2>5. VerdictsKept
    BY <2>2, <2>3 DEF TypeOK, VerdictsKept
  <2>6. UNCHANGED <<process, worker>>
    BY <1>1 DEF Cancel
  <2> QED
    BY <2>1, <2>2, <2>4, <2>5, <2>6 DEF TypeOK, VerdictInv, VerdictInMemory,
       AuditedIsRunning, OneAuditor, DownIsIdle, Running
<1>2. CASE BeginSpawned(j) \/ BeginRetry(j)
  BY <1>2 DEF BeginSpawned, BeginRetry, VerdictInv, VerdictInMemory, AuditedIsRunning,
     OneAuditor, DownIsIdle, Running, VerdictsKept
<1>3. CASE BackoffElapses(j)
  <2>1. \A i \in Jobs : mem'[i].state = mem[i].state /\ disk'[i].state = disk[i].state
    BY <1>3, WithDue DEF BackoffElapses, TypeOK
  <2> QED
    BY <1>3, <2>1 DEF BackoffElapses, TypeOK, VerdictInv, VerdictInMemory, AuditedIsRunning,
       OneAuditor, DownIsIdle, Running, VerdictsKept
<1> QED
  BY <1>1, <1>2, <1>3

\* A worker's step that sets its own job's state, in memory and perhaps in the
\* document, while no verdict is recorded and no other worker audits the job.
LEMMA VerdictWorkerWrites ==
    ASSUME TypeOK, VerdictInv, Running, process' = process,
           NEW w \in Workers, worker[w].job \in Jobs,
           disk[worker[w].job].state \notin Terminal,
           \A v \in Workers : v # w =>
               /\ worker'[v] = worker[v]
               /\ worker[v].at = "auditing" => worker[v].job # worker[w].job,
           \A i \in Jobs \ {worker[w].job} : mem'[i] = mem[i],
           \/ worker'[w].at # "auditing"
           \/ worker'[w].job = worker[w].job /\ mem'[worker[w].job].state = "running",
           disk' = disk \/ disk' = [disk EXCEPT ![worker[w].job] = mem'[worker[w].job]]
    PROVE  VerdictInv' /\ VerdictsKept
<1> DEFINE j == worker[w].job
<1>1. \A i \in Jobs : i # j => disk'[i] = disk[i]
  BY DEF TypeOK
<1>2. disk'[j] = disk[j] \/ disk'[j] = mem'[j]
  BY DEF TypeOK
<1>3. VerdictsKept
  BY <1>1 DEF VerdictsKept
<1>4. VerdictInMemory'
  BY <1>1, <1>2 DEF VerdictInv, VerdictInMemory, Running
<1>5. AuditedIsRunning'
  <2> SUFFICES ASSUME NEW v \in Workers, worker'[v].at = "auditing"
               PROVE  mem'[worker'[v].job].state \in {"running", "cancelled"}
    BY DEF AuditedIsRunning
  <2>1. CASE v = w
    BY <2>1
  <2>2. CASE v # w
    <3>1. worker[v].at = "auditing" /\ worker[v].job \in Jobs \ {j}
      BY <2>2 DEF TypeOK
    <3> QED
      BY <2>2, <3>1 DEF VerdictInv, AuditedIsRunning
  <2> QED
    BY <2>1, <2>2
<1>6. OneAuditor'
  BY DEF VerdictInv, OneAuditor
<1>7. DownIsIdle'
  BY DEF DownIsIdle, Running
<1> QED
  BY <1>3, <1>4, <1>5, <1>6, <1>7 DEF VerdictInv

\* FailsToSave touches the worker's job only.
LEMMA FailsToSaveEffect ==
    ASSUME TypeOK, NEW w \in Workers, worker[w].job \in Jobs, FailsToSave(w)
    PROVE  /\ \A i \in Jobs \ {worker[w].job} : mem'[i] = mem[i]
           /\ disk' = disk \/ disk' = [disk EXCEPT ![worker[w].job] = mem'[worker[w].job]]
  BY StateOfOneJob DEF FailsToSave, TypeOK, States, Terminal

LEMMA VerdictWorkerSteps ==
    ASSUME TypeOK, VerdictInv, NEW w \in Workers,
           \/ Dequeue(w) \/ DropJob(w) \/ StartJob(w) \/ StartJobFails(w)
           \/ Finish(w) \/ FinishCancelled(w) \/ FinishStopping(w)
    PROVE  VerdictInv' /\ VerdictsKept
<1> DEFINE j == worker[w].job
<1>1. CASE Dequeue(w) \/ DropJob(w) \/ FinishCancelled(w)
  <2>1. UNCHANGED <<process, mem, disk>> /\ Running
    BY <1>1 DEF Dequeue, DropJob, FinishCancelled
  <2>2. \A v \in Workers : worker'[v].at = "auditing" => worker'[v] = worker[v]
    BY <1>1 DEF Dequeue, DropJob, FinishCancelled, TypeOK, IdleWorker
  <2> QED
    BY <2>1, <2>2 DEF VerdictInv, VerdictInMemory, AuditedIsRunning, OneAuditor, DownIsIdle,
       Running, VerdictsKept
<1>2. CASE StartJob(w) \/ StartJobFails(w)
  <2>1. /\ Running /\ process' = process /\ j \in Jobs /\ mem[j].state = "queued"
        /\ \A v \in Workers : v # w => worker'[v] = worker[v]
    BY <1>2 DEF StartJob, StartJobFails, EndsPublishing, Running, TypeOK
  <2>2. disk[j].state \notin Terminal
    BY <2>1 DEF VerdictInv, VerdictInMemory, Terminal
  <2>3. \A v \in Workers : worker[v].at = "auditing" => worker[v].job # j
    BY <2>1 DEF VerdictInv, AuditedIsRunning
  <2>4. CASE StartJob(w)
    <3>1. /\ mem'[j].state = "running" /\ \A i \in Jobs \ {j} : mem'[i] = mem[i]
          /\ disk' = [disk EXCEPT ![j] = mem'[j]]
          /\ worker'[w].job = j
      BY <2>1, <2>4, StateOfOneJob DEF StartJob, TypeOK, States
    <3> QED
      BY <2>1, <2>2, <2>3, <3>1, VerdictWorkerWrites
  <2>5. CASE StartJobFails(w)
    <3>1. worker'[w].at # "auditing"
      BY <2>5 DEF StartJobFails, EndsPublishing, IdleWorker, TypeOK
    <3>2. /\ \A i \in Jobs \ {j} : mem'[i] = mem[i]
          /\ disk' = disk \/ disk' = [disk EXCEPT ![j] = mem'[j]]
      BY <2>1, <2>5, FailsToSaveEffect DEF StartJobFails
    <3> QED
      BY <2>1, <2>2, <2>3, <3>1, <3>2, VerdictWorkerWrites
  <2> QED
    BY <1>2, <2>4, <2>5
<1>3. CASE Finish(w) \/ FinishStopping(w)
  <2>1. /\ Running /\ process' = process /\ j \in Jobs /\ worker[w].at = "auditing"
        /\ \A v \in Workers : v # w => worker'[v] = worker[v]
        /\ worker'[w].at # "auditing"
    BY <1>3 DEF Finish, FinishStopping, EndsPublishing, Running, TypeOK, IdleWorker
  <2>2. mem[j].state = "running"
    BY <1>3, <2>1 DEF Finish, FinishStopping, VerdictInv, AuditedIsRunning
  <2>3. disk[j].state \notin Terminal
    BY <2>1, <2>2 DEF VerdictInv, VerdictInMemory, Terminal
  <2>4. \A v \in Workers : v # w /\ worker[v].at = "auditing" => worker[v].job # j
    BY <2>1 DEF VerdictInv, OneAuditor
  <2>5. /\ \A i \in Jobs \ {j} : mem'[i] = mem[i]
        /\ disk' = disk \/ disk' = [disk EXCEPT ![j] = mem'[j]]
    <3>1. CASE FailsToSave(w)
      BY <2>1, <3>1, FailsToSaveEffect
    <3>2. ASSUME NEW s \in {"succeeded", "failed", "queued"},
                 mem' = [mem EXCEPT ![j].state = s],
                 disk' = disk \/ disk' = [disk EXCEPT ![j] = mem'[j]]
          PROVE  /\ \A i \in Jobs \ {j} : mem'[i] = mem[i]
                 /\ disk' = disk \/ disk' = [disk EXCEPT ![j] = mem'[j]]
      BY <2>1, <3>2, StateOfOneJob DEF TypeOK, States, Terminal
    <3> QED
      BY <1>3, <3>1, <3>2 DEF Finish, FinishStopping
  <2> QED
    BY <2>1, <2>3, <2>4, <2>5, VerdictWorkerWrites
<1> QED
  BY <1>1, <1>2, <1>3

LEMMA VerdictPublisherSteps ==
    ASSUME TypeOK, VerdictInv, NEW c \in Jobs \X Callers, CallPublisher(c) \/ MarkResult(c)
    PROVE  VerdictInv' /\ VerdictsKept
<1>1. CASE CallPublisher(c)
  BY <1>1 DEF CallPublisher, VerdictInv, VerdictInMemory, AuditedIsRunning, OneAuditor,
     DownIsIdle, Running, VerdictsKept
<1>2. CASE MarkResult(c)
  <2>0. Marked(mem[c[1]], pub[c] = "ok").state = mem[c[1]].state
    BY DEF Marked
  <2>1. c[1] \in Jobs /\ \A i \in Jobs : mem'[i].state = mem[i].state
    BY <1>2, <2>0 DEF MarkResult, TypeOK
  <2>2. UNCHANGED <<process, worker>> /\ Running
    BY <1>2 DEF MarkResult
  <2>3. disk' = disk \/ disk' = [disk EXCEPT ![c[1]] = mem'[c[1]]]
    BY <1>2 DEF MarkResult
  <2>4. \A i \in Jobs : disk'[i].state = disk[i].state \/ disk'[i].state = mem[i].state
    BY <2>1, <2>3 DEF TypeOK
  <2>5. VerdictInMemory' /\ VerdictsKept
    BY <2>1, <2>2, <2>3, <2>4 DEF TypeOK, VerdictInv, VerdictInMemory, VerdictsKept, Running
  <2>6. AuditedIsRunning'
    BY <2>1, <2>2 DEF TypeOK, VerdictInv, AuditedIsRunning
  <2> QED
    BY <2>2, <2>5, <2>6 DEF VerdictInv, OneAuditor, DownIsIdle, Running
<1> QED
  BY <1>1, <1>2

LEMMA VerdictProcessSteps ==
    ASSUME TypeOK, VerdictInv, Crash \/ BeginClose \/ Exit \/ Restart \/ RestartFails
    PROVE  VerdictInv' /\ VerdictsKept
<1>1. CASE Crash \/ Exit
  <2>1. LosesMemory(disk)
    BY <1>1 DEF Crash, Exit
  <2> QED
    BY <2>1 DEF LosesMemory, VerdictInv, VerdictInMemory, AuditedIsRunning, OneAuditor,
       DownIsIdle, Running, IdleWorker, VerdictsKept
<1>2. CASE BeginClose
  BY <1>2 DEF BeginClose, VerdictInv, VerdictInMemory, AuditedIsRunning, OneAuditor,
     DownIsIdle, Running, VerdictsKept
<1>3. \A j \in Jobs : disk[j].state \in Terminal => Restored(j).state = disk[j].state
  BY RestoredJob DEF TypeOK, Terminal
<1>4. CASE Restart \/ RestartFails
  <2>1. \A w \in Workers : worker'[w] = IdleWorker
    BY <1>4 DEF Restart, RestartFails, VerdictInv, DownIsIdle, Running
  <2>2. VerdictsKept
    BY <1>3, <1>4 DEF Restart, RestartFails, VerdictsKept
  <2>3. VerdictInMemory'
    BY <1>4 DEF Restart, RestartFails, VerdictInMemory, Running
  <2> QED
    BY <2>1, <2>2, <2>3 DEF VerdictInv, AuditedIsRunning, OneAuditor, DownIsIdle, IdleWorker
<1> QED
  BY <1>1, <1>2, <1>4

\* The invariant holds initially, and every step keeps it and the verdicts.
LEMMA VerdictStep ==
    ASSUME TypeOK, VerdictInv, [Next]_vars PROVE VerdictInv' /\ VerdictsKept
<1>1. CASE Next
  BY <1>1, VerdictSubmit, VerdictBatch, VerdictJobSteps, VerdictWorkerSteps,
     VerdictPublisherSteps, VerdictProcessSteps DEF Next
<1>2. CASE UNCHANGED vars
  BY <1>2 DEF vars, VerdictInv, VerdictInMemory, AuditedIsRunning, OneAuditor,
     DownIsIdle, Running, VerdictsKept
<1> QED
  BY <1>1, <1>2

\* Whatever cancellations, workers, publishers, failed writes, crashes and
\* restarts do, a recorded verdict is never replaced or lost.
THEOREM VerdictsAreDurable == Spec => VerdictIsDurable
<1>1. Init => VerdictInv
  BY DEF Init, VerdictInv, VerdictInMemory, AuditedIsRunning, OneAuditor, DownIsIdle,
     Running, IdleWorker, Absent, Terminal
<1>2. TypeOK /\ VerdictInv /\ [Next]_vars => VerdictInv'
  BY VerdictStep
<1>3. TypeOK /\ VerdictInv /\ [Next]_vars
        => [\A j \in Jobs : disk[j].state \in Terminal => disk'[j].state = disk[j].state]_vars
  BY VerdictStep DEF VerdictsKept
<1> QED
  BY <1>1, <1>2, <1>3, TypeCorrect, PTL DEF Spec, VerdictIsDurable

-----------------------------------------------------------------------------
(* Places.  A job waits in the channel or is at a worker, never both.  That *)
(* new jobs can be put into the channel without looking rests on two more   *)
(* facts: only jobs the map knows are in a place, and no place survives the *)
(* process.                                                                 *)
InQueue(j) == \E n \in DOMAIN queue : queue[n] = j

PlacedIsKnown ==
    \A j \in Jobs :
        InQueue(j) \/ (\E w \in Workers : worker[w].job = j) => mem[j].state # "none"

IdleHasNoJob == \A w \in Workers : worker[w].at = "idle" => worker[w] = IdleWorker

DownIsEmpty == ~Running => queue = <<>>

PlaceInv == NoJobForgotten /\ ExecutedOnce /\ PlacedIsKnown /\ IdleHasNoJob /\ DownIsEmpty

\* Appending jobs to the channel: who is in it, and that they stay distinct.
LEMMA QueueGrows ==
    ASSUME NEW q \in Seq(Jobs), NEW r \in Seq(Jobs),
           \A m, n \in DOMAIN q : q[m] = q[n] => m = n,
           \A m, n \in DOMAIN r : r[m] = r[n] => m = n,
           \A m \in DOMAIN q, n \in DOMAIN r : q[m] # r[n]
    PROVE  /\ \A m, n \in DOMAIN (q \o r) : (q \o r)[m] = (q \o r)[n] => m = n
           /\ \A j : (\E n \in DOMAIN (q \o r) : (q \o r)[n] = j)
                        <=> (\E n \in DOMAIN q : q[n] = j) \/ (\E n \in DOMAIN r : r[n] = j)
<1>1. /\ DOMAIN (q \o r) = 1..(Len(q) + Len(r)) /\ Len(q) \in Nat /\ Len(r) \in Nat
      /\ DOMAIN q = 1..Len(q) /\ DOMAIN r = 1..Len(r)
  OBVIOUS
<1>2. /\ \A n \in DOMAIN q : n \in DOMAIN (q \o r) /\ (q \o r)[n] = q[n]
      /\ \A n \in DOMAIN r : Len(q) + n \in DOMAIN (q \o r) /\ (q \o r)[Len(q) + n] = r[n]
  BY <1>1
<1>3. ASSUME NEW n \in DOMAIN (q \o r)
      PROVE  \/ n \in DOMAIN q /\ (q \o r)[n] = q[n]
             \/ n - Len(q) \in DOMAIN r /\ (q \o r)[n] = r[n - Len(q)]
  BY <1>1, <1>3
<1>4. ASSUME NEW m \in DOMAIN (q \o r), NEW n \in DOMAIN (q \o r), (q \o r)[m] = (q \o r)[n]
      PROVE  m = n
  <2>1. CASE m \in DOMAIN q /\ (q \o r)[m] = q[m]
    BY <1>3, <1>4, <2>1
  <2>2. CASE m - Len(q) \in DOMAIN r /\ (q \o r)[m] = r[m - Len(q)]
    <3>1. n - Len(q) \in DOMAIN r /\ (q \o r)[n] = r[n - Len(q)]
      BY <1>3, <1>4, <2>2
    <3>2. m - Len(q) = n - Len(q)
      BY <1>4, <2>2, <3>1
    <3> QED
      BY <1>1, <3>2
  <2> QED
    BY <1>3, <2>1, <2>2
<1>5. ASSUME NEW j PROVE (\E n \in DOMAIN (q \o r) : (q \o r)[n] = j)
                        <=> (\E n \in DOMAIN q : q[n] = j) \/ (\E n \in DOMAIN r : r[n] = j)
  <2>1. ASSUME NEW n \in DOMAIN (q \o r), (q \o r)[n] = j
        PROVE  (\E m \in DOMAIN q : q[m] = j) \/ (\E m \in DOMAIN r : r[m] = j)
    BY <1>3, <2>1
  <2>2. ASSUME NEW n \in DOMAIN q, q[n] = j
        PROVE  \E m \in DOMAIN (q \o r) : (q \o r)[m] = j
    BY <1>2, <2>2
  <2>3. ASSUME NEW n \in DOMAIN r, r[n] = j
        PROVE  \E m \in DOMAIN (q \o r) : (q \o r)[m] = j
    BY <1>2, <2>3
  <2> QED
    BY <2>1, <2>2, <2>3
<1>6. \A m, n \in DOMAIN (q \o r) : (q \o r)[m] = (q \o r)[n] => m = n
  BY <1>4
<1> QED
  BY <1>5, <1>6

\* Receiving from the channel removes its first job and nothing else.
LEMMA QueueShrinks ==
    ASSUME NEW q \in Seq(Jobs), q # <<>>,
           \A m, n \in DOMAIN q : q[m] = q[n] => m = n
    PROVE  /\ \E n \in DOMAIN q : q[n] = Head(q)
           /\ \A m, n \in DOMAIN Tail(q) : Tail(q)[m] = Tail(q)[n] => m = n
           /\ \A n \in DOMAIN Tail(q) : Tail(q)[n] # Head(q)
           /\ \A j : (\E n \in DOMAIN q : q[n] = j) /\ j # Head(q)
                        => \E n \in DOMAIN Tail(q) : Tail(q)[n] = j
           /\ \A n \in DOMAIN Tail(q) : \E m \in DOMAIN q : q[m] = Tail(q)[n]
<1>1. /\ Len(q) \in Nat \ {0} /\ DOMAIN q = 1..Len(q)
      /\ DOMAIN Tail(q) = 1..(Len(q) - 1)
      /\ Head(q) = q[1]
  OBVIOUS
<1>2. \A n \in DOMAIN Tail(q) : Tail(q)[n] = q[n + 1] /\ n + 1 \in DOMAIN q /\ n + 1 # 1
  BY <1>1
<1>3. \A n \in DOMAIN q : n # 1 => n - 1 \in DOMAIN Tail(q) /\ Tail(q)[n - 1] = q[n]
  BY <1>1
<1>4. 1 \in DOMAIN q
  BY <1>1
<1>5. \A m, n \in DOMAIN Tail(q) : Tail(q)[m] = Tail(q)[n] => m = n
  BY <1>1, <1>2
<1>6. \A n \in DOMAIN Tail(q) : Tail(q)[n] # Head(q)
  BY <1>1, <1>2, <1>4
<1>7. ASSUME NEW n \in DOMAIN q, q[n] # Head(q)
      PROVE  \E m \in DOMAIN Tail(q) : Tail(q)[m] = q[n]
  BY <1>1, <1>3, <1>7
<1> QED
  BY <1>1, <1>2, <1>4, <1>5, <1>6, <1>7

\* An order in which a set of jobs is sent, each once, sends them all.
LEMMA OrdersAreComplete ==
    ASSUME NEW S \in SUBSET Jobs, NEW order \in [1..Cardinality(S) -> S],
           \A m, n \in DOMAIN order : order[m] = order[n] => m = n
    PROVE  \A j \in S : \E n \in DOMAIN order : order[n] = j
<1>1. IsFiniteSet(S) /\ Cardinality(S) \in Nat
  BY JobsAssumption, FS_Subset, FS_CardinalityType
<1>2. Cardinality(1..Cardinality(S)) = Cardinality(S)
  BY <1>1, FS_Interval
<1>3. order \in Injection(1..Cardinality(S), S)
  BY DEF Injection, IsInjective
<1>4. order \in Surjection(1..Cardinality(S), S)
  BY <1>1, <1>2, <1>3, FS_Injection
<1> QED
  BY <1>4 DEF Surjection

\* New jobs, known to no place, join the channel.
LEMMA PlacesOfNewJobs ==
    ASSUME TypeOK, PlaceInv, NEW S \in SUBSET Jobs, NEW order \in Seq(Jobs),
           \A m, n \in DOMAIN order : order[m] = order[n] => m = n,
           \A j : (\E n \in DOMAIN order : order[n] = j) <=> j \in S,
           \A j \in S : mem[j].state = "none" /\ mem'[j].state = "queued",
           \A j \in Jobs \ S : mem'[j] = mem[j],
           queue' = queue \o order, Running, UNCHANGED <<process, worker>>
    PROVE  PlaceInv'
<1>1. \A j \in S : ~InQueue(j) /\ \A w \in Workers : worker[w].job # j
  BY DEF PlaceInv, PlacedIsKnown
<1>2. \A m \in DOMAIN queue, n \in DOMAIN order : queue[m] # order[n]
  BY <1>1 DEF InQueue
<1>3. /\ \A m, n \in DOMAIN queue' : queue'[m] = queue'[n] => m = n
      /\ \A j : InQueue(j)' <=> InQueue(j) \/ j \in S
  <2>1. /\ queue \in Seq(Jobs)
        /\ \A m, n \in DOMAIN queue : queue[m] = queue[n] => m = n
    BY DEF TypeOK, PlaceInv, ExecutedOnce
  <2>2. /\ \A m, n \in DOMAIN (queue \o order) :
              (queue \o order)[m] = (queue \o order)[n] => m = n
        /\ \A j : (\E n \in DOMAIN (queue \o order) : (queue \o order)[n] = j)
                    <=> (\E n \in DOMAIN queue : queue[n] = j)
                        \/ (\E n \in DOMAIN order : order[n] = j)
    BY <1>2, <2>1, QueueGrows
  <2>3. \A j : InQueue(j)' <=> (\E n \in DOMAIN (queue \o order) : (queue \o order)[n] = j)
    BY DEF InQueue
  <2>4. \A j : InQueue(j)' <=> InQueue(j) \/ j \in S
    BY <2>2, <2>3 DEF InQueue
  <2> QED
    BY <2>2, <2>4
<1>4. NoJobForgotten'
  <2> SUFFICES ASSUME process = "up", NEW j \in Jobs
               PROVE  /\ mem'[j].state = "queued" =>
                           \/ InQueue(j)'
                           \/ \E v \in Workers : worker[v] = [at |-> "popped", job |-> j]
                      /\ mem'[j].state = "running" =>
                           \E v \in Workers : worker[v] = [at |-> "auditing", job |-> j]
    BY DEF NoJobForgotten, InQueue
  <2>1. CASE j \in S
    BY <1>3, <2>1
  <2>2. CASE j \notin S
    <3>1. /\ mem[j].state = "queued" =>
               \/ InQueue(j)
               \/ \E v \in Workers : worker[v] = [at |-> "popped", job |-> j]
          /\ mem[j].state = "running" =>
               \E v \in Workers : worker[v] = [at |-> "auditing", job |-> j]
      BY DEF PlaceInv, NoJobForgotten, InQueue
    <3> QED
      BY <1>3, <2>2, <3>1
  <2> QED
    BY <2>1, <2>2
<1>5. ExecutedOnce'
  <2>1. \A n \in DOMAIN queue', w \in Workers : worker[w].job # queue'[n]
    <3> SUFFICES ASSUME NEW n \in DOMAIN queue', NEW w \in Workers, worker[w].job = queue'[n]
                 PROVE  FALSE
      OBVIOUS
    <3>1. InQueue(worker[w].job) \/ worker[w].job \in S
      <4>1. \A j : (\E m \in DOMAIN queue' : queue'[m] = j) => InQueue(j) \/ j \in S
        BY <1>3 DEF InQueue
      <4> QED
        BY <4>1
    <3> QED
      BY <1>1, <3>1 DEF PlaceInv, ExecutedOnce, InQueue
  <2> QED
    BY <1>3, <2>1 DEF PlaceInv, ExecutedOnce
<1>6. PlacedIsKnown'
  BY <1>3 DEF PlaceInv, PlacedIsKnown
<1> QED
  BY <1>4, <1>5, <1>6 DEF PlaceInv, IdleHasNoJob, DownIsEmpty, Running

LEMMA PlaceSubmit ==
    ASSUME TypeOK, PlaceInv, NEW j \in Jobs, NEW i \in Inputs, Submit(j, i)
    PROVE  PlaceInv'
<1>1. <<j>> \in Seq(Jobs) /\ DOMAIN <<j>> = {1} /\ <<j>>[1] = j
  OBVIOUS
<1>2. queue' = queue \o <<j>>
  BY AppendIsConcat DEF Submit, TypeOK
<1>3. /\ mem[j].state = "none" /\ mem'[j].state = "queued"
      /\ \A k \in Jobs \ {j} : mem'[k] = mem[k]
      /\ Running /\ UNCHANGED <<process, worker>>
  BY DEF Submit, TypeOK, NewJob, Absent, Running
<1>4. PICK order \in Seq(Jobs) : order = <<j>>
  BY <1>1
<1>5. /\ \A m, n \in DOMAIN order : order[m] = order[n] => m = n
      /\ \A k : (\E n \in DOMAIN order : order[n] = k) <=> k \in {j}
  BY <1>1, <1>4
<1>6. {j} \in SUBSET Jobs
  OBVIOUS
<1>7. \A k \in {j} : mem[k].state = "none" /\ mem'[k].state = "queued"
  BY <1>3
<1>8. queue' = queue \o order
  BY <1>2, <1>4
<1> QED
  BY <1>3, <1>5, <1>6, <1>7, <1>8, PlacesOfNewJobs

LEMMA PlaceLosesMemory ==
    ASSUME NEW d, LosesMemory(d) PROVE PlaceInv'
<1>1. queue' = <<>> /\ \A w \in Workers : worker'[w] = IdleWorker
  BY DEF LosesMemory
<1>2. process' = "down"
  BY DEF LosesMemory
<1>3. NoJobForgotten' /\ IdleHasNoJob' /\ DownIsEmpty'
  BY <1>1, <1>2 DEF NoJobForgotten, IdleHasNoJob, DownIsEmpty
<1>4. ExecutedOnce' /\ PlacedIsKnown'
  BY <1>1 DEF ExecutedOnce, PlacedIsKnown, InQueue, IdleWorker
<1> QED
  BY <1>3, <1>4 DEF PlaceInv

LEMMA PlaceBatch ==
    ASSUME TypeOK, PlaceInv, NEW b \in Batches,
           SubmitBatch(b) \/ SubmitBatchRollsBack(b) \/ CrashInBatch(b)
    PROVE  PlaceInv'
<1>1. CASE SubmitBatch(b)
  <2>1. NewIn(b) \in SUBSET Jobs /\ Cardinality(NewIn(b)) \in Nat
    BY JobSetsAreCounted DEF Batches, NewIn
  <2>2. PICK order \in [1..Cardinality(NewIn(b)) -> NewIn(b)] :
            /\ \A m, n \in DOMAIN order : order[m] = order[n] => m = n
            /\ queue' = queue \o order
    BY <1>1 DEF SubmitBatch
  <2>3. order \in Seq(Jobs)
    BY <2>1, OrdersAreSequences
  <2>4. \A j : (\E n \in DOMAIN order : order[n] = j) <=> j \in NewIn(b)
    <3>1. \A j \in NewIn(b) : \E n \in DOMAIN order : order[n] = j
      BY <2>1, <2>2, OrdersAreComplete
    <3>2. \A n \in DOMAIN order : order[n] \in NewIn(b)
      OBVIOUS
    <3> QED
      BY <3>1, <3>2
  <2>5. \A j \in NewIn(b) : mem[j].state = "none" /\ mem'[j].state = "queued"
    <3>1. \A j \in NewIn(b) : mem[j].state = "none" /\ j \in Jobs
      BY <2>1 DEF NewIn
    <3>2. \A j \in NewIn(b) : mem'[j] = NewJob(b[j])
      BY <1>1, <3>1 DEF SubmitBatch
    <3>3. \A i : NewJob(i).state = "queued"
      BY DEF NewJob, Absent
    <3> QED
      BY <3>1, <3>2, <3>3
  <2>6. \A j \in Jobs \ NewIn(b) : mem'[j] = mem[j]
    BY <1>1 DEF SubmitBatch
  <2>7. Running /\ UNCHANGED <<process, worker>>
    BY <1>1 DEF SubmitBatch, BatchFits, Running
  <2> QED
    BY <2>1, <2>2, <2>3, <2>4, <2>5, <2>6, <2>7, PlacesOfNewJobs
<1>2. CASE SubmitBatchRollsBack(b)
  BY <1>2 DEF SubmitBatchRollsBack, PlaceInv, NoJobForgotten, ExecutedOnce, PlacedIsKnown,
     InQueue, IdleHasNoJob, DownIsEmpty, Running
<1>3. CASE CrashInBatch(b)
  BY <1>3, PlaceLosesMemory DEF CrashInBatch
<1> QED
  BY <1>1, <1>2, <1>3

\* A step that moves no job, and changes states only so that fewer jobs are
\* to be found in a place, keeps the invariant.
LEMMA PlacesKept ==
    ASSUME PlaceInv, UNCHANGED <<queue, worker>>,
           Running => Running', process' = "up" => process = "up",
           \A j \in Jobs : mem'[j].state = mem[j].state \/ mem'[j].state = "cancelled"
    PROVE  PlaceInv'
<1>1. NoJobForgotten'
  BY DEF PlaceInv, NoJobForgotten
<1>2. ExecutedOnce'
  BY DEF PlaceInv, ExecutedOnce
<1>3. PlacedIsKnown'
  BY DEF PlaceInv, PlacedIsKnown, InQueue
<1>4. IdleHasNoJob' /\ DownIsEmpty'
  BY DEF PlaceInv, IdleHasNoJob, DownIsEmpty
<1> QED
  BY <1>1, <1>2, <1>3, <1>4 DEF PlaceInv

LEMMA PlaceJobSteps ==
    ASSUME TypeOK, PlaceInv, NEW j \in Jobs,
           Cancel(j) \/ BeginSpawned(j) \/ BeginRetry(j) \/ BackoffElapses(j)
    PROVE  PlaceInv'
<1>1. UNCHANGED <<process, queue, worker>>
  BY DEF Cancel, BeginSpawned, BeginRetry, BackoffElapses
<1>2. \A i \in Jobs : mem'[i].state = mem[i].state \/ mem'[i].state = "cancelled"
  <2>1. CASE Cancel(j)
    BY <2>1, StateOfOneJob DEF Cancel, TypeOK, States, Terminal
  <2>2. CASE BeginSpawned(j) \/ BeginRetry(j)
    BY <2>2 DEF BeginSpawned, BeginRetry
  <2>3. CASE BackoffElapses(j)
    BY <2>3, WithDue DEF BackoffElapses, TypeOK
  <2> QED
    BY <2>1, <2>2, <2>3
<1> QED
  BY <1>1, <1>2, PlacesKept DEF Running

LEMMA PlacePublisherSteps ==
    ASSUME TypeOK, PlaceInv, NEW c \in Jobs \X Callers, CallPublisher(c) \/ MarkResult(c)
    PROVE  PlaceInv'
<1>1. UNCHANGED <<process, queue, worker>>
  BY DEF CallPublisher, MarkResult
<1>2. Marked(mem[c[1]], pub[c] = "ok").state = mem[c[1]].state
  BY DEF Marked
<1>3. \A i \in Jobs : mem'[i].state = mem[i].state
  BY <1>2 DEF CallPublisher, MarkResult, TypeOK
<1> QED
  BY <1>1, <1>3, PlacesKept DEF Running

\* The receive moves the first job of the channel to the worker.
LEMMA PlaceDequeue ==
    ASSUME TypeOK, PlaceInv, NEW w \in Workers, Dequeue(w) PROVE PlaceInv'
<1>0. PICK h : h = Head(queue)
  OBVIOUS
<1>1. /\ queue \in Seq(Jobs) /\ queue # <<>> /\ queue' = Tail(queue)
      /\ worker' = [worker EXCEPT ![w] = [at |-> "popped", job |-> h]]
      /\ worker[w].at = "idle" /\ Running /\ UNCHANGED <<process, mem>>
  BY <1>0 DEF Dequeue, TypeOK
<1>2. /\ InQueue(h)
      /\ \A m, n \in DOMAIN queue' : queue'[m] = queue'[n] => m = n
      /\ ~InQueue(h)'
      /\ \A j : InQueue(j) /\ j # h => InQueue(j)'
      /\ \A j : InQueue(j)' => InQueue(j)
  <2>1. \A m, n \in DOMAIN queue : queue[m] = queue[n] => m = n
    BY DEF PlaceInv, ExecutedOnce
  <2>2. /\ \E n \in DOMAIN queue : queue[n] = h
        /\ \A m, n \in DOMAIN Tail(queue) : Tail(queue)[m] = Tail(queue)[n] => m = n
        /\ \A n \in DOMAIN Tail(queue) : Tail(queue)[n] # h
        /\ \A j : (\E n \in DOMAIN queue : queue[n] = j) /\ j # h
                    => \E n \in DOMAIN Tail(queue) : Tail(queue)[n] = j
        /\ \A n \in DOMAIN Tail(queue) : \E m \in DOMAIN queue : queue[m] = Tail(queue)[n]
    BY <1>0, <1>1, <2>1, QueueShrinks
  <2>3. \A j : InQueue(j)' <=> \E n \in DOMAIN Tail(queue) : Tail(queue)[n] = j
    BY <1>1 DEF InQueue
  <2>4. InQueue(h) /\ ~InQueue(h)'
    BY <2>2, <2>3 DEF InQueue
  <2>5. \A j : InQueue(j) /\ j # h => InQueue(j)'
    BY <2>2, <2>3 DEF InQueue
  <2>6. \A j : InQueue(j)' => InQueue(j)
    BY <2>2, <2>3 DEF InQueue
  <2> QED
    BY <1>1, <2>2, <2>4, <2>5, <2>6
<1>3. h \in Jobs /\ \A v \in Workers : worker[v].job # h
  BY <1>1, <1>2 DEF PlaceInv, ExecutedOnce, InQueue
<1>4. /\ worker'[w] = [at |-> "popped", job |-> h] /\ worker[w] = IdleWorker
      /\ \A v \in Workers : v # w => worker'[v] = worker[v]
  BY <1>1 DEF TypeOK, PlaceInv, IdleHasNoJob
<1>5. NoJobForgotten'
  <2> SUFFICES ASSUME process' = "up", NEW j \in Jobs
               PROVE  /\ mem[j].state = "queued" =>
                           \/ InQueue(j)'
                           \/ \E v \in Workers : worker'[v] = [at |-> "popped", job |-> j]
                      /\ mem[j].state = "running" =>
                           \E v \in Workers : worker'[v] = [at |-> "auditing", job |-> j]
    BY <1>1 DEF NoJobForgotten, InQueue
  <2>1. /\ mem[j].state = "queued" =>
             \/ InQueue(j)
             \/ \E v \in Workers : worker[v] = [at |-> "popped", job |-> j]
        /\ mem[j].state = "running" =>
             \E v \in Workers : worker[v] = [at |-> "auditing", job |-> j]
    BY <1>1 DEF PlaceInv, NoJobForgotten, InQueue
  <2> QED
    BY <1>2, <1>4, <2>1 DEF IdleWorker
<1>6. ExecutedOnce'
  <2>1. ASSUME NEW n \in DOMAIN queue', NEW v \in Workers PROVE worker'[v].job # queue'[n]
    <3>1. InQueue(queue'[n]) /\ queue'[n] # h
      <4>1. \A j : (\E m \in DOMAIN queue' : queue'[m] = j) => InQueue(j) /\ j # h
        BY <1>2 DEF InQueue
      <4> QED
        BY <4>1
    <3>2. worker[v].job # queue'[n]
      BY <3>1 DEF PlaceInv, ExecutedOnce, InQueue
    <3> QED
      BY <1>4, <3>1, <3>2
  <2>2. \A u, v \in Workers : worker'[u].job = worker'[v].job => u = v \/ worker'[u] = IdleWorker
    BY <1>3, <1>4 DEF PlaceInv, ExecutedOnce
  <2> QED
    BY <1>2, <2>1, <2>2 DEF ExecutedOnce
<1>7. PlacedIsKnown'
  BY <1>1, <1>2, <1>3, <1>4 DEF PlaceInv, PlacedIsKnown
<1>8. IdleHasNoJob' /\ DownIsEmpty'
  BY <1>1, <1>4 DEF PlaceInv, IdleHasNoJob, DownIsEmpty, Running
<1> QED
  BY <1>5, <1>6, <1>7, <1>8 DEF PlaceInv

\* A worker keeps its job or gives it up.
LEMMA PlaceWorkerActs ==
    ASSUME TypeOK, PlaceInv, NEW w \in Workers, Running, UNCHANGED <<process, queue>>,
           worker[w].at # "idle",
           \A v \in Workers : v # w => worker'[v] = worker[v],
           \A i \in Jobs \ {worker[w].job} : mem'[i] = mem[i],
           mem[worker[w].job].state # "none" => mem'[worker[w].job].state # "none",
           \/ worker'[w] = IdleWorker
           \/ worker'[w] = [at |-> "auditing", job |-> worker[w].job],
           process = "up" =>
               \/ mem'[worker[w].job].state \notin {"queued", "running"}
               \/ /\ mem'[worker[w].job].state = "running"
                  /\ \E v \in Workers : worker'[v] = [at |-> "auditing", job |-> worker[w].job]
    PROVE  PlaceInv'
<1> DEFINE j == worker[w].job
<1>1. j \in Jobs
  BY DEF TypeOK
<1>2. NoJobForgotten'
  <2> SUFFICES ASSUME process = "up", NEW i \in Jobs
               PROVE  /\ mem'[i].state = "queued" =>
                           \/ InQueue(i)
                           \/ \E v \in Workers : worker'[v] = [at |-> "popped", job |-> i]
                      /\ mem'[i].state = "running" =>
                           \E v \in Workers : worker'[v] = [at |-> "auditing", job |-> i]
    BY DEF NoJobForgotten, InQueue
  <2>1. CASE i = j
    BY <2>1
  <2>2. CASE i # j
    <3>1. mem'[i] = mem[i] /\ \A s : worker[w] # [at |-> s, job |-> i]
      BY <2>2
    <3> QED
      BY <3>1 DEF PlaceInv, NoJobForgotten, InQueue
  <2> QED
    BY <2>1, <2>2
<1>3. ExecutedOnce'
  <2>1. \A v \in Workers : worker'[v].job = worker[v].job \/ worker'[v] = IdleWorker
    OBVIOUS
  <2>2. \A n \in DOMAIN queue : queue[n] # NoJob
    BY DEF TypeOK
  <2>3. \A n \in DOMAIN queue, v \in Workers : worker'[v].job # queue[n]
    BY <2>1, <2>2 DEF PlaceInv, ExecutedOnce, IdleWorker
  <2>4. ASSUME NEW u \in Workers, NEW v \in Workers, worker'[u].job = worker'[v].job
        PROVE  u = v \/ worker'[u] = IdleWorker
    <3>1. CASE worker'[u] # IdleWorker /\ worker'[v] # IdleWorker
      <4>1. worker[u].job = worker[v].job /\ worker[u] # IdleWorker
        BY <2>4, <3>1 DEF IdleWorker
      <4> QED
        BY <4>1 DEF PlaceInv, ExecutedOnce
    <3>2. CASE worker'[u] # IdleWorker /\ worker'[v] = IdleWorker
      <4>1. worker'[u].job \in Jobs
        BY <1>1, <3>2 DEF TypeOK, PlaceInv, IdleHasNoJob
      <4> QED
        BY <2>4, <3>2, <4>1 DEF IdleWorker
    <3> QED
      BY <3>1, <3>2
  <2> QED
    BY <2>3, <2>4 DEF PlaceInv, ExecutedOnce
<1>4. PlacedIsKnown'
  <2> SUFFICES ASSUME NEW i \in Jobs,
                      InQueue(i) \/ \E v \in Workers : worker'[v].job = i
               PROVE  mem'[i].state # "none"
    BY DEF PlacedIsKnown, InQueue
  <2>1. InQueue(i) \/ \E v \in Workers : worker[v].job = i
    BY DEF IdleWorker
  <2> QED
    BY <2>1 DEF PlaceInv, PlacedIsKnown
<1>5. IdleHasNoJob' /\ DownIsEmpty'
  BY DEF PlaceInv, IdleHasNoJob, DownIsEmpty, Running, IdleWorker
<1> QED
  BY <1>2, <1>3, <1>4, <1>5 DEF PlaceInv

LEMMA PlaceWorkerSteps ==
    ASSUME TypeOK, PlaceInv, NEW w \in Workers,
           \/ Dequeue(w) \/ DropJob(w) \/ StartJob(w) \/ StartJobFails(w)
           \/ Finish(w) \/ FinishCancelled(w) \/ FinishStopping(w)
    PROVE  PlaceInv'
<1> DEFINE j == worker[w].job
<1>1. CASE Dequeue(w)
  BY <1>1, PlaceDequeue
<1>2. CASE ~Dequeue(w)
  <2>1. /\ Running /\ UNCHANGED <<process, queue>> /\ worker[w].at # "idle" /\ j \in Jobs
        /\ \A v \in Workers : v # w => worker'[v] = worker[v]
    BY <1>2 DEF DropJob, StartJob, StartJobFails, Finish, FinishCancelled, FinishStopping,
       EndsPublishing, Running, TypeOK
  <2>2. CASE DropJob(w) \/ FinishCancelled(w)
    <3>1. mem' = mem /\ worker'[w] = IdleWorker
      BY <2>2 DEF DropJob, FinishCancelled, TypeOK
    <3>2. process = "up" => mem[j].state # "queued"
      BY <2>2 DEF DropJob, FinishCancelled
    <3>3. ASSUME process = "up", mem[j].state = "running"
          PROVE  \E v \in Workers : worker'[v] = [at |-> "auditing", job |-> j]
      <4>1. worker[w].at = "popped"
        BY <2>2, <3>3 DEF DropJob, FinishCancelled
      <4>2. PICK v \in Workers : worker[v] = [at |-> "auditing", job |-> j]
        BY <2>1, <3>3 DEF PlaceInv, NoJobForgotten
      <4> QED
        BY <2>1, <4>1, <4>2
    <3> QED
      BY <2>1, <3>1, <3>2, <3>3, PlaceWorkerActs
  <2>3. CASE StartJob(w)
    <3>1. /\ mem'[j].state = "running" /\ \A i \in Jobs \ {j} : mem'[i] = mem[i]
          /\ worker'[w] = [at |-> "auditing", job |-> j]
      BY <2>1, <2>3, StateOfOneJob DEF StartJob, TypeOK, States
    <3> QED
      BY <2>1, <3>1, PlaceWorkerActs
  <2>4. CASE StartJobFails(w) \/ Finish(w) \/ FinishStopping(w)
    <3>1. worker'[w] = IdleWorker
      BY <2>4 DEF StartJobFails, Finish, FinishStopping, EndsPublishing, TypeOK
    <3>2. \E s \in {"succeeded", "failed", "queued"} :
              /\ mem' = [mem EXCEPT ![j].state = s]
              /\ process = "up" => s # "queued"
      BY <2>4 DEF StartJobFails, Finish, FinishStopping, FailsToSave
    <3>3. /\ \A i \in Jobs \ {j} : mem'[i] = mem[i]
          /\ mem'[j].state \in {"succeeded", "failed", "queued"}
          /\ process = "up" => mem'[j].state # "queued"
      BY <2>1, <3>2, StateOfOneJob DEF TypeOK, States, Terminal
    <3> QED
      BY <2>1, <3>1, <3>3, PlaceWorkerActs
  <2> QED
    BY <1>2, <2>2, <2>3, <2>4
<1> QED
  BY <1>1, <1>2

\* The new process lists every unfinished job, once, and has idle workers only.
LEMMA PlaceRestart ==
    ASSUME TypeOK, VerdictInv, PlaceInv, Restart PROVE PlaceInv'
<1>1. Unfinished \in SUBSET Jobs /\ Cardinality(Unfinished) \in Nat
  BY JobSetsAreCounted DEF Unfinished
<1>2. /\ \A m, n \in DOMAIN queue' : queue'[m] = queue'[n] => m = n
      /\ \A j : InQueue(j)' <=> j \in Unfinished
  <2>1. PICK order \in [1..Cardinality(Unfinished) -> Unfinished] :
            /\ \A m, n \in DOMAIN order : order[m] = order[n] => m = n
            /\ queue' = order
    BY DEF Restart
  <2>2. \A j \in Unfinished : \E n \in DOMAIN order : order[n] = j
    BY <1>1, <2>1, OrdersAreComplete
  <2> QED
    BY <2>1, <2>2 DEF InQueue
<1>3. \A j \in Jobs : /\ mem'[j] = Restored(j)
                      /\ mem'[j].state # "running"
                      /\ mem'[j].state = "queued" <=> j \in Unfinished
  BY RestoredJob DEF Restart, TypeOK, Unfinished
<1>4. \A w \in Workers : worker'[w] = IdleWorker
  BY DEF Restart, VerdictInv, DownIsIdle, Running
<1>5. process' = "up"
  BY DEF Restart
<1>6. NoJobForgotten'
  BY <1>2, <1>3 DEF NoJobForgotten, InQueue
<1>7. ExecutedOnce'
  <2>1. \A n \in DOMAIN queue' : queue'[n] \in Jobs
    BY <1>1, <1>2 DEF InQueue
  <2> QED
    BY <1>2, <1>4, <2>1 DEF ExecutedOnce, IdleWorker
<1>8. PlacedIsKnown'
  BY <1>2, <1>3, <1>4 DEF PlacedIsKnown, IdleWorker
<1> QED
  BY <1>4, <1>5, <1>6, <1>7, <1>8 DEF PlaceInv, IdleHasNoJob, DownIsEmpty, Running

LEMMA PlaceStep ==
    ASSUME TypeOK, VerdictInv, PlaceInv, [Next]_vars PROVE PlaceInv'
<1>1. CASE Crash \/ Exit
  BY <1>1, PlaceLosesMemory DEF Crash, Exit
<1>2. CASE BeginClose \/ RestartFails
  BY <1>2, PlacesKept DEF BeginClose, RestartFails, Running
<1>3. CASE UNCHANGED vars
  BY <1>3, PlacesKept DEF vars, Running
<1> QED
  BY <1>1, <1>2, <1>3, PlaceSubmit, PlaceBatch, PlaceJobSteps, PlaceWorkerSteps,
     PlacePublisherSteps, PlaceRestart DEF Next

\* No job is lost between the map and the channel or handed out twice,
\* whatever the workers, cancellations, failed writes, crashes and restarts do.
THEOREM JobsHaveOnePlace == Spec => []EveryJobHasOnePlace
<1>1. Init => VerdictInv
  BY DEF Init, VerdictInv, VerdictInMemory, AuditedIsRunning, OneAuditor, DownIsIdle,
     Running, IdleWorker, Absent, Terminal
<1>2. Init => PlaceInv
  BY DEF Init, PlaceInv, NoJobForgotten, ExecutedOnce, PlacedIsKnown, InQueue, IdleHasNoJob,
     DownIsEmpty, Running, IdleWorker, Absent
<1>3. TypeOK /\ VerdictInv /\ [Next]_vars => VerdictInv'
  BY VerdictStep
<1>4. TypeOK /\ VerdictInv /\ PlaceInv /\ [Next]_vars => PlaceInv'
  BY PlaceStep
<1>5. PlaceInv => EveryJobHasOnePlace
  BY DEF PlaceInv, EveryJobHasOnePlace
<1> QED
  BY <1>1, <1>2, <1>3, <1>4, <1>5, TypeCorrect, PTL DEF Spec

-----------------------------------------------------------------------------
(* One verdict.  While no write has failed, memory and documents tell the   *)
(* same state, a goroutine inside Redis publishes a recorded verdict, and   *)
(* recorded verdicts are durable: what was sent stays what is recorded.     *)
DocumentsAgree == Running => \A j \in Jobs : mem[j].state = disk[j].state

SentIsVerdict ==
    \A j \in Jobs : /\ sent[j] \subseteq {disk[j].state}
                    /\ sent[j] # {} => disk[j].state \in Terminal

CallsAreOfVerdicts ==
    \A c \in Jobs \X Callers : pub[c] = "calling" => Running /\ disk[c[1]].state \in Terminal

OnceInv == DocumentsAgree /\ SentIsVerdict /\ CallsAreOfVerdicts

\* What a step does to the publications: a call is begun for, and an entry
\* added with, a final state only.
Publishes ==
    /\ \A c \in Jobs \X Callers :
        pub'[c] = "calling" =>
            Running' /\ (pub[c] = "calling" \/ (Running /\ mem[c[1]].state \in Terminal))
    /\ \A j \in Jobs :
        \/ sent'[j] = sent[j]
        \/ Running /\ mem[j].state \in Terminal /\ sent'[j] = sent[j] \cup {mem[j].state}

LEMMA OnceKept ==
    ASSUME OnceInv, VerdictsKept, DocumentsAgree', Publishes PROVE OnceInv'
<1>1. \A j \in Jobs : Running => mem[j].state = disk[j].state
  BY DEF OnceInv, DocumentsAgree
<1>2. SentIsVerdict'
  <2> SUFFICES ASSUME NEW j \in Jobs
               PROVE  /\ sent'[j] \subseteq {disk'[j].state}
                      /\ sent'[j] # {} => disk'[j].state \in Terminal
    BY DEF SentIsVerdict
  <2>1. CASE sent'[j] = sent[j]
    BY <2>1 DEF OnceInv, SentIsVerdict, VerdictsKept
  <2>2. CASE Running /\ mem[j].state \in Terminal /\ sent'[j] = sent[j] \cup {mem[j].state}
    BY <1>1, <2>2 DEF OnceInv, SentIsVerdict, VerdictsKept
  <2> QED
    BY <2>1, <2>2 DEF Publishes
<1>3. CallsAreOfVerdicts'
  <2> SUFFICES ASSUME NEW c \in Jobs \X Callers, pub'[c] = "calling"
               PROVE  Running' /\ disk'[c[1]].state \in Terminal
    BY DEF CallsAreOfVerdicts
  <2>1. c[1] \in Jobs /\ Running' /\ disk[c[1]].state \in Terminal
    BY <1>1 DEF Publishes, OnceInv, CallsAreOfVerdicts
  <2> QED
    BY <2>1 DEF VerdictsKept
<1> QED
  BY <1>2, <1>3 DEF OnceInv

\* A record and its document are written together.
LEMMA AgreeAfterWrite ==
    ASSUME TypeOK, DocumentsAgree, Running, NEW j \in Jobs,
           \A i \in Jobs \ {j} : mem'[i] = mem[i],
           disk' = [disk EXCEPT ![j] = mem'[j]]
    PROVE  DocumentsAgree'
  BY DEF TypeOK, DocumentsAgree

LEMMA OnceSubmitSteps ==
    ASSUME TypeOK, OnceInv, NEW j \in Jobs, NEW i \in Inputs, Submit(j, i)
    PROVE  DocumentsAgree' /\ Publishes
<1>1. Running /\ UNCHANGED <<process, pub, sent>>
  BY DEF Submit, Running
<1>2. DocumentsAgree'
  BY <1>1 DEF Submit, TypeOK, OnceInv, DocumentsAgree, Running
<1> QED
  BY <1>1, <1>2 DEF Publishes, OnceInv, CallsAreOfVerdicts, Running

\* A crash or an exit leaves no goroutine behind.
LEMMA OnceLosesMemory ==
    ASSUME NEW d, LosesMemory(d) PROVE DocumentsAgree' /\ Publishes
  BY DEF LosesMemory, DocumentsAgree, Publishes, Running

LEMMA OnceBatchSteps ==
    ASSUME TypeOK, OnceInv, faults' = 0, NEW b \in Batches,
           SubmitBatch(b) \/ SubmitBatchRollsBack(b) \/ CrashInBatch(b)
    PROVE  DocumentsAgree' /\ Publishes
<1>1. CASE SubmitBatch(b)
  <2>1. Running /\ UNCHANGED <<process, pub, sent>>
    BY <1>1 DEF SubmitBatch, BatchFits, Running
  <2>2. DocumentsAgree'
    BY <1>1, <2>1 DEF SubmitBatch, Written, OnceInv, DocumentsAgree, Running
  <2> QED
    BY <2>1, <2>2 DEF Publishes, OnceInv, CallsAreOfVerdicts, Running
<1>2. CASE SubmitBatchRollsBack(b)
  <2>1. PICK left \in SUBSET NewIn(b) : faults' = faults + 1 + Cardinality(left)
    BY <1>2 DEF SubmitBatchRollsBack
  <2>2. left \in SUBSET Jobs
    BY DEF NewIn, Batches
  <2>3. Cardinality(left) \in Nat /\ faults \in Nat
    BY <2>2, JobSetsAreCounted DEF TypeOK
  <2> QED
    BY <2>1, <2>3
<1>3. CASE CrashInBatch(b)
  BY <1>3, OnceLosesMemory DEF CrashInBatch
<1> QED
  BY <1>1, <1>2, <1>3

LEMMA OnceJobSteps ==
    ASSUME TypeOK, OnceInv, faults' = 0, NEW j \in Jobs,
           Cancel(j) \/ BeginSpawned(j) \/ BeginRetry(j) \/ BackoffElapses(j)
    PROVE  DocumentsAgree' /\ Publishes
<1>1. CASE Cancel(j)
  <2>1. /\ disk' = [disk EXCEPT ![j] = mem'[j]]
        /\ pub' = [pub EXCEPT ![<<j, "spawned">>] = "ready"]
    BY <1>1 DEF Cancel, TypeOK
  <2>2. \A i \in Jobs \ {j} : mem'[i] = mem[i]
    BY <1>1, StateOfOneJob DEF Cancel, TypeOK, States, Terminal
  <2>3. Running /\ UNCHANGED <<process, sent>>
    BY <1>1 DEF Cancel
  <2>4. DocumentsAgree'
    BY <2>1, <2>2, <2>3, AgreeAfterWrite DEF OnceInv
  <2> QED
    BY <2>1, <2>3, <2>4 DEF TypeOK, Publishes, Running
<1>2. CASE BeginSpawned(j) \/ BeginRetry(j)
  <2>1. Running /\ UNCHANGED <<process, mem, disk, sent>>
    BY <1>2 DEF BeginSpawned, BeginRetry, Running
  <2>2. \A c \in Jobs \X Callers :
            pub'[c] = "calling" => pub[c] = "calling" \/ mem[c[1]].state \in Terminal
    <3> SUFFICES ASSUME NEW c \in Jobs \X Callers, pub'[c] = "calling", pub[c] # "calling"
                 PROVE  mem[c[1]].state \in Terminal
      OBVIOUS
    <3>1. \E k \in Callers : pub' = [pub EXCEPT ![<<j, k>>] = pub'[<<j, k>>]]
      BY <1>2 DEF BeginSpawned, BeginRetry, TypeOK, Callers
    <3>2. c[1] = j
      BY <3>1 DEF TypeOK
    <3>3. Publishable(j)
      <4>1. CASE BeginSpawned(j)
        <5>1. c = <<j, "spawned">>
          BY <4>1 DEF BeginSpawned, TypeOK, Callers
        <5> QED
          BY <4>1, <5>1 DEF BeginSpawned, TypeOK
      <4>2. CASE BeginRetry(j)
        BY <4>2 DEF BeginRetry
      <4> QED
        BY <1>2, <4>1, <4>2
    <3> QED
      BY <3>2, <3>3 DEF Publishable
  <2> QED
    BY <2>1, <2>2 DEF OnceInv, DocumentsAgree, Publishes, Running
<1>3. CASE BackoffElapses(j)
  <2>1. \A i \in Jobs : mem'[i].state = mem[i].state /\ disk'[i].state = disk[i].state
    BY <1>3, WithDue DEF BackoffElapses, TypeOK
  <2>2. UNCHANGED <<process, pub, sent>>
    BY <1>3 DEF BackoffElapses
  <2> QED
    BY <2>1, <2>2 DEF OnceInv, DocumentsAgree, CallsAreOfVerdicts, Publishes, Running
<1> QED
  BY <1>1, <1>2, <1>3

LEMMA OnceWorkerSteps ==
    ASSUME TypeOK, OnceInv, faults' = 0, NEW w \in Workers,
           \/ Dequeue(w) \/ DropJob(w) \/ StartJob(w) \/ StartJobFails(w)
           \/ Finish(w) \/ FinishCancelled(w) \/ FinishStopping(w)
    PROVE  DocumentsAgree' /\ Publishes
<1> DEFINE j == worker[w].job
<1>0. Running /\ UNCHANGED <<process, sent>> /\ ~FailsToSave(w)
  BY DEF Dequeue, DropJob, StartJob, StartJobFails, Finish, FinishCancelled, FinishStopping,
     FailsToSave, Running, TypeOK
<1>1. CASE Dequeue(w) \/ DropJob(w) \/ FinishCancelled(w)
  <2>1. UNCHANGED <<mem, disk, pub>>
    BY <1>1 DEF Dequeue, DropJob, FinishCancelled
  <2> QED
    BY <1>0, <2>1 DEF OnceInv, DocumentsAgree, CallsAreOfVerdicts, Publishes, Running
<1>2. CASE StartJob(w) \/ Finish(w) \/ FinishStopping(w)
  <2>1. j \in Jobs
    BY <1>2 DEF StartJob, Finish, FinishStopping, TypeOK
  <2>2. /\ \E s \in {"running", "succeeded", "failed", "queued"} :
               mem' = [mem EXCEPT ![j].state = s]
        /\ disk' = [disk EXCEPT ![j] = mem'[j]]
    BY <1>0, <1>2 DEF StartJob, Finish, FinishStopping, TypeOK
  <2>3. \A i \in Jobs \ {j} : mem'[i] = mem[i]
    BY <2>1, <2>2, StateOfOneJob DEF TypeOK, States, Terminal
  <2>4. pub' = pub \/ pub' = [pub EXCEPT ![<<j, "spawned">>] = "ready"]
    BY <1>2 DEF StartJob, Finish, FinishStopping, EndsPublishing
  <2>5. DocumentsAgree'
    BY <1>0, <2>1, <2>2, <2>3, AgreeAfterWrite DEF OnceInv
  <2> QED
    BY <1>0, <2>4, <2>5 DEF TypeOK, Publishes, Running
<1> QED
  BY <1>0, <1>1, <1>2 DEF StartJobFails

LEMMA OncePublisherSteps ==
    ASSUME TypeOK, OnceInv, faults' = 0, NEW c \in Jobs \X Callers,
           CallPublisher(c) \/ MarkResult(c)
    PROVE  DocumentsAgree' /\ Publishes
<1>0. c[1] \in Jobs
  OBVIOUS
<1>1. CASE CallPublisher(c)
  <2>1. /\ UNCHANGED <<process, mem, disk>> /\ Running /\ pub[c] = "calling"
        /\ \A d \in Jobs \X Callers : pub'[d] = "calling" => pub[d] = "calling"
        /\ \A j \in Jobs : \/ sent'[j] = sent[j]
                           \/ j = c[1] /\ sent'[j] = sent[j] \cup {mem[j].state}
    BY <1>0, <1>1 DEF CallPublisher, TypeOK
  <2>2. DocumentsAgree'
    BY <2>1 DEF OnceInv, DocumentsAgree, Running
  <2>3. mem[c[1]].state \in Terminal
    BY <1>0, <2>1 DEF OnceInv, DocumentsAgree, CallsAreOfVerdicts
  <2> QED
    BY <2>1, <2>2, <2>3 DEF Publishes, Running
<1>2. CASE MarkResult(c)
  <2>0. Marked(mem[c[1]], pub[c] = "ok").state = mem[c[1]].state
    BY DEF Marked
  <2>1. /\ UNCHANGED <<process, sent>> /\ Running
        /\ \A d \in Jobs \X Callers : pub'[d] = "calling" => pub[d] = "calling"
    BY <1>2 DEF MarkResult, TypeOK
  <2>2. /\ \A i \in Jobs : mem'[i].state = mem[i].state
        /\ disk' = disk \/ disk' = [disk EXCEPT ![c[1]] = mem'[c[1]]]
    BY <1>0, <1>2, <2>0 DEF MarkResult, TypeOK
  <2>3. DocumentsAgree'
    BY <2>1, <2>2 DEF TypeOK, OnceInv, DocumentsAgree, Running
  <2> QED
    BY <2>1, <2>3 DEF Publishes, Running
<1> QED
  BY <1>1, <1>2

LEMMA OnceProcessSteps ==
    ASSUME TypeOK, OnceInv, Crash \/ BeginClose \/ Exit \/ Restart \/ RestartFails
    PROVE  DocumentsAgree' /\ Publishes
<1>1. CASE Crash \/ Exit
  BY <1>1, OnceLosesMemory DEF Crash, Exit
<1>2. CASE BeginClose
  BY <1>2 DEF BeginClose, OnceInv, DocumentsAgree, CallsAreOfVerdicts, Publishes, Running
<1>3. CASE Restart \/ RestartFails
  <2>1. ~Running /\ UNCHANGED <<pub, sent>>
    BY <1>3 DEF Restart, RestartFails, Running
  <2>2. DocumentsAgree'
    BY <1>3 DEF Restart, RestartFails, DocumentsAgree, Running
  <2> QED
    BY <2>1, <2>2 DEF OnceInv, CallsAreOfVerdicts, Publishes
<1> QED
  BY <1>1, <1>2, <1>3

\* Failed operations are counted, never forgotten.
LEMMA FaultsAreKept ==
    ASSUME TypeOK, Next, faults' = 0 PROVE faults = 0
<1>0. faults \in Nat /\ \A S \in SUBSET Jobs : Cardinality(S) \in Nat
  BY JobSetsAreCounted DEF TypeOK
<1>1. ASSUME NEW b \in Batches, SubmitBatchRollsBack(b) PROVE faults = 0
  <2>1. PICK left \in SUBSET NewIn(b) : faults' = faults + 1 + Cardinality(left)
    BY <1>1 DEF SubmitBatchRollsBack
  <2>2. left \in SUBSET Jobs
    BY DEF NewIn, Batches
  <2> QED
    BY <1>0, <2>1, <2>2
<1>2. ASSUME NEW b \in Batches, SubmitBatch(b) \/ CrashInBatch(b) PROVE faults = 0
  BY <1>2 DEF SubmitBatch, CrashInBatch, LosesMemory
<1>3. ASSUME NEW j \in Jobs,
             \/ \E i \in Inputs : Submit(j, i)
             \/ Cancel(j) \/ BeginSpawned(j) \/ BeginRetry(j) \/ BackoffElapses(j)
      PROVE  faults = 0
  BY <1>0, <1>3 DEF Submit, Cancel, BeginSpawned, BeginRetry, BackoffElapses
<1>4. ASSUME NEW w \in Workers,
             \/ Dequeue(w) \/ DropJob(w) \/ StartJob(w) \/ StartJobFails(w)
             \/ Finish(w) \/ FinishCancelled(w) \/ FinishStopping(w)
      PROVE  faults = 0
  BY <1>0, <1>4 DEF Dequeue, DropJob, StartJob, StartJobFails, Finish, FinishCancelled,
     FinishStopping, FailsToSave
<1>5. ASSUME NEW c \in Jobs \X Callers, CallPublisher(c) \/ MarkResult(c) PROVE faults = 0
  BY <1>0, <1>5 DEF CallPublisher, MarkResult
<1>6. ASSUME Crash \/ BeginClose \/ Exit \/ Restart \/ RestartFails PROVE faults = 0
  BY <1>0, <1>6 DEF Crash, BeginClose, Exit, Restart, RestartFails, LosesMemory
<1> QED
  BY <1>1, <1>2, <1>3, <1>4, <1>5, <1>6 DEF Next

LEMMA OnceStep ==
    ASSUME TypeOK, VerdictInv, faults = 0 => OnceInv, [Next]_vars
    PROVE  (faults = 0 => OnceInv)'
<1>1. CASE Next /\ faults' = 0
  <2>1. OnceInv /\ VerdictsKept
    BY <1>1, FaultsAreKept, VerdictStep
  <2>2. DocumentsAgree' /\ Publishes
    BY <1>1, <2>1, OnceSubmitSteps, OnceBatchSteps, OnceJobSteps, OnceWorkerSteps,
       OncePublisherSteps, OnceProcessSteps DEF Next
  <2> QED
    BY <2>1, <2>2, OnceKept
<1>2. CASE UNCHANGED vars
  BY <1>2 DEF vars, OnceInv, DocumentsAgree, SentIsVerdict, CallsAreOfVerdicts, Running
<1> QED
  BY <1>1, <1>2

\* Unless a file operation failed, everything the service publishes for a job,
\* over any number of attempts, crashes and restarts, is its recorded verdict.
THEOREM VerdictsAreUnique == Spec => []OneVerdict
<1>1. Init => VerdictInv /\ (faults = 0 => OnceInv)
  BY DEF Init, VerdictInv, VerdictInMemory, AuditedIsRunning, OneAuditor, DownIsIdle,
     Running, IdleWorker, Absent, Terminal, OnceInv, DocumentsAgree, SentIsVerdict,
     CallsAreOfVerdicts
<1>2. TypeOK /\ VerdictInv /\ [Next]_vars => VerdictInv'
  BY VerdictStep
<1>3. TypeOK /\ VerdictInv /\ (faults = 0 => OnceInv) /\ [Next]_vars => (faults = 0 => OnceInv)'
  BY OnceStep
<1>4. (faults = 0 => OnceInv) => OneVerdict
  BY DEF OnceInv, SentIsVerdict, OneVerdict
<1> QED
  BY <1>1, <1>2, <1>3, <1>4, TypeCorrect, PTL DEF Spec

-----------------------------------------------------------------------------
(* Delivery.  A record becomes `delivered` only from a publisher that got  *)
(* the reply of an XADD, and an entry never leaves the history.            *)
RepliedWasSent == \A c \in Jobs \X Callers : pub[c] = "ok" => sent[c[1]] # {}

DeliveryInv == DeliveredWasSent /\ RepliedWasSent

\* What a step may do to delivery marks, replies and the stream.
KeepsDelivery ==
    /\ \A j \in Jobs : sent[j] # {} => sent'[j] # {}
    /\ \A j \in Jobs : mem'[j].delivered \/ disk'[j].delivered
            => sent[j] # {} \/ mem[j].delivered \/ disk[j].delivered
    /\ \A c \in Jobs \X Callers : pub'[c] = "ok" => sent'[c[1]] # {} \/ pub[c] = "ok"

LEMMA DeliveryStep ==
    ASSUME DeliveryInv, KeepsDelivery PROVE DeliveryInv'
  BY DEF DeliveryInv, KeepsDelivery, DeliveredWasSent, RepliedWasSent

LEMMA NewJobIsUndelivered == \A i : ~NewJob(i).delivered
  BY DEF NewJob, Absent

LEMMA DeliverySubmitSteps ==
    ASSUME TypeOK, NEW j \in Jobs, NEW i \in Inputs, Submit(j, i) PROVE KeepsDelivery
  BY NewJobIsUndelivered DEF Submit, TypeOK, KeepsDelivery

LEMMA DeliveryBatchSteps ==
    ASSUME TypeOK, NEW b \in Batches,
           SubmitBatch(b) \/ SubmitBatchRollsBack(b) \/ CrashInBatch(b)
    PROVE  KeepsDelivery
<1>1. \A js : \A j \in Jobs : Written(b, js)[j].delivered => disk[j].delivered
  BY NewJobIsUndelivered DEF Written
<1>2. ~Absent.delivered
  BY DEF Absent
<1> QED
  BY <1>1, <1>2, NewJobIsUndelivered DEF SubmitBatch, SubmitBatchRollsBack, CrashInBatch,
     LosesMemory, KeepsDelivery

LEMMA DeliveryJobSteps ==
    ASSUME TypeOK, NEW j \in Jobs,
           Cancel(j) \/ BeginSpawned(j) \/ BeginRetry(j) \/ BackoffElapses(j)
    PROVE  KeepsDelivery
<1>1. CASE Cancel(j)
  <2>1. \A i \in Jobs : mem'[i].delivered = mem[i].delivered
    BY <1>1, StateOfOneJob DEF Cancel, TypeOK, States, Terminal
  <2>2. \A i \in Jobs : disk'[i] = disk[i] \/ disk'[i] = mem'[i]
    BY <1>1 DEF Cancel, TypeOK
  <2>3. UNCHANGED sent /\ \A c \in Jobs \X Callers : pub'[c] = "ok" => pub[c] = "ok"
    BY <1>1 DEF Cancel, TypeOK
  <2> QED
    BY <2>1, <2>2, <2>3 DEF KeepsDelivery
<1>2. CASE BeginSpawned(j) \/ BeginRetry(j)
  BY <1>2 DEF BeginSpawned, BeginRetry, TypeOK, KeepsDelivery
<1>3. CASE BackoffElapses(j)
  <2>1. \A i \in Jobs : mem'[i].delivered = mem[i].delivered /\ disk'[i].delivered = disk[i].delivered
    BY <1>3, WithDue DEF BackoffElapses, TypeOK
  <2> QED
    BY <1>3, <2>1 DEF BackoffElapses, KeepsDelivery
<1> QED
  BY <1>1, <1>2, <1>3

LEMMA DeliveryWorkerSteps ==
    ASSUME TypeOK, NEW w \in Workers,
           \/ Dequeue(w) \/ DropJob(w) \/ StartJob(w) \/ StartJobFails(w)
           \/ Finish(w) \/ FinishCancelled(w) \/ FinishStopping(w)
    PROVE  KeepsDelivery
<1> DEFINE j == worker[w].job
<1>1. CASE Dequeue(w) \/ DropJob(w) \/ FinishCancelled(w)
  BY <1>1 DEF Dequeue, DropJob, FinishCancelled, KeepsDelivery
<1>2. CASE StartJob(w) \/ StartJobFails(w) \/ Finish(w) \/ FinishStopping(w)
  <2>1. j \in Jobs
    BY <1>2 DEF StartJob, StartJobFails, Finish, FinishStopping, TypeOK
  <2>2. \E s \in States : mem' = [mem EXCEPT ![j].state = s]
    BY <1>2 DEF StartJob, StartJobFails, Finish, FinishStopping, FailsToSave, States, Terminal
  <2>3. disk' = disk \/ disk' = [disk EXCEPT ![j] = mem'[j]]
    BY <1>2 DEF StartJob, StartJobFails, Finish, FinishStopping, FailsToSave
  <2>4. \A i \in Jobs : mem'[i].delivered = mem[i].delivered
    BY <2>1, <2>2, StateOfOneJob DEF TypeOK
  <2>5. \A i \in Jobs : disk'[i] = disk[i] \/ disk'[i] = mem'[i]
    BY <2>1, <2>3 DEF TypeOK
  <2>6. UNCHANGED sent /\ \A c \in Jobs \X Callers : pub'[c] = "ok" => pub[c] = "ok"
    BY <1>2, <2>1 DEF StartJob, StartJobFails, Finish, FinishStopping, EndsPublishing, TypeOK
  <2> QED
    BY <2>4, <2>5, <2>6 DEF KeepsDelivery
<1> QED
  BY <1>1, <1>2

LEMMA DeliveryPublisherSteps ==
    ASSUME TypeOK, DeliveryInv, NEW c \in Jobs \X Callers, CallPublisher(c) \/ MarkResult(c)
    PROVE  KeepsDelivery
<1>1. CASE CallPublisher(c)
  <2>1. PICK added \in BOOLEAN, reply \in BOOLEAN :
          /\ reply => added
          /\ pub' = [pub EXCEPT ![c] = IF reply THEN "ok" ELSE "error"]
          /\ sent' = [sent EXCEPT ![c[1]] = IF added THEN @ \cup {mem[c[1]].state} ELSE @]
    BY <1>1 DEF CallPublisher
  <2>2. \A j \in Jobs : sent[j] \subseteq sent'[j]
    BY <2>1 DEF TypeOK
  <2>3. pub'[c] = "ok" => sent'[c[1]] # {}
    BY <2>1 DEF TypeOK
  <2>4. \A d \in Jobs \X Callers : d # c => pub'[d] = pub[d]
    BY <2>1 DEF TypeOK
  <2> QED
    BY <1>1, <2>2, <2>3, <2>4 DEF CallPublisher, KeepsDelivery
<1>2. CASE MarkResult(c)
  <2>1. c[1] \in Jobs /\ (pub[c] = "ok" => sent[c[1]] # {})
    BY DEF DeliveryInv, RepliedWasSent
  <2>2. Marked(mem[c[1]], pub[c] = "ok").delivered => pub[c] = "ok"
    BY DEF Marked
  <2>3. \A i \in Jobs : mem'[i].delivered => mem[i].delivered \/ sent[i] # {}
    BY <1>2, <2>1, <2>2 DEF MarkResult, TypeOK
  <2>4. \A i \in Jobs : disk'[i] = disk[i] \/ disk'[i] = mem'[i]
    BY <1>2, <2>1 DEF MarkResult, TypeOK
  <2>5. UNCHANGED sent /\ \A d \in Jobs \X Callers : pub'[d] = "ok" => pub[d] = "ok"
    BY <1>2 DEF MarkResult, TypeOK
  <2> QED
    BY <2>3, <2>4, <2>5 DEF KeepsDelivery
<1> QED
  BY <1>1, <1>2

LEMMA DeliveryProcessSteps ==
    ASSUME TypeOK, Crash \/ BeginClose \/ Exit \/ Restart \/ RestartFails PROVE KeepsDelivery
<1>1. CASE Crash \/ Exit
  BY <1>1 DEF Crash, Exit, LosesMemory, Absent, KeepsDelivery
<1>2. CASE BeginClose
  BY <1>2 DEF BeginClose, KeepsDelivery
<1>3. \A j \in Jobs : Restored(j).delivered = disk[j].delivered
  BY RestoredJob DEF TypeOK
<1>4. CASE Restart \/ RestartFails
  BY <1>3, <1>4 DEF Restart, RestartFails, KeepsDelivery
<1> QED
  BY <1>1, <1>2, <1>4

\* A job that reads as delivered, in memory or on disk, was added to the
\* result stream, however publications, crashes and restarts interleave.
THEOREM DeliveredJobsWereSent == Spec => []DeliveredWasSent
<1>1. Init => DeliveryInv
  BY DEF Init, DeliveryInv, DeliveredWasSent, RepliedWasSent, Absent
<1>2. ASSUME TypeOK, DeliveryInv, Next PROVE DeliveryInv'
  <2>1. KeepsDelivery
    BY <1>2, DeliverySubmitSteps, DeliveryBatchSteps, DeliveryJobSteps, DeliveryWorkerSteps,
       DeliveryPublisherSteps, DeliveryProcessSteps DEF Next
  <2> QED
    BY <1>2, <2>1, DeliveryStep
<1>3. DeliveryInv /\ UNCHANGED vars => DeliveryInv'
  BY DEF DeliveryInv, DeliveredWasSent, RepliedWasSent, vars
<1>4. DeliveryInv => DeliveredWasSent
  BY DEF DeliveryInv
<1> QED
  BY <1>1, <1>2, <1>3, <1>4, TypeCorrect, PTL DEF Spec

=============================================================================
