-------------------------- MODULE ProcessingProofs --------------------------
(***************************************************************************)
(* What Processing guarantees for every number of tasks, corpora, users,   *)
(* processes, message copies, retries and losses: attempts at a task are   *)
(* exclusive, ended tasks stay ended, and a corpus and an account have at  *)
(* most one unfinished task.  Then the tables that processing writes:      *)
(* three inductive invariants, each on top of the one before, on what is   *)
(* served (ServedInv) in every behaviour, how far each message has come    *)
(* (OnceInv) while every message is delivered once, and the tables of      *)
(* owned corpora (TablesInv) while no audit fails either.                  *)
(***************************************************************************)
EXTENDS Processing, TLAPS

USE NoTaskAssumption

\* Moving a busy process to another stage keeps its message and the others.
LEMMA GoesOnly ==
    ASSUME TypeOK, NEW w \in Workers, worker[w] # Idle, NEW stage \in Stages, Goes(w, stage)
    PROVE  /\ worker' \in [Workers -> [at : Stages, msg : Messages] \cup {Idle}]
           /\ worker'[w].at = stage
           /\ worker'[w].msg = worker[w].msg
           /\ \A v \in Workers : v # w => worker'[v] = worker[v]
  <1>1. worker[w] \in [at : Stages, msg : Messages]
    BY DEF TypeOK
  <1>2. [worker[w] EXCEPT !.at = stage] \in [at : Stages, msg : Messages]
    BY <1>1
  <1> QED
    BY <1>1, <1>2 DEF Goes, TypeOK

\* A process at a stage is busy, with a message whose task exists as an id.
LEMMA BusyType ==
    ASSUME TypeOK, NEW w \in Workers, worker[w].at \in Stages
    PROVE  /\ worker[w] # Idle
           /\ worker[w].msg \in Messages
           /\ TaskOf(w) \in Tasks
           /\ CorpusOf(w) \in Corpora
  <1>1. worker[w] # Idle
    BY DEF Idle, Stages, Working
  <1>2. worker[w] \in [at : Stages, msg : Messages]
    BY <1>1 DEF TypeOK
  <1> QED
    BY <1>1, <1>2 DEF TypeOK, Messages, TaskOf, CorpusOf

\* The message a process receives is a message of this queue.
LEMMA ReceivedType ==
    ASSUME TypeOK, NEW w \in Workers, NEW m, Receives(w, m)
    PROVE  m \in Messages /\ m.task \in Tasks /\ corpusOf[m.task] \in Corpora
  <1>1. m \in Messages
    BY BusyType DEF Receives, TypeOK, Stages
  <1> QED
    BY <1>1 DEF Messages, TypeOK

-----------------------------------------------------------------------------
(* Type correctness *)

\* What CreateTask leaves typed.
LEMMA CreateTyped ==
    ASSUME TypeOK, NEW t \in Tasks, NEW c \in Corpora, NEW u \in Users \cup {NoUser},
           CreateTask(t, c, u)
    PROVE  /\ task' \in [Tasks -> {"absent"} \cup Active \cup Ended]
           /\ requester' \in [Tasks -> Users \cup {NoUser}]
           /\ corpus' \in [Corpora -> CorpusStatuses]
           /\ UNCHANGED <<corpusOf, live, sent, messages>>
  BY DEF CreateTask, TypeOK, Active, CorpusStatuses, queueVars

\* What the statements of _mark_failed and _mark_pending_for_retry leave typed.
LEMMA SettleTyped ==
    ASSUME TypeOK, NEW t \in Tasks, Fails(t) \/ Releases(t)
    PROVE  /\ task' \in [Tasks -> {"absent"} \cup Active \cup Ended]
           /\ corpus' \in [Corpora -> CorpusStatuses]
           /\ files' \in [Corpora -> {"pending", "processing", "ready", "failed"}]
  <1>1. CASE Fails(t)
    BY <1>1 DEF Fails, TypeOK, Active, Ended, CorpusStatuses
  <1>2. CASE Releases(t)
    BY <1>2 DEF Releases, TypeOK, Active, Ended, CorpusStatuses
  <1> QED
    BY <1>1, <1>2

\* Steps of users, operators and the outbox.
LEMMA TypeUserStep ==
    ASSUME TypeOK, NEW t \in Tasks, NEW c \in Corpora,
           \/ \E u \in Users : UploadCorpus(t, c, u)
           \/ RetryUserCorpus(t, c) \/ RequestProcessing(t, c)
           \/ RegisterCorpus(c) \/ OpenRetry(c) \/ RetryRefused(c)
           \/ DeleteUserCorpus(c) \/ DeleteUserCorpusFiles(c) \/ OutboxSends(t)
    PROVE  TypeOK'
  <1> USE DEF tableVars, queueVars, bounds
  <1>1. CASE \E u \in Users : UploadCorpus(t, c, u)
    BY <1>1, CreateTyped DEF UploadCorpus, TypeOK
  <1>2. CASE RetryUserCorpus(t, c)
    <2>1. Owner[c] \in Users \cup {NoUser}
      BY OwnerAssumption
    <2> QED
      BY <1>2, <2>1, CreateTyped DEF RetryUserCorpus, TypeOK
  <1>3. CASE RequestProcessing(t, c)
    <2>1. worker' \in [Workers -> [at : Stages, msg : Messages] \cup {Idle}]
      <3>1. [at |-> "called", msg |-> [task |-> t, copy |-> 0, retries |-> 0]]
              \in [at : Stages, msg : Messages]
        BY BoundsAssumption DEF Stages, Messages
      <3> QED
        BY <1>3, <3>1 DEF RequestProcessing, TypeOK
    <2> QED
      BY <1>3, <2>1, CreateTyped DEF RequestProcessing, TypeOK
  <1>4. CASE RegisterCorpus(c)
    BY <1>4 DEF RegisterCorpus, TypeOK, CorpusStatuses
  <1>5. CASE OpenRetry(c)
    BY <1>5 DEF OpenRetry, TypeOK
  <1>6. CASE RetryRefused(c)
    BY <1>6 DEF RetryRefused, TypeOK
  <1>7. CASE DeleteUserCorpus(c)
    BY <1>7 DEF DeleteUserCorpus, TypeOK, CorpusStatuses, Ended
  <1>8. CASE DeleteUserCorpusFiles(c)
    BY <1>8 DEF DeleteUserCorpusFiles, TypeOK, CorpusStatuses
  <1>9. CASE OutboxSends(t)
    <2>1. sent[t] + 1 \in 1..MaxCopies
      BY <1>9, BoundsAssumption DEF OutboxSends, TypeOK
    <2>2. [task |-> t, copy |-> sent[t] + 1, retries |-> 0] \in Messages
      BY <2>1, BoundsAssumption DEF Messages
    <2>3. sent' \in [Tasks -> 0..MaxCopies]
      BY <1>9, <2>1 DEF OutboxSends, TypeOK
    <2> QED
      BY <1>9, <2>2, <2>3 DEF OutboxSends, TypeOK
  <1> QED
    BY <1>1, <1>2, <1>3, <1>4, <1>5, <1>6, <1>7, <1>8, <1>9

\* Steps of the processes.
LEMMA TypeWorkerStep ==
    ASSUME TypeOK, NEW w \in Workers, WorkerStep(w) \/ WorkerLost(w)
    PROVE  TypeOK'
  <1> USE DEF tableVars, queueVars, bounds
  <1>1. ASSUME NEW m, MarkRunning(w, m) PROVE TypeOK'
    <2>1. m \in Messages /\ m.task \in Tasks /\ corpusOf[m.task] \in Corpora
      BY <1>1, ReceivedType DEF MarkRunning
    <2>2. [at |-> "importing", msg |-> m] \in [at : Stages, msg : Messages]
      BY <2>1 DEF Stages, Working
    <2> QED
      BY <1>1, <2>1, <2>2 DEF MarkRunning, TypeOK, Active, CorpusStatuses
  <1>2. ASSUME NEW m, SkipTask(w, m) PROVE TypeOK'
    BY <1>2 DEF SkipTask, TypeOK
  <1>3. CASE Finalize(w)
    BY <1>3, GoesOnly, BusyType DEF Finalize, TypeOK, Stages, Working
  <1>4. CASE ImportRaises(w)
    BY <1>4, GoesOnly, BusyType DEF ImportRaises, TypeOK, Stages, Working
  <1>5. CASE MarkSuccess(w)
    <2>1. worker' \in [Workers -> [at : Stages, msg : Messages] \cup {Idle}]
      BY <1>5, GoesOnly, BusyType DEF MarkSuccess, Stages, Working
    <2> QED
      BY <1>5, <2>1, BusyType DEF MarkSuccess, TypeOK, Ended, CorpusStatuses, Stages, Working
  <1>6. CASE MarkSuccessRaises(w)
    BY <1>6, GoesOnly, BusyType DEF MarkSuccessRaises, TypeOK, Stages, Working
  <1>7. CASE MarkFailed(w)
    BY <1>7, GoesOnly, BusyType, SettleTyped DEF MarkFailed, TypeOK, Stages, Working
  <1>8. CASE MarkPendingForRetry(w)
    BY <1>8, GoesOnly, BusyType, SettleTyped DEF MarkPendingForRetry, TypeOK, Stages, Working
  <1>9. CASE Retry(w)
    <2>1. worker[w].at \in Stages /\ worker[w].msg \in Messages
      BY <1>9, BusyType DEF Retry, Stages
    <2>2. [worker[w].msg EXCEPT !.retries = @ + 1] \in Messages
      BY <1>9, <2>1, BoundsAssumption DEF Retry, Messages
    <2> QED
      BY <1>9, <2>1, <2>2, GoesOnly, BusyType DEF Retry, TypeOK, Stages
  <1>10. CASE MarkRetryExhausted(w)
    BY <1>10, GoesOnly, BusyType, SettleTyped DEF MarkRetryExhausted, TypeOK, Stages
  <1>11. CASE Acknowledge(w)
    BY <1>11 DEF Acknowledge, TypeOK
  <1>12. CASE WorkerLost(w)
    <2>1. worker[w].msg \in Messages
      BY <1>12 DEF WorkerLost, TypeOK
    <2> QED
      BY <1>12, <2>1 DEF WorkerLost, TypeOK
  <1> QED
    BY <1>1, <1>2, <1>3, <1>4, <1>5, <1>6, <1>7, <1>8, <1>9, <1>10, <1>11, <1>12
    DEF WorkerStep, Receive

\* One disjunct of Next at a time.
LEMMA NextCases ==
    ASSUME Next
    PROVE  \/ \E t \in Tasks, c \in Corpora :
                \/ \E u \in Users : UploadCorpus(t, c, u)
                \/ RetryUserCorpus(t, c) \/ RequestProcessing(t, c)
           \/ \E c \in Corpora : RegisterCorpus(c) \/ OpenRetry(c) \/ RetryRefused(c)
                                 \/ DeleteUserCorpus(c) \/ DeleteUserCorpusFiles(c)
           \/ \E t \in Tasks : OutboxSends(t)
           \/ \E w \in Workers : WorkerStep(w) \/ WorkerLost(w)
  BY DEF Next

\* Every behaviour of the processing tables and processes is well typed.
THEOREM TypeCorrect == Spec => []TypeOK
  <1>1. Init => TypeOK
    BY BoundsAssumption DEF Init, TypeOK, CorpusStatuses
  <1>2. TypeOK /\ [Next]_vars => TypeOK'
    <2> SUFFICES ASSUME TypeOK, [Next]_vars PROVE TypeOK'
      OBVIOUS
    <2>1. CASE UNCHANGED vars
      BY <2>1 DEF vars, tableVars, queueVars, TypeOK
    <2>2. ASSUME NEW c \in Corpora, RegisterCorpus(c) \/ OpenRetry(c) \/ RetryRefused(c)
                                    \/ DeleteUserCorpus(c) \/ DeleteUserCorpusFiles(c)
          PROVE  TypeOK'
      BY <2>2 DEF RegisterCorpus, OpenRetry, RetryRefused, DeleteUserCorpus,
                  DeleteUserCorpusFiles, TypeOK, CorpusStatuses, Ended, tableVars, queueVars
    <2>3. ASSUME NEW t \in Tasks, OutboxSends(t) PROVE TypeOK'
      <3>1. corpusOf[t] \in Corpora
        BY DEF TypeOK
      <3> QED
        BY <2>3, <3>1, TypeUserStep
    <2> QED
      BY <2>1, <2>2, <2>3, TypeUserStep, TypeWorkerStep, NextCases
  <1> QED
    BY <1>1, <1>2, PTL DEF Spec

-----------------------------------------------------------------------------
(* Exclusive attempts *)

\* The task of an attempt is claimed: nobody else may claim it.  Without this
\* the release of an attempt could meet a second attempt at the same task.
WorkedOnIsClaimed ==
    \A w \in Workers : worker[w].at \in Working => task[TaskOf(w)] \notin {"absent", "pending"}

AttemptInv == OneWorkerPerTask /\ WorkedOnIsClaimed

\* Steps that leave the processes' attempts alone and unclaim no task.
LEMMA AttemptUndisturbed ==
    ASSUME TypeOK, AttemptInv,
           \A v \in Workers : worker'[v].at \in Working =>
                worker[v].at \in Working /\ worker'[v].msg = worker[v].msg,
           \A v \in Workers : worker'[v].at \in Working =>
                task'[TaskOf(v)] = task[TaskOf(v)] \/ task'[TaskOf(v)] \notin {"absent", "pending"}
    PROVE  AttemptInv'
  BY DEF AttemptInv, OneWorkerPerTask, WorkedOnIsClaimed, TaskOf

\* A new task is not worked on.
LEMMA AttemptUserStep ==
    ASSUME TypeOK, AttemptInv, NEW t \in Tasks, NEW c \in Corpora,
           \/ \E u \in Users : UploadCorpus(t, c, u)
           \/ RetryUserCorpus(t, c) \/ RequestProcessing(t, c)
    PROVE  AttemptInv'
  <1>1. task[t] = "absent" /\ task' = [task EXCEPT ![t] = "pending"]
    BY DEF UploadCorpus, RetryUserCorpus, RequestProcessing, CreateTask
  <1>2. \A v \in Workers : worker'[v].at \in Working =>
            worker[v].at \in Working /\ worker'[v].msg = worker[v].msg
    <2>1. CASE UNCHANGED worker
      BY <2>1
    <2>2. CASE RequestProcessing(t, c) /\ worker' # worker
      <3>1. PICK w \in Workers : worker' = [worker EXCEPT ![w] =
              [at |-> "called", msg |-> [task |-> t, copy |-> 0, retries |-> 0]]]
        BY <2>2 DEF RequestProcessing
      <3> QED
        BY <3>1 DEF TypeOK, Working
    <2> QED
      BY <2>1, <2>2 DEF UploadCorpus, RetryUserCorpus
  <1>3. \A v \in Workers : worker'[v].at \in Working => task'[TaskOf(v)] = task[TaskOf(v)]
    <2> SUFFICES ASSUME NEW v \in Workers, worker[v].at \in Working
                 PROVE  task'[TaskOf(v)] = task[TaskOf(v)]
      BY <1>2
    <2>1. TaskOf(v) \in Tasks
      BY BusyType DEF Stages
    <2>2. task[TaskOf(v)] # "absent"
      BY DEF AttemptInv, WorkedOnIsClaimed
    <2> QED
      BY <1>1, <2>1, <2>2 DEF TypeOK
  <1> QED
    BY <1>2, <1>3, AttemptUndisturbed

\* A claim takes a task nobody works on; a release ends its only attempt.
LEMMA AttemptWorkerStep ==
    ASSUME TypeOK, AttemptInv, NEW w \in Workers, WorkerStep(w) \/ WorkerLost(w)
    PROVE  AttemptInv'
  <1> USE DEF tableVars, queueVars, bounds
  <1>a. ASSUME NEW v \in Workers, worker[v].at \in Working
        PROVE  TaskOf(v) \in Tasks /\ task[TaskOf(v)] \notin {"absent", "pending"}
    BY <1>a, BusyType DEF AttemptInv, WorkedOnIsClaimed, Stages
  <1>b. ASSUME NEW stage \in Stages, worker[w].at \in Stages, Goes(w, stage),
               stage \in Working => worker[w].at \in Working
        PROVE  \A v \in Workers : worker'[v].at \in Working =>
                    worker[v].at \in Working /\ worker'[v].msg = worker[v].msg
    BY <1>b, GoesOnly, BusyType
  <1>1. ASSUME NEW m, MarkRunning(w, m) PROVE AttemptInv'
    <2>1. m \in Messages /\ m.task \in Tasks
      BY <1>1, ReceivedType DEF MarkRunning
    <2>2. task[m.task] = "pending" /\ task' = [task EXCEPT ![m.task] = "running"]
      BY <1>1 DEF MarkRunning, Claimable
    <2>3. worker' = [worker EXCEPT ![w] = [at |-> "importing", msg |-> m]]
      BY <1>1 DEF MarkRunning
    <2>4. worker'[w].msg = m /\ \A v \in Workers : v # w => worker'[v] = worker[v]
      BY <2>3 DEF TypeOK
    <2>5. \A v \in Workers : v # w /\ worker[v].at \in Working => TaskOf(v) # m.task
      BY <1>a, <2>2
    <2>6. OneWorkerPerTask'
      BY <2>4, <2>5 DEF AttemptInv, OneWorkerPerTask, TaskOf
    <2>7. WorkedOnIsClaimed'
      <3> SUFFICES ASSUME NEW v \in Workers, worker'[v].at \in Working
                   PROVE  task'[worker'[v].msg.task] \notin {"absent", "pending"}
        BY DEF WorkedOnIsClaimed, TaskOf
      <3>1. CASE v = w
        BY <3>1, <2>1, <2>2, <2>4 DEF TypeOK
      <3>2. CASE v # w
        BY <3>2, <1>a, <2>2, <2>4, <2>5 DEF TypeOK, TaskOf
      <3> QED
        BY <3>1, <3>2
    <2> QED
      BY <2>6, <2>7 DEF AttemptInv
  <1>2. ASSUME NEW m, SkipTask(w, m) PROVE AttemptInv'
    <2>1. \A v \in Workers : worker'[v].at \in Working =>
            worker[v].at \in Working /\ worker'[v].msg = worker[v].msg
      BY <1>2 DEF SkipTask, TypeOK, Idle, Working
    <2> QED
      BY <1>2, <2>1, AttemptUndisturbed DEF SkipTask
  <1>3. CASE Finalize(w)
    BY <1>3, <1>b, AttemptUndisturbed DEF Finalize, Stages, Working
  <1>4. CASE ImportRaises(w)
    BY <1>4, <1>b, AttemptUndisturbed DEF ImportRaises, Stages, Working
  <1>5. CASE MarkSuccess(w)
    <2>1. \A v \in Workers : worker'[v].at \in Working =>
            worker[v].at \in Working /\ worker'[v].msg = worker[v].msg
      BY <1>5, <1>b DEF MarkSuccess, Stages, Working
    <2>2. task' = [task EXCEPT ![TaskOf(w)] = "success"]
      BY <1>5 DEF MarkSuccess
    <2> QED
      BY <2>1, <2>2, <1>a, AttemptUndisturbed DEF TypeOK
  <1>6. CASE MarkSuccessRaises(w)
    BY <1>6, <1>b, AttemptUndisturbed DEF MarkSuccessRaises, Stages, Working
  <1>c. ASSUME NEW t \in Tasks, Fails(t), NEW v \in Workers, worker[v].at \in Working
        PROVE  task'[TaskOf(v)] = task[TaskOf(v)] \/ task'[TaskOf(v)] \notin {"absent", "pending"}
    BY <1>c, <1>a DEF Fails, TypeOK
  <1>7. CASE MarkFailed(w)
    <2>1. \A v \in Workers : worker'[v].at \in Working =>
            worker[v].at \in Working /\ worker'[v].msg = worker[v].msg
      BY <1>7, <1>b DEF MarkFailed, Stages, Working
    <2>2. TaskOf(w) \in Tasks /\ Fails(TaskOf(w))
      BY <1>7, BusyType DEF MarkFailed, Stages, Working
    <2> QED
      BY <2>1, <2>2, <1>c, AttemptUndisturbed
  <1>8. CASE MarkPendingForRetry(w)
    <2>1. PICK stage \in {"ended", "retry"} : Goes(w, stage)
      BY <1>8 DEF MarkPendingForRetry
    <2>2. worker[w].at \in Stages /\ worker[w].at \in Working /\ stage \in Stages /\ stage \notin Working
      BY <1>8 DEF MarkPendingForRetry, Stages, Working
    <2>3. /\ worker'[w].at \notin Working
          /\ \A v \in Workers : v # w => worker'[v] = worker[v]
      BY <2>1, <2>2, GoesOnly, BusyType
    <2>4. \A v \in Workers : worker'[v].at \in Working => TaskOf(v) # TaskOf(w)
      BY <2>2, <2>3 DEF AttemptInv, OneWorkerPerTask
    <2>5. \A t \in Tasks : t # TaskOf(w) => task'[t] = task[t]
      BY <1>8 DEF MarkPendingForRetry, Releases, TypeOK
    <2>6. \A v \in Workers : worker'[v].at \in Working => task'[TaskOf(v)] = task[TaskOf(v)]
      BY <1>a, <2>3, <2>4, <2>5
    <2> QED
      BY <2>3, <2>6, AttemptUndisturbed
  <1>9. CASE Retry(w)
    BY <1>9, <1>b, AttemptUndisturbed DEF Retry, Stages, Working
  <1>10. CASE MarkRetryExhausted(w)
    <2>1. \A v \in Workers : worker'[v].at \in Working =>
            worker[v].at \in Working /\ worker'[v].msg = worker[v].msg
      BY <1>10, <1>b DEF MarkRetryExhausted, Stages, Working
    <2>2. TaskOf(w) \in Tasks /\ (Fails(TaskOf(w)) \/ UNCHANGED task)
      BY <1>10, BusyType DEF MarkRetryExhausted, Stages
    <2> QED
      BY <2>1, <2>2, <1>c, AttemptUndisturbed
  <1>11. CASE Acknowledge(w) \/ WorkerLost(w)
    <2>1. \A v \in Workers : worker'[v].at \in Working =>
            worker[v].at \in Working /\ worker'[v].msg = worker[v].msg
      BY <1>11 DEF Acknowledge, WorkerLost, TypeOK, Idle, Working
    <2> QED
      BY <1>11, <2>1, AttemptUndisturbed DEF Acknowledge, WorkerLost
  <1> QED
    BY <1>1, <1>2, <1>3, <1>4, <1>5, <1>6, <1>7, <1>8, <1>9, <1>10, <1>11
    DEF WorkerStep, Receive

\* Attempts stay exclusive, and their tasks claimed.
LEMMA AttemptInvariant == Spec => []AttemptInv
  <1>1. Init => AttemptInv
    BY DEF Init, AttemptInv, OneWorkerPerTask, WorkedOnIsClaimed, Working, Idle
  <1>2. TypeOK /\ AttemptInv /\ [Next]_vars => AttemptInv'
    <2> SUFFICES ASSUME TypeOK, AttemptInv, [Next]_vars PROVE AttemptInv'
      OBVIOUS
    <2>1. CASE UNCHANGED vars
      BY <2>1 DEF vars, tableVars, AttemptInv, OneWorkerPerTask, WorkedOnIsClaimed, TaskOf
    <2>2. ASSUME NEW c \in Corpora, RegisterCorpus(c) \/ OpenRetry(c) \/ RetryRefused(c)
                                    \/ DeleteUserCorpusFiles(c)
          PROVE  AttemptInv'
      BY <2>2, AttemptUndisturbed DEF RegisterCorpus, OpenRetry, RetryRefused, DeleteUserCorpusFiles
    <2>3. ASSUME NEW c \in Corpora, DeleteUserCorpus(c) PROVE AttemptInv'
      <3>1. \A t \in Tasks : task'[t] = task[t] \/ task'[t] = "deleted"
        BY <2>3 DEF DeleteUserCorpus
      <3>2. \A v \in Workers : worker[v].at \in Working => TaskOf(v) \in Tasks
        BY BusyType DEF Stages
      <3> QED
        BY <2>3, <3>1, <3>2, AttemptUndisturbed DEF DeleteUserCorpus
    <2>4. ASSUME NEW t \in Tasks, OutboxSends(t) PROVE AttemptInv'
      BY <2>4, AttemptUndisturbed DEF OutboxSends, tableVars
    <2> QED
      BY <2>1, <2>2, <2>3, <2>4, AttemptUserStep, AttemptWorkerStep, NextCases
  <1> QED
    BY <1>1, <1>2, TypeCorrect, PTL DEF Spec

\* However its messages are multiplied, a task has at most one process between
\* _mark_running and the transaction that ends the attempt.
THEOREM AttemptsAreExclusive == Spec => []OneWorkerPerTask
  <1>1. AttemptInv => OneWorkerPerTask
    BY DEF AttemptInv
  <1> QED
    BY <1>1, AttemptInvariant, PTL

-----------------------------------------------------------------------------
(* Status changes of tasks *)

\* A step changes the status of tasks in one of these ways only: it creates one
\* that the checks accept, moves an active one, settles some, or none.
Moves(t) ==
    /\ task' = [task EXCEPT ![t] = task'[t]]
    /\ task[t] \in Active => task'[t] \in Active \cup Ended
    /\ task[t] \notin Active => task'[t] \notin Active
    /\ task[t] \in Ended => task'[t] \in Ended
    /\ UNCHANGED requester

Settles ==
    /\ \A t \in Tasks : task'[t] = task[t] \/ task'[t] = "deleted"
    /\ UNCHANGED requester

LEMMA TaskChanges ==
    ASSUME TypeOK, [Next]_vars
    PROVE  /\ UNCHANGED corpusOf
           /\ \/ \E t \in Tasks, c \in Corpora, u \in Users \cup {NoUser} : CreateTask(t, c, u)
              \/ \E t \in Tasks : Moves(t)
              \/ Settles
  <1> USE DEF tableVars, queueVars, bounds
  <1>1. CASE UNCHANGED <<task, requester, corpusOf>>
    BY <1>1 DEF Settles
  <1>2. CASE UNCHANGED vars
    BY <1>2, <1>1 DEF vars
  <1>3. ASSUME NEW t \in Tasks, NEW c \in Corpora,
               \/ \E u \in Users : UploadCorpus(t, c, u)
               \/ RetryUserCorpus(t, c) \/ RequestProcessing(t, c)
        PROVE  /\ UNCHANGED corpusOf
               /\ \E u \in Users \cup {NoUser} : CreateTask(t, c, u)
    <2>1. Owner[c] \in Users \cup {NoUser}
      BY OwnerAssumption
    <2>2. \E u \in Users \cup {NoUser} : CreateTask(t, c, u)
      BY <1>3, <2>1 DEF UploadCorpus, RetryUserCorpus, RequestProcessing
    <2> QED
      BY <2>2 DEF CreateTask
  <1>4. ASSUME NEW c \in Corpora, RegisterCorpus(c) \/ OpenRetry(c) \/ RetryRefused(c)
                                  \/ DeleteUserCorpusFiles(c)
        PROVE  UNCHANGED <<task, requester, corpusOf>>
    BY <1>4 DEF RegisterCorpus, OpenRetry, RetryRefused, DeleteUserCorpusFiles
  <1>5. ASSUME NEW c \in Corpora, DeleteUserCorpus(c)
        PROVE  UNCHANGED corpusOf /\ Settles
    BY <1>5 DEF DeleteUserCorpus, Settles
  <1>6. ASSUME NEW t \in Tasks, OutboxSends(t)
        PROVE  UNCHANGED <<task, requester, corpusOf>>
    BY <1>6 DEF OutboxSends
  <1>7. ASSUME NEW t \in Tasks, Fails(t) \/ Releases(t), UNCHANGED requester
        PROVE  Moves(t)
    <2>1. task[t] \in {"absent"} \cup Active \cup Ended
      BY DEF TypeOK
    <2>2. task' = [task EXCEPT ![t] = task'[t]]
      BY <1>7 DEF Fails, Releases, TypeOK
    <2>3. CASE Fails(t)
      BY <2>1, <2>2, <2>3, <1>7 DEF Fails, Moves, TypeOK, Active, Ended
    <2>4. CASE Releases(t)
      BY <2>1, <2>2, <2>4, <1>7 DEF Releases, Moves, TypeOK, Active, Ended
    <2> QED
      BY <1>7, <2>3, <2>4
  <1>8. ASSUME NEW w \in Workers, WorkerStep(w) \/ WorkerLost(w)
        PROVE  /\ UNCHANGED corpusOf
               /\ UNCHANGED <<task, requester>> \/ \E t \in Tasks : Moves(t)
    <2>1. ASSUME NEW m, MarkRunning(w, m)
          PROVE  UNCHANGED corpusOf /\ \E t \in Tasks : Moves(t)
      <3>1. m.task \in Tasks
        BY <2>1, ReceivedType DEF MarkRunning
      <3>2. Moves(m.task)
        BY <2>1, <3>1 DEF MarkRunning, Claimable, Moves, TypeOK, Active, Ended
      <3> QED
        BY <2>1, <3>1, <3>2 DEF MarkRunning
    <2>2. CASE MarkSuccess(w)
      <3>1. TaskOf(w) \in Tasks
        BY <2>2, BusyType DEF MarkSuccess, Stages, Working
      <3>2. Moves(TaskOf(w))
        BY <2>2, <3>1 DEF MarkSuccess, Moves, TypeOK, Active, Ended
      <3> QED
        BY <2>2, <3>1, <3>2 DEF MarkSuccess
    <2>3. CASE MarkFailed(w)
      BY <2>3, <1>7, BusyType DEF MarkFailed, Stages, Working
    <2>4. CASE MarkPendingForRetry(w)
      BY <2>4, <1>7, BusyType DEF MarkPendingForRetry, Stages, Working
    <2>5. CASE MarkRetryExhausted(w)
      BY <2>5, <1>7, BusyType DEF MarkRetryExhausted, Stages
    <2>6. ASSUME NEW m, SkipTask(w, m) PROVE UNCHANGED <<task, requester, corpusOf>>
      BY <2>6 DEF SkipTask
    <2>7. CASE Finalize(w) \/ ImportRaises(w) \/ MarkSuccessRaises(w) \/ Retry(w)
               \/ Acknowledge(w) \/ WorkerLost(w)
      BY <2>7 DEF Finalize, ImportRaises, MarkSuccessRaises, Retry, Acknowledge, WorkerLost
    <2> QED
      BY <1>8, <2>1, <2>2, <2>3, <2>4, <2>5, <2>6, <2>7 DEF WorkerStep, Receive
  <1> QED
    BY <1>1, <1>2, <1>3, <1>4, <1>5, <1>6, <1>8, NextCases

\* A task that succeeded, failed or was deleted is never queued or run again.
THEOREM EndedTasksStayEnded == Spec => EndedStaysEnded
  <1>1. TypeOK /\ [Next]_vars =>
            [\A t \in Tasks : task[t] \in Ended => task'[t] \in Ended]_vars
    <2> SUFFICES ASSUME TypeOK, [Next]_vars, NEW t \in Tasks, task[t] \in Ended
                 PROVE  task'[t] \in Ended
      OBVIOUS
    <2>1. ASSUME NEW s \in Tasks, NEW c \in Corpora, NEW u \in Users \cup {NoUser},
                 CreateTask(s, c, u)
          PROVE  task'[t] \in Ended
      BY <2>1 DEF CreateTask, TypeOK, Ended
    <2>2. ASSUME NEW s \in Tasks, Moves(s) PROVE task'[t] \in Ended
      <3>1. CASE s = t
        BY <2>2, <3>1 DEF Moves
      <3>2. CASE s # t
        BY <2>2, <3>2 DEF Moves, TypeOK
      <3> QED
        BY <3>1, <3>2
    <2>3. CASE Settles
      BY <2>3 DEF Settles, Ended
    <2> QED
      BY <2>1, <2>2, <2>3, TaskChanges
  <1> QED
    BY <1>1, TypeCorrect, PTL DEF Spec, EndedStaysEnded

\* A corpus, and an account, never has two unfinished tasks.
THEOREM OneTaskAtATime == Spec => []OneActiveTask
  <1>1. Init => OneActiveTask
    BY DEF Init, OneActiveTask, Active
  <1>2. TypeOK /\ OneActiveTask /\ [Next]_vars => OneActiveTask'
    <2> SUFFICES ASSUME TypeOK, OneActiveTask, [Next]_vars PROVE OneActiveTask'
      OBVIOUS
    <2>1. UNCHANGED corpusOf
      BY TaskChanges
    <2>2. ASSUME NEW t \in Tasks, NEW c \in Corpora, NEW u \in Users \cup {NoUser},
                 CreateTask(t, c, u)
          PROVE  OneActiveTask'
      <3>1. \A s \in Tasks : s # t => task'[s] = task[s] /\ requester'[s] = requester[s]
        BY <2>2 DEF CreateTask, TypeOK
      <3>2. requester'[t] = u /\ corpusOf[t] = c
        BY <2>2 DEF CreateTask, TypeOK
      <3>3. \A s \in Tasks : task[s] \in Active =>
                corpusOf[s] # c /\ (u = NoUser \/ requester[s] # u)
        BY <2>2 DEF CreateTask, Accepts, ActiveOf, ActiveBy
      <3> QED
        BY <2>1, <3>1, <3>2, <3>3 DEF OneActiveTask
    <2>3. ASSUME NEW t \in Tasks, Moves(t) PROVE OneActiveTask'
      <3>1. \A s \in Tasks : task'[s] \in Active => task[s] \in Active
        BY <2>3 DEF Moves, TypeOK
      <3> QED
        BY <2>1, <2>3, <3>1 DEF Moves, OneActiveTask
    <2>4. CASE Settles
      BY <2>1, <2>4 DEF Settles, OneActiveTask, Active
    <2> QED
      BY <2>2, <2>3, <2>4, TaskChanges
  <1> QED
    BY <1>1, <1>2, TypeCorrect, PTL DEF Spec

-----------------------------------------------------------------------------
(* What is served *)

\* A corpus with a task whose row exists has a row of its own.
TasksHaveCorpora ==
    \A t \in Tasks : task[t] \notin {"absent", "deleted"} => corpus[corpusOf[t]] \in Existing

\* A process past publication has left an index, unless the corpus went since.
PublishedIsServed ==
    \A w \in Workers :
        worker[w].at = "published" /\ task[TaskOf(w)] # "deleted" => live[CorpusOf(w)] # NoTask

ReadyIsServed == \A c \in Corpora : corpus[c] = "ready" => live[c] # NoTask

ServedByOwnTask ==
    \A c \in Corpora : live[c] # NoTask => live[c] \in Tasks /\ corpusOf[live[c]] = c

ServedInv == TasksHaveCorpora /\ PublishedIsServed /\ ReadyIsServed /\ ServedByOwnTask

\* Steps that delete no corpus, and publish only for the task they work on.
LEMMA ServedUndisturbed ==
    ASSUME TypeOK, ServedInv, UNCHANGED corpusOf,
           \A c \in Corpora :
                \/ live'[c] = live[c]
                \/ live'[c] \in Tasks /\ corpusOf[live'[c]] = c,
           \A c \in Corpora : corpus[c] \in Existing => corpus'[c] \in Existing,
           \A c \in Corpora : corpus'[c] = "ready" => corpus[c] = "ready" \/ live'[c] # NoTask,
           \A t \in Tasks : task'[t] \notin {"absent", "deleted"} =>
                task[t] \notin {"absent", "deleted"} \/ corpus'[corpusOf[t]] \in Existing,
           \A v \in Workers : worker'[v].at = "published" =>
                \/ worker[v].at = "published" /\ worker'[v].msg = worker[v].msg
                \/ worker'[v].msg.task \in Tasks /\ live'[corpusOf[worker'[v].msg.task]] # NoTask,
           \A v \in Workers : worker[v].at = "published" =>
                (task'[TaskOf(v)] # "deleted" => task[TaskOf(v)] # "deleted")
    PROVE  ServedInv'
  <1>1. TasksHaveCorpora'
    <2> SUFFICES ASSUME NEW t \in Tasks, task'[t] \notin {"absent", "deleted"}
                 PROVE  corpus'[corpusOf[t]] \in Existing
      BY DEF TasksHaveCorpora
    <2>1. corpusOf[t] \in Corpora
      BY DEF TypeOK
    <2> QED
      BY <2>1 DEF ServedInv, TasksHaveCorpora
  <1>2. PublishedIsServed'
    <2> SUFFICES ASSUME NEW v \in Workers, worker'[v].at = "published",
                        task'[worker'[v].msg.task] # "deleted"
                 PROVE  live'[corpusOf[worker'[v].msg.task]] # NoTask
      BY DEF PublishedIsServed, TaskOf, CorpusOf
    <2>1. CASE worker[v].at = "published" /\ worker'[v].msg = worker[v].msg
      <3>1. CorpusOf(v) \in Corpora
        BY <2>1, BusyType DEF Stages, Working
      <3>2. live[CorpusOf(v)] # NoTask
        BY <2>1 DEF ServedInv, PublishedIsServed, TaskOf
      <3> QED
        BY <2>1, <3>1, <3>2 DEF TaskOf, CorpusOf
    <2> QED
      BY <2>1
  <1>3. ReadyIsServed'
    BY DEF ServedInv, ReadyIsServed
  <1>4. ServedByOwnTask'
    BY DEF ServedInv, ServedByOwnTask
  <1> QED
    BY <1>1, <1>2, <1>3, <1>4 DEF ServedInv

\* A new task comes with the row of its corpus.
LEMMA ServedUserStep ==
    ASSUME TypeOK, AttemptInv, ServedInv, NEW t \in Tasks, NEW c \in Corpora,
           \/ \E u \in Users : UploadCorpus(t, c, u)
           \/ RetryUserCorpus(t, c) \/ RequestProcessing(t, c)
    PROVE  ServedInv'
  <1>1. /\ task[t] = "absent" /\ corpusOf[t] = c
        /\ task' = [task EXCEPT ![t] = "pending"]
        /\ corpus' = [corpus EXCEPT ![c] = "pending_processing"]
        /\ UNCHANGED <<corpusOf, live>>
    BY DEF UploadCorpus, RetryUserCorpus, RequestProcessing, CreateTask
  <1>2. \A v \in Workers : worker'[v].at = "published" => worker'[v] = worker[v]
    <2>1. CASE UNCHANGED worker
      BY <2>1
    <2>2. CASE RequestProcessing(t, c) /\ worker' # worker
      <3>1. PICK w \in Workers : worker' = [worker EXCEPT ![w] =
              [at |-> "called", msg |-> [task |-> t, copy |-> 0, retries |-> 0]]]
        BY <2>2 DEF RequestProcessing
      <3> QED
        BY <3>1 DEF TypeOK
    <2> QED
      BY <2>1, <2>2 DEF UploadCorpus, RetryUserCorpus
  <1>3. \A s \in Tasks : s # t => task'[s] = task[s]
    BY <1>1 DEF TypeOK
  <1>4. /\ corpus'[c] = "pending_processing" /\ corpus'[c] \in Existing
        /\ \A d \in Corpora : d # c => corpus'[d] = corpus[d]
    BY <1>1 DEF TypeOK, Existing, CorpusStatuses
  <1>5. \A v \in Workers : worker[v].at = "published" =>
            (task'[TaskOf(v)] # "deleted" => task[TaskOf(v)] # "deleted")
    <2> SUFFICES ASSUME NEW v \in Workers, worker[v].at = "published"
                 PROVE  task'[TaskOf(v)] = task[TaskOf(v)]
      OBVIOUS
    <2> QED
      BY <1>1, <1>3, BusyType DEF AttemptInv, WorkedOnIsClaimed, Stages, Working
  <1> QED
    BY <1>1, <1>2, <1>3, <1>4, <1>5, ServedUndisturbed

\* Registration keeps the rows; deletion takes the tasks with the corpus, and
\* the index only when no task is left.
LEMMA ServedCorpusStep ==
    ASSUME TypeOK, AttemptInv, ServedInv, NEW c \in Corpora,
           RegisterCorpus(c) \/ OpenRetry(c) \/ RetryRefused(c)
           \/ DeleteUserCorpus(c) \/ DeleteUserCorpusFiles(c)
    PROVE  ServedInv'
  <1>1. CASE OpenRetry(c) \/ RetryRefused(c)
    BY <1>1, ServedUndisturbed DEF OpenRetry, RetryRefused
  <1>2. CASE RegisterCorpus(c)
    <2>1. /\ corpus' = [corpus EXCEPT ![c] = "created"]
          /\ UNCHANGED <<task, corpusOf, live, worker>>
      BY <1>2 DEF RegisterCorpus
    <2>2. corpus'[c] = "created" /\ \A d \in Corpora : d # c => corpus'[d] = corpus[d]
      BY <2>1 DEF TypeOK
    <2>3. corpus'[c] \in Existing
      BY <2>2 DEF Existing, CorpusStatuses
    <2> QED
      BY <2>1, <2>2, <2>3, ServedUndisturbed
  <1>3. CASE DeleteUserCorpus(c)
    <2>1. /\ corpus' = [corpus EXCEPT ![c] = "deleting"]
          /\ task' = [t \in Tasks |-> IF corpusOf[t] = c /\ task[t] # "absent" THEN "deleted" ELSE task[t]]
          /\ UNCHANGED <<corpusOf, live, worker>>
      BY <1>3 DEF DeleteUserCorpus
    <2>2. corpus'[c] = "deleting" /\ \A d \in Corpora : d # c => corpus'[d] = corpus[d]
      BY <2>1 DEF TypeOK
    <2>3. TasksHaveCorpora'
      BY <2>1, <2>2 DEF ServedInv, TasksHaveCorpora, TypeOK
    <2>4. \A t \in Tasks : task'[t] # "deleted" => task[t] # "deleted"
      BY <2>1
    <2>5. PublishedIsServed'
      <3>1. \A v \in Workers : worker[v].at = "published" => TaskOf(v) \in Tasks
        BY BusyType DEF Stages, Working
      <3> QED
        BY <2>1, <2>4, <3>1 DEF ServedInv, PublishedIsServed, TaskOf, CorpusOf
    <2> QED
      BY <2>1, <2>2, <2>3, <2>5 DEF ServedInv, ReadyIsServed, ServedByOwnTask
  <1>4. CASE DeleteUserCorpusFiles(c)
    <2>1. /\ corpus[c] = "deleting" /\ corpus' = [corpus EXCEPT ![c] = "deleted"]
          /\ UNCHANGED <<task, corpusOf, worker>>
          /\ live' = live \/ live' = [live EXCEPT ![c] = NoTask]
      BY <1>4 DEF DeleteUserCorpusFiles
    <2>2. corpus'[c] = "deleted" /\ \A d \in Corpora : d # c => corpus'[d] = corpus[d]
      BY <2>1 DEF TypeOK
    <2>3. \A d \in Corpora : live'[d] = live[d] \/ (d = c /\ live'[d] = NoTask)
      BY <2>1 DEF TypeOK
    <2>4. \A t \in Tasks : corpusOf[t] = c => task[t] \in {"absent", "deleted"}
      BY <2>1 DEF ServedInv, TasksHaveCorpora, Existing
    <2>5. TasksHaveCorpora'
      BY <2>1, <2>2, <2>4 DEF ServedInv, TasksHaveCorpora, TypeOK
    <2>6. PublishedIsServed'
      <3>1. \A v \in Workers : worker[v].at = "published" =>
                TaskOf(v) \in Tasks /\ CorpusOf(v) \in Corpora /\ task[TaskOf(v)] # "absent"
        BY BusyType DEF Stages, Working, AttemptInv, WorkedOnIsClaimed
      <3> QED
        BY <2>1, <2>3, <2>4, <3>1 DEF ServedInv, PublishedIsServed, TaskOf, CorpusOf
    <2> QED
      BY <2>1, <2>2, <2>3, <2>5, <2>6 DEF ServedInv, ReadyIsServed, ServedByOwnTask
  <1> QED
    BY <1>1, <1>2, <1>3, <1>4

\* A step of a process leaves every other process, and its own message, alone.
LEMMA StageMoves ==
    ASSUME TypeOK, NEW w \in Workers, NEW stage \in Stages, worker[w].at \in Stages, Goes(w, stage)
    PROVE  \A v \in Workers :
                /\ worker'[v].msg = worker[v].msg
                /\ worker'[v].at = IF v = w THEN stage ELSE worker[v].at
  BY GoesOnly, BusyType

\* A claim: the task was pending, the process is at its import.
LEMMA ClaimFacts ==
    ASSUME TypeOK, NEW w \in Workers, NEW m, MarkRunning(w, m)
    PROVE  /\ m \in Messages /\ m.task \in Tasks /\ corpusOf[m.task] \in Corpora
           /\ task[m.task] = "pending"
           /\ task'[m.task] = "running"
           /\ \A t \in Tasks : t # m.task => task'[t] = task[t]
           /\ corpus'[corpusOf[m.task]] = "processing"
           /\ files'[corpusOf[m.task]] = "processing"
           /\ \A c \in Corpora : c # corpusOf[m.task] => corpus'[c] = corpus[c] /\ files'[c] = files[c]
           /\ worker'[w].at = "importing" /\ worker'[w].msg = m
           /\ \A v \in Workers : v # w => worker'[v] = worker[v]
           /\ messages' = messages \ {m}
           /\ UNCHANGED <<corpusOf, live, sent, losses, direct, auditFaults>>
  <1>1. m \in Messages /\ m.task \in Tasks /\ corpusOf[m.task] \in Corpora
    BY ReceivedType DEF MarkRunning
  <1> QED
    BY <1>1 DEF MarkRunning, Claimable, TypeOK, bounds

\* The statements of _mark_failed and _mark_pending_for_retry touch one task
\* and its corpus, and keep the rows that are there.
LEMMA SettleFacts ==
    ASSUME TypeOK, NEW t \in Tasks, task[t] # "absent", Fails(t) \/ Releases(t)
    PROVE  /\ corpusOf[t] \in Corpora
           /\ task'[t] \in {"pending", "failed", task[t]}
           /\ task'[t] = "deleted" <=> task[t] = "deleted"
           /\ \A s \in Tasks : s # t => task'[s] = task[s]
           /\ \A c \in Corpora : corpus[c] \in Existing <=> corpus'[c] \in Existing
           /\ \A c \in Corpora : corpus'[c] \in {"ready", "deleted", "deleting", "absent"} => corpus'[c] = corpus[c]
           /\ \A c \in Corpora : c # corpusOf[t] => corpus'[c] = corpus[c] /\ files'[c] = files[c]
  <1>0. corpusOf[t] \in Corpora
    BY DEF TypeOK
  <1>1. CASE Fails(t)
    BY <1>0, <1>1 DEF Fails, TypeOK, Existing, CorpusStatuses
  <1>2. CASE Releases(t)
    BY <1>0, <1>2 DEF Releases, TypeOK, Existing, CorpusStatuses
  <1> QED
    BY <1>1, <1>2

\* Only Finalize and the error that follows it publish; only _mark_success
\* makes a corpus ready, after publication.
LEMMA ServedWorkerStep ==
    ASSUME TypeOK, AttemptInv, ServedInv, NEW w \in Workers, WorkerStep(w) \/ WorkerLost(w)
    PROVE  ServedInv'
  <1> USE DEF tableVars, queueVars, bounds
  <1>1. ASSUME NEW m, MarkRunning(w, m) PROVE ServedInv'
    <2>1. corpus'[corpusOf[m.task]] \in Existing
      BY <1>1, ClaimFacts DEF Existing, CorpusStatuses
    <2>2. \A v \in Workers : worker'[v].at = "published" => worker'[v] = worker[v]
      BY <1>1, ClaimFacts
    <2>3. \A v \in Workers : worker[v].at = "published" => TaskOf(v) \in Tasks
      BY BusyType DEF Stages, Working
    <2>4. \A v \in Workers : worker[v].at = "published" =>
            (task'[TaskOf(v)] # "deleted" => task[TaskOf(v)] # "deleted")
      BY <1>1, <2>3, ClaimFacts
    <2> QED
      BY <1>1, <2>1, <2>2, <2>4, ClaimFacts, ServedUndisturbed
  <1>2. ASSUME NEW m, SkipTask(w, m) PROVE ServedInv'
    <2>1. \A v \in Workers : worker'[v].at = "published" => worker'[v] = worker[v]
      BY <1>2 DEF SkipTask, TypeOK, Idle
    <2> QED
      BY <1>2, <2>1, ServedUndisturbed DEF SkipTask
  <1>3. CASE Finalize(w)
    <2>1. worker[w].at \in Stages /\ "published" \in Stages /\ TaskOf(w) \in Tasks /\ CorpusOf(w) \in Corpora
      BY <1>3, BusyType DEF Finalize, Stages, Working
    <2>2. /\ live'[CorpusOf(w)] = TaskOf(w)
          /\ \A c \in Corpora : c # CorpusOf(w) => live'[c] = live[c]
      BY <1>3, <2>1 DEF Finalize, TypeOK
    <2>3. \A v \in Workers : /\ worker'[v].msg = worker[v].msg
                             /\ v # w => worker'[v].at = worker[v].at
      BY <1>3, <2>1, StageMoves DEF Finalize
    <2> QED
      BY <1>3, <2>1, <2>2, <2>3, ServedUndisturbed DEF Finalize, TaskOf, CorpusOf
  <1>4. CASE ImportRaises(w)
    <2>1. worker[w].at \in Stages /\ TaskOf(w) \in Tasks /\ CorpusOf(w) \in Corpora
      BY <1>4, BusyType DEF ImportRaises, Stages, Working
    <2>2. PICK stage \in {"oserror", "failing"} : Goes(w, stage)
      BY <1>4 DEF ImportRaises
    <2>3. \A v \in Workers : /\ worker'[v].msg = worker[v].msg
                             /\ worker'[v].at = "published" => worker[v].at = "published"
      BY <2>1, <2>2, StageMoves DEF Stages, Working
    <2>4. \A c \in Corpora : live'[c] = live[c] \/ (live'[c] \in Tasks /\ corpusOf[live'[c]] = c)
      BY <1>4, <2>1 DEF ImportRaises, TypeOK, TaskOf, CorpusOf
    <2>5. \A c \in Corpora : live[c] # NoTask => live'[c] # NoTask
      BY <2>4
    <2>6. \A c \in Corpora : corpus'[c] = "ready" => corpus[c] = "ready"
      BY <1>4 DEF ImportRaises
    <2> QED
      BY <1>4, <2>3, <2>4, <2>6, ServedUndisturbed DEF ImportRaises
  <1>5. CASE MarkSuccess(w)
    <2>1. worker[w].at \in Stages /\ TaskOf(w) \in Tasks /\ CorpusOf(w) \in Corpora
      BY <1>5, BusyType DEF MarkSuccess, Stages, Working
    <2>2. PICK stage \in {"ended", "unaudited"} : Goes(w, stage)
      BY <1>5 DEF MarkSuccess
    <2>3. \A v \in Workers : /\ worker'[v].msg = worker[v].msg
                             /\ worker'[v].at = "published" => worker[v].at = "published"
      BY <2>1, <2>2, StageMoves DEF Stages, Working
    <2>4. /\ task[TaskOf(w)] \notin {"absent", "deleted"}
          /\ task'[TaskOf(w)] = "success"
          /\ \A t \in Tasks : t # TaskOf(w) => task'[t] = task[t]
      BY <1>5, <2>1 DEF MarkSuccess, TypeOK, AttemptInv, WorkedOnIsClaimed, Working
    <2>5. /\ corpus'[CorpusOf(w)] = "ready"
          /\ \A c \in Corpora : c # CorpusOf(w) => corpus'[c] = corpus[c]
          /\ UNCHANGED <<live, corpusOf>>
      BY <1>5, <2>1 DEF MarkSuccess, TypeOK
    <2>6. live[CorpusOf(w)] # NoTask
      BY <1>5, <2>4 DEF MarkSuccess, ServedInv, PublishedIsServed
    <2>7. "ready" \in Existing
      BY DEF Existing, CorpusStatuses
    <2>8. \A v \in Workers : worker[v].at = "published" =>
            (task'[TaskOf(v)] # "deleted" => task[TaskOf(v)] # "deleted")
      <3>1. \A v \in Workers : worker[v].at = "published" => TaskOf(v) \in Tasks
        BY BusyType DEF Stages, Working
      <3> QED
        BY <2>4, <3>1
    <2>9. \A c \in Corpora : (corpus[c] \in Existing => corpus'[c] \in Existing)
                             /\ (corpus'[c] = "ready" => corpus[c] = "ready" \/ live'[c] # NoTask)
      BY <2>5, <2>6, <2>7
    <2>10. \A t \in Tasks : task'[t] \notin {"absent", "deleted"} =>
                task[t] \notin {"absent", "deleted"} \/ corpus'[corpusOf[t]] \in Existing
      BY <2>4
    <2> QED
      BY <2>3, <2>5, <2>8, <2>9, <2>10, ServedUndisturbed
  <1>6. CASE MarkSuccessRaises(w)
    <2>1. PICK stage \in {"failing", "unaudited"} : Goes(w, stage)
      BY <1>6 DEF MarkSuccessRaises
    <2>2. \A v \in Workers : /\ worker'[v].msg = worker[v].msg
                             /\ worker'[v].at = "published" => worker[v].at = "published"
      BY <1>6, <2>1, StageMoves DEF MarkSuccessRaises, Stages, Working
    <2> QED
      BY <1>6, <2>2, ServedUndisturbed DEF MarkSuccessRaises
  <1>a. ASSUME worker[w].at \in Stages, task[TaskOf(w)] # "absent",
               Fails(TaskOf(w)) \/ Releases(TaskOf(w)), UNCHANGED <<corpusOf, live>>,
               NEW stage \in {"ended", "retry"}, Goes(w, stage)
        PROVE  ServedInv'
    <2>1. TaskOf(w) \in Tasks
      BY <1>a, BusyType
    <2>2. \A v \in Workers : /\ worker'[v].msg = worker[v].msg
                             /\ worker'[v].at = "published" => worker[v].at = "published"
      BY <1>a, StageMoves DEF Stages
    <2>3. \A t \in Tasks : (task'[t] = "deleted" <=> task[t] = "deleted")
      BY <1>a, <2>1, SettleFacts
    <2>4. \A t \in Tasks : task'[t] \notin {"absent", "deleted"} => task[t] \notin {"absent", "deleted"}
      BY <1>a, <2>1, SettleFacts
    <2>5. \A v \in Workers : worker[v].at = "published" => TaskOf(v) \in Tasks
      BY BusyType DEF Stages, Working
    <2>6. \A c \in Corpora : (corpus[c] \in Existing => corpus'[c] \in Existing)
                             /\ (corpus'[c] = "ready" => corpus[c] = "ready")
      BY <1>a, <2>1, SettleFacts
    <2> QED
      BY <1>a, <2>2, <2>3, <2>4, <2>5, <2>6, ServedUndisturbed
  <1>7. CASE MarkFailed(w)
    BY <1>7, <1>a DEF MarkFailed, AttemptInv, WorkedOnIsClaimed, Stages, Working
  <1>8. CASE MarkPendingForRetry(w)
    BY <1>8, <1>a DEF MarkPendingForRetry, AttemptInv, WorkedOnIsClaimed, Stages, Working
  <1>b. ASSUME worker[w].at \in Stages, Goes(w, "ended"), UNCHANGED <<task, corpusOf, corpus, live>>
        PROVE  ServedInv'
    <2>1. \A v \in Workers : /\ worker'[v].msg = worker[v].msg
                             /\ worker'[v].at = "published" => worker[v].at = "published"
      BY <1>b, StageMoves DEF Stages
    <2> QED
      BY <1>b, <2>1, ServedUndisturbed
  <1>9. CASE Retry(w)
    BY <1>9, <1>b DEF Retry, Stages
  <1>10. CASE MarkRetryExhausted(w)
    BY <1>10, <1>a, <1>b DEF MarkRetryExhausted, Stages, Active
  <1>11. CASE Acknowledge(w) \/ WorkerLost(w)
    <2>1. \A v \in Workers : worker'[v].at = "published" => worker'[v] = worker[v]
      BY <1>11 DEF Acknowledge, WorkerLost, TypeOK, Idle
    <2> QED
      BY <1>11, <2>1, ServedUndisturbed DEF Acknowledge, WorkerLost
  <1> QED
    BY <1>1, <1>2, <1>3, <1>4, <1>5, <1>6, <1>7, <1>8, <1>9, <1>10, <1>11
    DEF WorkerStep, Receive

LEMMA ServedStep ==
    ASSUME TypeOK, AttemptInv, ServedInv, [Next]_vars
    PROVE  ServedInv'
  <1>1. CASE UNCHANGED vars
    BY <1>1, ServedUndisturbed DEF vars, tableVars
  <1>2. ASSUME NEW t \in Tasks, OutboxSends(t) PROVE ServedInv'
    BY <1>2, ServedUndisturbed DEF OutboxSends, tableVars
  <1> QED
    BY <1>1, <1>2, ServedUserStep, ServedCorpusStep, ServedWorkerStep, NextCases

\* Whatever is lost, duplicated or retried: the index of a corpus is that of
\* one of its own tasks, and no corpus is ready without one.
LEMMA ServedInvariant == Spec => []ServedInv
  <1>1. Init => ServedInv
    BY DEF Init, ServedInv, TasksHaveCorpora, PublishedIsServed, ReadyIsServed, ServedByOwnTask, Idle
  <1> QED
    BY <1>1, ServedStep, TypeCorrect, AttemptInvariant, PTL DEF Spec

\* Search never opens a corpus that has no published index.
THEOREM ReadyCorporaAreServed == Spec => []ReadyIsServed
  <1>1. ServedInv => ReadyIsServed
    BY DEF ServedInv
  <1> QED
    BY <1>1, ServedInvariant, PTL

-----------------------------------------------------------------------------
(* One delivery of each message *)

\* The counts are never taken back.
CountersInv == losses \in Nat /\ auditFaults \in Nat

LEMMA CountersStep ==
    ASSUME TypeOK, CountersInv, [Next]_vars
    PROVE  /\ CountersInv'
           /\ OnceDelivered' => OnceDelivered /\ UNCHANGED <<losses, direct>>
           /\ auditFaults' = 0 => auditFaults = 0
  <1> USE DEF tableVars, queueVars, bounds, CountersInv
  <1>1. /\ losses' = losses \/ losses' = losses + 1
        /\ direct' = direct \/ \E t \in Tasks : direct' = direct \cup {t}
        /\ auditFaults' = auditFaults \/ auditFaults' = auditFaults + 1
        /\ sent' = sent \/ \E t \in Tasks : sent' = [sent EXCEPT ![t] = @ + 1]
    <2>1. CASE UNCHANGED vars
      BY <2>1 DEF vars
    <2>2. ASSUME NEW t \in Tasks, NEW c \in Corpora,
                 \/ \E u \in Users : UploadCorpus(t, c, u)
                 \/ RetryUserCorpus(t, c) \/ RequestProcessing(t, c)
          PROVE  <1>1
      BY <2>2 DEF UploadCorpus, RetryUserCorpus, RequestProcessing, CreateTask
    <2>3. ASSUME NEW c \in Corpora, RegisterCorpus(c) \/ OpenRetry(c) \/ RetryRefused(c)
                                    \/ DeleteUserCorpus(c) \/ DeleteUserCorpusFiles(c)
          PROVE  <1>1
      BY <2>3 DEF RegisterCorpus, OpenRetry, RetryRefused, DeleteUserCorpus, DeleteUserCorpusFiles
    <2>4. ASSUME NEW t \in Tasks, OutboxSends(t) PROVE <1>1
      BY <2>4 DEF OutboxSends
    <2>5. ASSUME NEW w \in Workers, WorkerStep(w) \/ WorkerLost(w) PROVE <1>1
      BY <2>5 DEF WorkerStep, Receive, MarkRunning, SkipTask, Finalize, ImportRaises, MarkSuccess,
                  MarkSuccessRaises, MarkFailed, MarkPendingForRetry, Retry, MarkRetryExhausted,
                  Acknowledge, WorkerLost
    <2> QED
      BY <2>1, <2>2, <2>3, <2>4, <2>5, NextCases
  <1>2. \A t \in Tasks : sent[t] \in Nat /\ sent[t] <= sent'[t]
    BY <1>1, BoundsAssumption DEF TypeOK
  <1>3. CountersInv'
    BY <1>1
  <1>4. ASSUME OnceDelivered' PROVE OnceDelivered /\ UNCHANGED <<losses, direct>>
    <2>1. ASSUME NEW t \in Tasks PROVE sent[t] <= 1
      <3>1. sent'[t] <= 1 /\ sent'[t] \in Nat
        BY <1>1, <1>2, <1>4 DEF OnceDelivered, TypeOK
      <3> QED
        BY <1>2, <3>1
    <2> QED
      BY <1>1, <1>4, <2>1 DEF OnceDelivered
  <1> QED
    BY <1>1, <1>3, <1>4

\* Between the claim and the end of its last attempt a process carries the task.
Carries(w) == worker[w].at \in Working \cup {"retry"}

UnsentIsWaiting == \A t \in Tasks : sent[t] = 0 => task[t] \in {"absent", "pending"}

\* A message in the queue is the only bearer of its task, which waits for it.
MessageIsOnly ==
    /\ \A m \in messages : sent[m.task] = 1 /\ task[m.task] = "pending"
    /\ \A m, n \in messages : m.task = n.task => m = n
    /\ \A m \in messages, w \in Workers : Carries(w) => m.task # TaskOf(w)

CarrierIsOnly ==
    /\ \A w \in Workers : worker[w].at # "called"
    /\ \A w \in Workers : Carries(w) => sent[TaskOf(w)] = 1
    /\ \A v, w \in Workers : Carries(v) /\ Carries(w) /\ TaskOf(v) = TaskOf(w) => v = w

\* The row of a task says at which stage its process is.
StageIsStatus ==
    \A w \in Workers :
        /\ worker[w].at \in Working \ {"unaudited"} => task[TaskOf(w)] = "running"
        /\ worker[w].at = "retry" => task[TaskOf(w)] = "pending"

DeletedIsUnserved == \A c \in Corpora : corpus[c] = "deleted" => live[c] = NoTask

OnceInv == UnsentIsWaiting /\ MessageIsOnly /\ CarrierIsOnly /\ StageIsStatus /\ DeletedIsUnserved

\* Steps that leave the queue alone and make nobody carry a task.
LEMMA OnceUndisturbed ==
    ASSUME TypeOK, OnceInv, UNCHANGED <<corpusOf, sent, messages>>,
           \A v \in Workers :
                /\ worker'[v].at # "called"
                /\ worker'[v].at \in Working \cup {"retry"} =>
                     Carries(v) /\ worker'[v].msg = worker[v].msg,
           \A t \in Tasks : sent[t] = 0 => task'[t] \in {"absent", "pending"},
           \A m \in messages : task'[m.task] = "pending",
           StageIsStatus', DeletedIsUnserved'
    PROVE  OnceInv'
  <1>1. UnsentIsWaiting'
    BY DEF UnsentIsWaiting
  <1>2. MessageIsOnly'
    BY DEF OnceInv, MessageIsOnly, Carries, TaskOf
  <1>3. CarrierIsOnly'
    BY DEF OnceInv, CarrierIsOnly, Carries, TaskOf
  <1> QED
    BY <1>1, <1>2, <1>3 DEF OnceInv

\* A carrier moves on and settles its own task at most.
LEMMA OnceStage ==
    ASSUME TypeOK, OnceInv, NEW w \in Workers, Carries(w),
           NEW stage \in Working \cup {"retry", "ended"}, Goes(w, stage),
           UNCHANGED <<corpusOf, sent, messages>>,
           \A t \in Tasks : t # TaskOf(w) => task'[t] = task[t],
           stage \in Working \ {"unaudited"} => task'[TaskOf(w)] = "running",
           stage = "retry" => task'[TaskOf(w)] = "pending",
           DeletedIsUnserved'
    PROVE  OnceInv'
  <1>1. worker[w].at \in Stages /\ stage \in Stages
    BY DEF Carries, Stages
  <1>2. \A v \in Workers :
            /\ worker'[v].msg = worker[v].msg
            /\ worker'[v].at = IF v = w THEN stage ELSE worker[v].at
    BY <1>1, StageMoves
  <1>3. \A v \in Workers : Carries(v) => TaskOf(v) \in Tasks
    BY BusyType DEF Carries, Stages
  <1>4. \A t \in Tasks : sent[t] = 0 => task'[t] \in {"absent", "pending"}
    BY <1>3 DEF OnceInv, UnsentIsWaiting, CarrierIsOnly
  <1>5. \A m \in messages : task'[m.task] = "pending"
    BY DEF OnceInv, MessageIsOnly, TypeOK, Messages
  <1>6. StageIsStatus'
    <2> SUFFICES ASSUME NEW v \in Workers
                 PROVE  /\ worker'[v].at \in Working \ {"unaudited"} => task'[worker'[v].msg.task] = "running"
                        /\ worker'[v].at = "retry" => task'[worker'[v].msg.task] = "pending"
      BY DEF StageIsStatus, TaskOf
    <2>1. CASE v = w
      BY <2>1, <1>2 DEF TaskOf
    <2>2. CASE v # w /\ ~Carries(v)
      BY <2>2, <1>2 DEF Carries
    <2>3. CASE v # w /\ Carries(v)
      <3>1. TaskOf(v) \in Tasks /\ TaskOf(v) # TaskOf(w)
        BY <2>3, <1>3 DEF OnceInv, CarrierIsOnly
      <3> QED
        BY <2>3, <3>1, <1>2 DEF OnceInv, StageIsStatus, TaskOf
    <2> QED
      BY <2>1, <2>2, <2>3
  <1>7. \A v \in Workers :
            /\ worker'[v].at # "called"
            /\ worker'[v].at \in Working \cup {"retry"} =>
                     Carries(v) /\ worker'[v].msg = worker[v].msg
    BY <1>2 DEF OnceInv, CarrierIsOnly, Carries, Working
  <1> QED
    BY <1>4, <1>5, <1>6, <1>7, OnceUndisturbed

\* A new task has no message yet, and no process carries it.
LEMMA OnceUserStep ==
    ASSUME TypeOK, AttemptInv, OnceInv, direct' = {}, NEW t \in Tasks, NEW c \in Corpora,
           \/ \E u \in Users : UploadCorpus(t, c, u)
           \/ RetryUserCorpus(t, c) \/ RequestProcessing(t, c)
    PROVE  OnceInv'
  <1>1. /\ task[t] = "absent"
        /\ task' = [task EXCEPT ![t] = "pending"]
        /\ corpus' = [corpus EXCEPT ![c] = "pending_processing"]
        /\ UNCHANGED <<corpusOf, live, sent, messages>>
    BY DEF UploadCorpus, RetryUserCorpus, RequestProcessing, CreateTask, queueVars
  <1>2. UNCHANGED worker
    BY DEF UploadCorpus, RetryUserCorpus, RequestProcessing
  <1>3. task'[t] = "pending" /\ \A s \in Tasks : s # t => task'[s] = task[s]
    BY <1>1 DEF TypeOK
  <1>4. \A v \in Workers : Carries(v) => TaskOf(v) \in Tasks /\ task[TaskOf(v)] # "absent"
    BY BusyType DEF AttemptInv, WorkedOnIsClaimed, OnceInv, StageIsStatus, Carries, Stages
  <1>5. \A m \in messages : m.task \in Tasks /\ m.task # t
    BY <1>1 DEF OnceInv, MessageIsOnly, TypeOK, Messages
  <1>6. StageIsStatus'
    BY <1>1, <1>2, <1>3, <1>4 DEF OnceInv, StageIsStatus, TaskOf, Carries
  <1>7. DeletedIsUnserved'
    BY <1>1 DEF OnceInv, DeletedIsUnserved, TypeOK
  <1>8. \A m \in messages : task'[m.task] = "pending"
    BY <1>3, <1>5 DEF OnceInv, MessageIsOnly
  <1>9. \A s \in Tasks : sent[s] = 0 => task'[s] \in {"absent", "pending"}
    BY <1>3 DEF OnceInv, UnsentIsWaiting
  <1>10. \A v \in Workers : worker[v].at # "called"
    BY DEF OnceInv, CarrierIsOnly
  <1> QED
    BY <1>1, <1>2, <1>6, <1>7, <1>8, <1>9, <1>10, OnceUndisturbed DEF Carries

\* Deletion waits for the tasks that anyone bears, and takes the index with it.
LEMMA OnceCorpusStep ==
    ASSUME TypeOK, OnceInv, CountersInv, UNCHANGED losses, NEW c \in Corpora,
           RegisterCorpus(c) \/ OpenRetry(c) \/ RetryRefused(c)
           \/ DeleteUserCorpus(c) \/ DeleteUserCorpusFiles(c)
    PROVE  OnceInv'
  <1> USE DEF queueVars, bounds
  <1>1. UNCHANGED <<corpusOf, sent, messages, worker>>
    BY DEF RegisterCorpus, OpenRetry, RetryRefused, DeleteUserCorpus, DeleteUserCorpusFiles
  <1>2. \A t \in Tasks : task[t] \in {"absent", "pending", "running"} => task'[t] = task[t]
    <2>1. CASE DeleteUserCorpus(c)
      BY <2>1 DEF DeleteUserCorpus, Deletable, ActiveOf, Active
    <2> QED
      BY <2>1 DEF RegisterCorpus, OpenRetry, RetryRefused, DeleteUserCorpusFiles
  <1>3. \A v \in Workers : Carries(v) => TaskOf(v) \in Tasks
    BY BusyType DEF Carries, Stages
  <1>4. StageIsStatus'
    BY <1>1, <1>2, <1>3 DEF OnceInv, StageIsStatus, TaskOf, Carries
  <1>5. DeletedIsUnserved'
    <2>1. CASE DeleteUserCorpusFiles(c)
      BY <2>1 DEF DeleteUserCorpusFiles, OnceInv, DeletedIsUnserved, TypeOK, CountersInv
    <2>2. CASE RegisterCorpus(c)
      BY <2>2 DEF RegisterCorpus, OnceInv, DeletedIsUnserved, TypeOK
    <2>3. CASE DeleteUserCorpus(c)
      BY <2>3 DEF DeleteUserCorpus, OnceInv, DeletedIsUnserved, TypeOK
    <2>4. CASE OpenRetry(c) \/ RetryRefused(c)
      BY <2>4 DEF OpenRetry, RetryRefused, OnceInv, DeletedIsUnserved
    <2> QED
      BY <2>1, <2>2, <2>3, <2>4
  <1>6. \A m \in messages : task'[m.task] = "pending"
    BY <1>2 DEF OnceInv, MessageIsOnly, TypeOK, Messages
  <1>7. \A s \in Tasks : sent[s] = 0 => task'[s] \in {"absent", "pending"}
    BY <1>2 DEF OnceInv, UnsentIsWaiting
  <1>8. \A v \in Workers : worker[v].at # "called"
    BY DEF OnceInv, CarrierIsOnly
  <1> QED
    BY <1>1, <1>4, <1>5, <1>6, <1>7, <1>8, OnceUndisturbed DEF Carries

\* The first message of a task nobody bears.
LEMMA OnceSendStep ==
    ASSUME TypeOK, OnceInv, OnceDelivered', NEW t \in Tasks, OutboxSends(t)
    PROVE  OnceInv'
  <1> DEFINE new == [task |-> t, copy |-> sent[t] + 1, retries |-> 0]
  <1>1. /\ task[t] # "absent"
        /\ sent' = [sent EXCEPT ![t] = @ + 1]
        /\ messages' = messages \cup {new}
        /\ UNCHANGED <<task, corpusOf, corpus, live, worker>>
    BY DEF OutboxSends, tableVars
  <1>2. sent[t] = 0 /\ sent'[t] = 1 /\ \A s \in Tasks : s # t => sent'[s] = sent[s]
    BY <1>1, BoundsAssumption DEF TypeOK, OnceDelivered
  <1>3. task[t] = "pending"
    BY <1>1, <1>2 DEF OnceInv, UnsentIsWaiting
  <1>4. \A v \in Workers : Carries(v) => TaskOf(v) \in Tasks /\ TaskOf(v) # t
    BY <1>2, BusyType DEF OnceInv, CarrierIsOnly, Carries, Stages
  <1>5. \A m \in messages : m.task \in Tasks /\ m.task # t
    BY <1>2 DEF OnceInv, MessageIsOnly, TypeOK, Messages
  <1>6. new.task = t
    OBVIOUS
  <1> HIDE DEF new
  <1>7. UnsentIsWaiting'
    BY <1>1, <1>2 DEF OnceInv, UnsentIsWaiting
  <1>8. MessageIsOnly'
    <2>1. \A m \in messages' : sent'[m.task] = 1 /\ task'[m.task] = "pending"
      BY <1>1, <1>2, <1>3, <1>5, <1>6 DEF OnceInv, MessageIsOnly
    <2>2. \A m, n \in messages' : m.task = n.task => m = n
      BY <1>1, <1>5, <1>6 DEF OnceInv, MessageIsOnly
    <2>3. \A m \in messages', v \in Workers : Carries(v) => m.task # TaskOf(v)
      BY <1>1, <1>4, <1>6 DEF OnceInv, MessageIsOnly
    <2> QED
      BY <1>1, <2>1, <2>2, <2>3 DEF MessageIsOnly, Carries, TaskOf
  <1>9. CarrierIsOnly'
    BY <1>1, <1>2, <1>4 DEF OnceInv, CarrierIsOnly, Carries, TaskOf
  <1> QED
    BY <1>1, <1>7, <1>8, <1>9 DEF OnceInv, StageIsStatus, DeletedIsUnserved, TaskOf

\* Every receipt is a claim; a claim makes the message's place the process.
LEMMA OnceClaimStep ==
    ASSUME TypeOK, ServedInv, OnceInv, NEW w \in Workers, NEW m, MarkRunning(w, m)
    PROVE  OnceInv'
  <1>1. m \in messages /\ m.task \in Tasks /\ sent[m.task] = 1
    <2>1. m \in messages
      BY DEF MarkRunning, Receives, OnceInv, CarrierIsOnly
    <2> QED
      BY <2>1, ClaimFacts DEF OnceInv, MessageIsOnly
  <1>2. \A v \in Workers : Carries(v) => TaskOf(v) \in Tasks /\ TaskOf(v) # m.task
    BY <1>1, BusyType DEF OnceInv, MessageIsOnly, Carries, Stages
  <1>3. \A n \in messages' : n \in messages /\ n.task \in Tasks /\ n.task # m.task
    BY <1>1, ClaimFacts DEF OnceInv, MessageIsOnly, TypeOK, Messages
  <1>4. \A v \in Workers : v # w => worker'[v] = worker[v]
    BY ClaimFacts
  <1>5. worker'[w].at = "importing" /\ worker'[w].msg = m
    BY ClaimFacts
  <1>6. task'[m.task] = "running" /\ \A t \in Tasks : t # m.task => task'[t] = task[t]
    BY ClaimFacts
  <1>7. UNCHANGED <<sent, live, corpusOf>>
    BY ClaimFacts
  <1>8. UnsentIsWaiting'
    BY <1>1, <1>6, <1>7 DEF OnceInv, UnsentIsWaiting
  <1>9. MessageIsOnly'
    BY <1>1, <1>2, <1>3, <1>4, <1>5, <1>6, <1>7 DEF OnceInv, MessageIsOnly, Carries, TaskOf
  <1>10. CarrierIsOnly'
    <2>1. \A v \in Workers : worker'[v].at # "called"
      BY <1>4, <1>5 DEF OnceInv, CarrierIsOnly
    <2>2. \A v \in Workers : Carries(v)' => sent'[TaskOf(v)'] = 1
      BY <1>1, <1>4, <1>5, <1>7 DEF OnceInv, CarrierIsOnly, Carries, TaskOf
    <2>3. \A u, v \in Workers : Carries(u)' /\ Carries(v)' /\ TaskOf(u)' = TaskOf(v)' => u = v
      BY <1>2, <1>4, <1>5 DEF OnceInv, CarrierIsOnly, Carries, TaskOf
    <2> QED
      BY <2>1, <2>2, <2>3 DEF CarrierIsOnly
  <1>11. StageIsStatus'
    <2> SUFFICES ASSUME NEW v \in Workers
                 PROVE  /\ worker'[v].at \in Working \ {"unaudited"} => task'[worker'[v].msg.task] = "running"
                        /\ worker'[v].at = "retry" => task'[worker'[v].msg.task] = "pending"
      BY DEF StageIsStatus, TaskOf
    <2>1. CASE v = w
      BY <2>1, <1>5, <1>6
    <2>2. CASE v # w
      BY <2>2, <1>2, <1>4, <1>6 DEF OnceInv, StageIsStatus, Carries, TaskOf
    <2> QED
      BY <2>1, <2>2
  <1>12. DeletedIsUnserved'
    BY <1>7, ClaimFacts DEF OnceInv, DeletedIsUnserved
  <1> QED
    BY <1>8, <1>9, <1>10, <1>11, <1>12 DEF OnceInv

\* A retry gives the task back to the queue.
LEMMA OnceRetryStep ==
    ASSUME TypeOK, OnceInv, CountersInv, UNCHANGED losses, NEW w \in Workers, Retry(w)
    PROVE  OnceInv'
  <1> DEFINE m == worker[w].msg
             new == [m EXCEPT !.retries = @ + 1]
  <1>1. /\ worker[w].at = "retry"
        /\ messages' = messages \cup {new}
        /\ Goes(w, "ended")
        /\ UNCHANGED <<task, corpusOf, corpus, live, sent>>
    BY DEF Retry, CountersInv, tableVars
  <1>2. m \in Messages /\ m.task = TaskOf(w) /\ TaskOf(w) \in Tasks
    BY <1>1, BusyType DEF Stages, TaskOf
  <1>3. new.task = TaskOf(w)
    BY <1>2 DEF Messages
  <1>4. \A v \in Workers :
            /\ worker'[v].msg = worker[v].msg
            /\ worker'[v].at = IF v = w THEN "ended" ELSE worker[v].at
    BY <1>1, StageMoves DEF Stages
  <1>5. Carries(w) /\ sent[TaskOf(w)] = 1 /\ task[TaskOf(w)] = "pending"
    BY <1>1 DEF Carries, OnceInv, CarrierIsOnly, StageIsStatus
  <1>6. \A n \in messages : n.task # TaskOf(w)
    BY <1>5 DEF OnceInv, MessageIsOnly
  <1> HIDE DEF m, new
  <1>7. MessageIsOnly'
    <2>1. \A n \in messages' : sent'[n.task] = 1 /\ task'[n.task] = "pending"
      BY <1>1, <1>3, <1>5 DEF OnceInv, MessageIsOnly
    <2>2. \A n, o \in messages' : n.task = o.task => n = o
      BY <1>1, <1>3, <1>6 DEF OnceInv, MessageIsOnly
    <2>3. \A n \in messages', v \in Workers : Carries(v)' => n.task # TaskOf(v)'
      BY <1>1, <1>3, <1>4, <1>5 DEF OnceInv, MessageIsOnly, CarrierIsOnly, Carries, TaskOf, Working
    <2> QED
      BY <2>1, <2>2, <2>3 DEF MessageIsOnly
  <1>8. CarrierIsOnly'
    BY <1>1, <1>4 DEF OnceInv, CarrierIsOnly, Carries, TaskOf, Working
  <1>9. StageIsStatus'
    BY <1>1, <1>4 DEF OnceInv, StageIsStatus, TaskOf, Working
  <1> QED
    BY <1>1, <1>7, <1>8, <1>9 DEF OnceInv, UnsentIsWaiting, DeletedIsUnserved

\* The other steps of a process, none of which publishes for a deleted corpus.
LEMMA OnceWorkerStep ==
    ASSUME TypeOK, AttemptInv, ServedInv, OnceInv, CountersInv, UNCHANGED losses,
           NEW w \in Workers, WorkerStep(w) \/ WorkerLost(w)
    PROVE  OnceInv'
  <1> USE DEF tableVars, queueVars, bounds
  <1>a. ASSUME Carries(w)
        PROVE  TaskOf(w) \in Tasks /\ CorpusOf(w) \in Corpora /\ task[TaskOf(w)] # "absent"
    BY <1>a, BusyType DEF Carries, Stages, AttemptInv, WorkedOnIsClaimed, OnceInv, StageIsStatus
  <1>1. ASSUME NEW m, MarkRunning(w, m) PROVE OnceInv'
    BY <1>1, OnceClaimStep
  <1>2. ASSUME NEW m, SkipTask(w, m) PROVE OnceInv'
    BY <1>2 DEF SkipTask, Receives, Claimable, OnceInv, MessageIsOnly, CarrierIsOnly
  <1>b. ASSUME worker[w].at = "importing",
               live' \in {live, [live EXCEPT ![CorpusOf(w)] = TaskOf(w)]}, UNCHANGED corpus
        PROVE  DeletedIsUnserved'
    <2>1. Carries(w) /\ task[TaskOf(w)] = "running"
      BY <1>b DEF Carries, Working, OnceInv, StageIsStatus
    <2>2. corpus[CorpusOf(w)] \in Existing
      BY <2>1, <1>a DEF ServedInv, TasksHaveCorpora, CorpusOf
    <2> QED
      BY <1>b, <2>1, <2>2, <1>a DEF OnceInv, DeletedIsUnserved, TypeOK, Existing
  <1>3. CASE Finalize(w)
    <2>1. DeletedIsUnserved'
      BY <1>3, <1>b DEF Finalize
    <2>2. worker[w].at = "importing" /\ Carries(w) /\ task[TaskOf(w)] = "running"
      BY <1>3 DEF Finalize, Carries, Working, OnceInv, StageIsStatus
    <2> QED
      BY <1>3, <2>1, <2>2, OnceStage DEF Finalize, Working
  <1>4. CASE ImportRaises(w)
    <2>1. DeletedIsUnserved'
      BY <1>4, <1>b DEF ImportRaises
    <2>2. worker[w].at = "importing" /\ Carries(w) /\ task[TaskOf(w)] = "running"
      BY <1>4 DEF ImportRaises, Carries, Working, OnceInv, StageIsStatus
    <2> QED
      BY <1>4, <2>1, <2>2, OnceStage DEF ImportRaises, Working
  <1>5. CASE MarkSuccess(w)
    <2>1. Carries(w)
      BY <1>5 DEF MarkSuccess, Carries, Working
    <2>2. PICK stage \in {"ended", "unaudited"} : Goes(w, stage)
      BY <1>5 DEF MarkSuccess
    <2>3. DeletedIsUnserved'
      BY <1>5, <2>1, <1>a DEF MarkSuccess, OnceInv, DeletedIsUnserved, TypeOK
    <2>4. \A t \in Tasks : t # TaskOf(w) => task'[t] = task[t]
      BY <1>5, <2>1, <1>a DEF MarkSuccess, TypeOK
    <2>5. stage \in Working \cup {"retry", "ended"} /\ stage \notin Working \ {"unaudited"} /\ stage # "retry"
      BY DEF Working
    <2>6. UNCHANGED <<corpusOf, sent, messages>>
      BY <1>5 DEF MarkSuccess
    <2> QED
      BY <2>1, <2>2, <2>3, <2>4, <2>5, <2>6, OnceStage
  <1>6. CASE MarkSuccessRaises(w)
    <2>1. Carries(w) /\ task[TaskOf(w)] = "running"
      BY <1>6 DEF MarkSuccessRaises, Carries, Working, OnceInv, StageIsStatus
    <2>2. DeletedIsUnserved'
      BY <1>6 DEF MarkSuccessRaises, OnceInv, DeletedIsUnserved
    <2>3. Goes(w, "unaudited") /\ UNCHANGED <<task, corpusOf, sent, messages>>
      BY <1>6, <2>1 DEF MarkSuccessRaises
    <2> QED
      BY <2>1, <2>2, <2>3, OnceStage DEF Working
  <1>c. ASSUME Carries(w), Fails(TaskOf(w)) \/ Releases(TaskOf(w)), UNCHANGED live
        PROVE  /\ DeletedIsUnserved'
               /\ \A t \in Tasks : t # TaskOf(w) => task'[t] = task[t]
    BY <1>c, <1>a, SettleFacts DEF OnceInv, DeletedIsUnserved
  <1>7. CASE MarkFailed(w)
    <2>1. Carries(w)
      BY <1>7 DEF MarkFailed, Carries, Working
    <2> QED
      BY <1>7, <2>1, <1>c, OnceStage DEF MarkFailed, Working
  <1>8. CASE MarkPendingForRetry(w)
    <2>1. Carries(w) /\ task[TaskOf(w)] = "running"
      BY <1>8 DEF MarkPendingForRetry, Carries, Working, OnceInv, StageIsStatus
    <2>2. PICK stage \in {"ended", "retry"} : Goes(w, stage)
      BY <1>8 DEF MarkPendingForRetry
    <2>3. task'[TaskOf(w)] = "pending"
      BY <1>8, <2>1, <1>a DEF MarkPendingForRetry, Releases, TypeOK
    <2>4. stage \in Working \cup {"retry", "ended"} /\ stage \notin Working
      BY DEF Working
    <2> QED
      BY <1>8, <2>1, <2>2, <2>3, <2>4, <1>c, OnceStage DEF MarkPendingForRetry
  <1>9. CASE Retry(w)
    BY <1>9, OnceRetryStep
  <1>10. CASE MarkRetryExhausted(w)
    <2>1. Carries(w) /\ task[TaskOf(w)] = "pending"
      BY <1>10 DEF MarkRetryExhausted, Carries, OnceInv, StageIsStatus
    <2>2. Fails(TaskOf(w)) /\ Goes(w, "ended")
      BY <1>10, <2>1 DEF MarkRetryExhausted, Active
    <2> QED
      BY <1>10, <2>1, <2>2, <1>c, OnceStage DEF MarkRetryExhausted, Working
  <1>11. CASE Acknowledge(w)
    <2>1. worker' = [worker EXCEPT ![w] = Idle] /\ UNCHANGED <<task, corpusOf, corpus, live, sent, messages>>
      BY <1>11 DEF Acknowledge
    <2>2. \A v \in Workers : worker'[v] = IF v = w THEN Idle ELSE worker[v]
      BY <2>1 DEF TypeOK
    <2>3. \A v \in Workers :
            /\ worker'[v].at # "called"
            /\ worker'[v].at \in Working \cup {"retry"} => Carries(v) /\ worker'[v] = worker[v]
      BY <2>2 DEF Idle, OnceInv, CarrierIsOnly, Working, Carries
    <2>4. StageIsStatus'
      BY <2>1, <2>3 DEF OnceInv, StageIsStatus, TaskOf, Working
    <2>5. DeletedIsUnserved' /\ UnsentIsWaiting'
      BY <2>1 DEF OnceInv, DeletedIsUnserved, UnsentIsWaiting
    <2> QED
      BY <2>1, <2>3, <2>4, <2>5, OnceUndisturbed DEF OnceInv, MessageIsOnly, UnsentIsWaiting
  <1>12. CASE WorkerLost(w)
    BY <1>12 DEF WorkerLost, CountersInv
  <1> QED
    BY <1>1, <1>2, <1>3, <1>4, <1>5, <1>6, <1>7, <1>8, <1>9, <1>10, <1>11, <1>12
    DEF WorkerStep, Receive

LEMMA OnceStep ==
    ASSUME TypeOK, AttemptInv, ServedInv, CountersInv, OnceDelivered => OnceInv, [Next]_vars
    PROVE  OnceDelivered' => OnceInv'
  <1> SUFFICES ASSUME OnceDelivered' PROVE OnceInv'
    OBVIOUS
  <1>1. OnceDelivered /\ OnceInv /\ UNCHANGED <<losses, direct>> /\ direct' = {}
    BY CountersStep DEF OnceDelivered
  <1>2. CASE UNCHANGED vars
    BY <1>1, <1>2 DEF vars, tableVars, queueVars, OnceInv, UnsentIsWaiting, MessageIsOnly,
                      CarrierIsOnly, StageIsStatus, DeletedIsUnserved, Carries, TaskOf
  <1> QED
    BY <1>1, <1>2, OnceUserStep, OnceCorpusStep, OnceSendStep, OnceWorkerStep, NextCases
    DEF CountersInv

\* While every message is delivered once, each task has one bearer, whose stage
\* its row records.
LEMMA OnceInvariant == Spec => [](CountersInv /\ (OnceDelivered => OnceInv))
  <1>1. Init => CountersInv /\ (OnceDelivered => OnceInv)
    BY DEF Init, CountersInv, OnceInv, UnsentIsWaiting, MessageIsOnly, CarrierIsOnly, StageIsStatus,
           DeletedIsUnserved, Carries, Working, Idle
  <1> QED
    BY <1>1, CountersStep, OnceStep, TypeCorrect, AttemptInvariant, ServedInvariant, PTL DEF Spec

\* With one delivery of each message, deleting a corpus leaves no index behind:
\* nobody publishes afterwards.  A ready corpus has its index in any case.
THEOREM DeletedCorporaStayUnserved == Spec => []IndexMatchesStatus
  <1>1. ServedInv /\ (OnceDelivered => OnceInv) => IndexMatchesStatus
    BY DEF ServedInv, ReadyIsServed, OnceInv, DeletedIsUnserved, IndexMatchesStatus
  <1> QED
    BY <1>1, ServedInvariant, OnceInvariant, PTL

-----------------------------------------------------------------------------
(* The three tables *)

\* TablesAgree for one corpus, with the corpora that do not exist yet.
Agrees(c) ==
    Owner[c] # NoUser =>
        /\ \A t \in Tasks : corpusOf[t] = c =>
            /\ task[t] = "pending" => corpus[c] = "pending_processing" /\ files[c] # "processing"
            /\ task[t] = "running" => corpus[c] = "processing" /\ files[c] = "processing"
        /\ ActiveOf(c) = {} /\ corpus[c] \in Existing =>
             /\ corpus[c] \in {"ready", "failed"}
             /\ files[c] # "processing"
             /\ corpus[c] = "ready" => task[live[c]] = "success"
        /\ corpus[c] = "absent" => files[c] # "processing"

\* The index a process has just published is its own, and no finished task is
\* put back by a failed audit.
TablesInv ==
    /\ \A w \in Workers : worker[w].at # "unaudited"
    /\ \A w \in Workers : worker[w].at = "published" => live[CorpusOf(w)] = TaskOf(w)
    /\ \A c \in Corpora : Agrees(c)

\* A corpus whose rows and index a step leaves alone agrees as before.
LEMMA AgreesElsewhere ==
    ASSUME TypeOK, ServedInv, NEW c \in Corpora, Agrees(c), UNCHANGED corpusOf,
           corpus'[c] = corpus[c], files'[c] = files[c], live'[c] = live[c],
           \A t \in Tasks : corpusOf[t] = c => task'[t] = task[t]
    PROVE  Agrees(c)'
  <1>1. ActiveOf(c)' = ActiveOf(c)
    BY DEF ActiveOf
  <1>2. corpus[c] = "ready" => task'[live[c]] = task[live[c]]
    BY DEF ServedInv, ReadyIsServed, ServedByOwnTask
  <1> QED
    BY <1>1, <1>2 DEF Agrees

\* A corpus agrees when its one unfinished task does.
LEMMA AgreesActive ==
    ASSUME TypeOK', NEW t \in Tasks, NEW c \in Corpora, corpusOf'[t] = c,
           \A s \in Tasks : s # t /\ corpusOf'[s] = c => task'[s] \notin Active,
           \/ task'[t] = "pending" /\ corpus'[c] = "pending_processing" /\ files'[c] # "processing"
           \/ task'[t] = "running" /\ corpus'[c] = "processing" /\ files'[c] = "processing"
    PROVE  Agrees(c)'
  <1>1. ActiveOf(c)' # {}
    BY DEF ActiveOf, Active
  <1> QED
    BY <1>1 DEF Agrees, Active

\* A corpus agrees when no task is left and the last one settled its rows.
LEMMA AgreesSettled ==
    ASSUME TypeOK', NEW c \in Corpora,
           \A s \in Tasks : corpusOf'[s] = c => task'[s] \notin Active,
           \/ corpus'[c] \in {"deleting", "deleted"}
           \/ /\ corpus'[c] \in {"ready", "failed"}
              /\ files'[c] # "processing"
              /\ corpus'[c] = "ready" => task'[live'[c]] = "success"
    PROVE  Agrees(c)'
  BY DEF Agrees, Active, Existing

LEMMA OthersInactive ==
    ASSUME OneActiveTask, NEW t \in Tasks, task[t] \in Active
    PROVE  \A s \in Tasks : s # t /\ corpusOf[s] = corpusOf[t] => task[s] \notin Active
  BY DEF OneActiveTask

\* A new task finds the files of its corpus unoccupied.
LEMMA TablesUserStep ==
    ASSUME TypeOK, TypeOK', ServedInv, OnceInv, TablesInv, direct' = {},
           NEW t \in Tasks, NEW c \in Corpora,
           \/ \E u \in Users : UploadCorpus(t, c, u)
           \/ RetryUserCorpus(t, c) \/ RequestProcessing(t, c)
    PROVE  TablesInv'
  <1>1. /\ task[t] = "absent" /\ corpusOf[t] = c /\ ActiveOf(c) = {}
        /\ task' = [task EXCEPT ![t] = "pending"]
        /\ corpus' = [corpus EXCEPT ![c] = "pending_processing"]
        /\ UNCHANGED <<corpusOf, live>>
    BY DEF UploadCorpus, RetryUserCorpus, RequestProcessing, CreateTask, Accepts
  <1>2. UNCHANGED worker
    BY DEF UploadCorpus, RetryUserCorpus, RequestProcessing
  <1>3. task'[t] = "pending" /\ \A s \in Tasks : s # t => task'[s] = task[s]
    BY <1>1 DEF TypeOK
  <1>4. files' = files \/ files' = [files EXCEPT ![c] = "pending"]
    BY DEF UploadCorpus, RetryUserCorpus, RequestProcessing
  <1>5. ASSUME NEW d \in Corpora PROVE Agrees(d)'
    <2>1. CASE d # c
      <3>1. /\ corpus'[d] = corpus[d] /\ files'[d] = files[d] /\ live'[d] = live[d]
            /\ \A s \in Tasks : corpusOf[s] = d => task'[s] = task[s]
        BY <2>1, <1>1, <1>3, <1>4 DEF TypeOK
      <3> QED
        BY <3>1, <1>1, AgreesElsewhere DEF TablesInv
    <2>2. CASE d = c /\ Owner[c] = NoUser
      BY <2>2 DEF Agrees
    <2>3. CASE d = c /\ Owner[c] # NoUser
      <3>1. files'[c] # "processing"
        <4>1. Agrees(c)
          BY DEF TablesInv
        <4> QED
          BY <2>3, <4>1, <1>1, <1>4 DEF UploadCorpus, RetryUserCorpus, RequestProcessing, Agrees, TypeOK
      <3>2. corpus'[c] = "pending_processing"
        BY <1>1 DEF TypeOK
      <3>3. \A s \in Tasks : s # t /\ corpusOf'[s] = c => task'[s] \notin Active
        BY <1>1, <1>3 DEF ActiveOf
      <3> QED
        BY <2>3, <3>1, <3>2, <3>3, <1>1, <1>3, AgreesActive
    <2> QED
      BY <2>1, <2>2, <2>3
  <1> QED
    BY <1>1, <1>2, <1>5 DEF TablesInv, TaskOf, CorpusOf

\* Registration is for the corpora without an owner; a deleted corpus has no
\* task left, so that nobody's index goes with it.
LEMMA TablesCorpusStep ==
    ASSUME TypeOK, TypeOK', ServedInv, OnceInv, TablesInv, NEW c \in Corpora,
           RegisterCorpus(c) \/ OpenRetry(c) \/ RetryRefused(c)
           \/ DeleteUserCorpus(c) \/ DeleteUserCorpusFiles(c)
    PROVE  TablesInv'
  <1>1. CASE OpenRetry(c) \/ RetryRefused(c)
    <2>1. UNCHANGED <<task, corpusOf, corpus, files, live, worker>>
      BY <1>1 DEF OpenRetry, RetryRefused
    <2> QED
      BY <2>1 DEF TablesInv, Agrees, ActiveOf, TaskOf, CorpusOf
  <1>a. ASSUME UNCHANGED <<corpusOf, worker>>,
               \A v \in Workers : worker[v].at = "published" => live'[CorpusOf(v)] = live[CorpusOf(v)],
               \A d \in Corpora : d # c =>
                    /\ corpus'[d] = corpus[d] /\ files'[d] = files[d] /\ live'[d] = live[d]
                    /\ \A s \in Tasks : corpusOf[s] = d => task'[s] = task[s],
               Agrees(c)'
        PROVE  TablesInv'
    <2>1. \A d \in Corpora : d # c => Agrees(d)'
      BY <1>a, AgreesElsewhere DEF TablesInv
    <2> QED
      BY <1>a, <2>1 DEF TablesInv, TaskOf, CorpusOf
  <1>2. CASE RegisterCorpus(c)
    <2>1. Agrees(c)'
      BY <1>2 DEF RegisterCorpus, Agrees
    <2>2. UNCHANGED <<task, corpusOf, worker, live>>
      BY <1>2 DEF RegisterCorpus
    <2>3. \A d \in Corpora : d # c => corpus'[d] = corpus[d] /\ files'[d] = files[d]
      BY <1>2 DEF RegisterCorpus, TypeOK
    <2> QED
      BY <2>1, <2>2, <2>3, <1>a
  <1>3. CASE DeleteUserCorpus(c)
    <2>1. /\ corpus' = [corpus EXCEPT ![c] = "deleting"]
          /\ task' = [t \in Tasks |-> IF corpusOf[t] = c /\ task[t] # "absent" THEN "deleted" ELSE task[t]]
          /\ UNCHANGED <<corpusOf, files, live, worker>>
      BY <1>3 DEF DeleteUserCorpus
    <2>2. corpus'[c] = "deleting" /\ \A d \in Corpora : d # c => corpus'[d] = corpus[d]
      BY <2>1 DEF TypeOK
    <2>3. \A s \in Tasks : corpusOf'[s] = c => task'[s] \notin Active
      BY <2>1 DEF Active
    <2>4. Agrees(c)'
      BY <2>2, <2>3, AgreesSettled
    <2>5. \A d \in Corpora, s \in Tasks : d # c /\ corpusOf[s] = d => task'[s] = task[s]
      BY <2>1
    <2> QED
      BY <2>1, <2>2, <2>4, <2>5, <1>a
  <1>4. CASE DeleteUserCorpusFiles(c)
    <2>1. /\ corpus[c] = "deleting" /\ corpus' = [corpus EXCEPT ![c] = "deleted"]
          /\ UNCHANGED <<task, corpusOf, files, worker>>
          /\ live' = live \/ live' = [live EXCEPT ![c] = NoTask]
      BY <1>4 DEF DeleteUserCorpusFiles
    <2>2. corpus'[c] = "deleted" /\ \A d \in Corpora : d # c => corpus'[d] = corpus[d] /\ live'[d] = live[d]
      BY <2>1 DEF TypeOK
    <2>3. \A s \in Tasks : corpusOf[s] = c => task[s] \notin Active
      BY <2>1 DEF ServedInv, TasksHaveCorpora, Existing, Active
    <2>4. Agrees(c)'
      BY <2>1, <2>2, <2>3, AgreesSettled
    <2>5. \A v \in Workers : worker[v].at = "published" => live'[CorpusOf(v)] = live[CorpusOf(v)]
      <3> SUFFICES ASSUME NEW v \in Workers, worker[v].at = "published"
                   PROVE  CorpusOf(v) \in Corpora /\ CorpusOf(v) # c
        BY <2>2
      <3>1. TaskOf(v) \in Tasks /\ CorpusOf(v) \in Corpora
        BY BusyType DEF Stages, Working
      <3>2. task[TaskOf(v)] = "running"
        BY DEF OnceInv, StageIsStatus, Working
      <3> QED
        BY <3>1, <3>2, <2>3 DEF CorpusOf, Active
    <2> QED
      BY <2>1, <2>2, <2>4, <2>5, <1>a
  <1> QED
    BY <1>1, <1>2, <1>3, <1>4

\* A step for one task and its corpus: the corpus agrees after it, and whoever
\* has published keeps his index.
LEMMA TablesTaskStep ==
    ASSUME TypeOK, TypeOK', ServedInv, TablesInv, NEW t \in Tasks, NEW c \in Corpora,
           corpusOf[t] = c, UNCHANGED corpusOf,
           \A s \in Tasks : s # t => task'[s] = task[s],
           \A d \in Corpora : d # c =>
                corpus'[d] = corpus[d] /\ files'[d] = files[d] /\ live'[d] = live[d],
           Agrees(c)',
           \A v \in Workers :
                /\ worker'[v].at # "unaudited"
                /\ worker'[v].at = "published" =>
                     \/ live'[corpusOf[worker'[v].msg.task]] = worker'[v].msg.task
                     \/ /\ worker[v].at = "published"
                        /\ worker'[v].msg = worker[v].msg
                        /\ live'[CorpusOf(v)] = live[CorpusOf(v)]
    PROVE  TablesInv'
  <1>1. \A d \in Corpora : Agrees(d)'
    <2> SUFFICES ASSUME NEW d \in Corpora, d # c PROVE Agrees(d)'
      OBVIOUS
    <2> QED
      BY AgreesElsewhere DEF TablesInv
  <1>2. \A v \in Workers : worker'[v].at = "published" =>
            live'[corpusOf[worker'[v].msg.task]] = worker'[v].msg.task
    BY DEF TablesInv, TaskOf, CorpusOf
  <1> QED
    BY <1>1, <1>2 DEF TablesInv, TaskOf, CorpusOf

\* Whoever works on a corpus is alone with it until it settles its rows.
LEMMA TablesWorkerStep ==
    ASSUME TypeOK, TypeOK', AttemptInv, OneActiveTask, ServedInv, OnceInv, TablesInv, CountersInv,
           UNCHANGED <<losses, auditFaults>>, NEW w \in Workers, WorkerStep(w) \/ WorkerLost(w)
    PROVE  TablesInv'
  <1> USE DEF tableVars, queueVars, bounds
  <1>a. ASSUME Carries(w)
        PROVE  /\ TaskOf(w) \in Tasks /\ CorpusOf(w) \in Corpora /\ corpusOf[TaskOf(w)] = CorpusOf(w)
               /\ task[TaskOf(w)] \in Active
               /\ corpus[CorpusOf(w)] \in Existing
               /\ \A s \in Tasks : s # TaskOf(w) /\ corpusOf[s] = CorpusOf(w) => task[s] \notin Active
    <2>1. TaskOf(w) \in Tasks /\ CorpusOf(w) \in Corpora /\ corpusOf[TaskOf(w)] = CorpusOf(w)
      BY <1>a, BusyType DEF Carries, Stages, CorpusOf
    <2>2. task[TaskOf(w)] \in Active
      BY <1>a DEF Carries, OnceInv, StageIsStatus, TablesInv, Active
    <2>3. corpus[CorpusOf(w)] \in Existing
      BY <2>1, <2>2 DEF ServedInv, TasksHaveCorpora, Active
    <2> QED
      BY <2>1, <2>2, <2>3, OthersInactive
  <1>b. ASSUME UNCHANGED <<task, corpusOf, corpus, files, live>>,
               \A v \in Workers : worker'[v].at \in {"unaudited", "published"} => worker'[v] = worker[v]
        PROVE  TablesInv'
    BY <1>b DEF TablesInv, Agrees, ActiveOf, TaskOf, CorpusOf
  <1>1. ASSUME NEW m, MarkRunning(w, m) PROVE TablesInv'
    <2>1. \A s \in Tasks : s # m.task /\ corpusOf[s] = corpusOf[m.task] => task[s] \notin Active
      BY <1>1, ClaimFacts, OthersInactive DEF Active
    <2>2. \A c \in Corpora : c = corpusOf[m.task] => Agrees(c)'
      BY <1>1, <2>1, ClaimFacts, AgreesActive
    <2>3. \A v \in Workers : worker'[v].at \in {"unaudited", "published"} => worker'[v] = worker[v]
      BY <1>1, ClaimFacts
    <2>4. \A v \in Workers : worker'[v].at # "unaudited"
      BY <2>3 DEF TablesInv
    <2> QED
      BY <1>1, <2>2, <2>3, <2>4, ClaimFacts, TablesTaskStep
  <1>2. ASSUME NEW m, SkipTask(w, m) PROVE TablesInv'
    BY <1>2, <1>b DEF SkipTask, Idle, TypeOK
  <1>c. ASSUME worker[w].at = "importing", NEW stage \in {"published", "oserror", "failing"},
               Goes(w, stage), UNCHANGED <<task, corpusOf, corpus, files>>,
               live' = [live EXCEPT ![CorpusOf(w)] = TaskOf(w)]
        PROVE  TablesInv'
    <2>1. Carries(w) /\ worker[w].at \in Stages /\ stage \in Stages /\ stage # "unaudited"
      BY <1>c DEF Carries, Working, Stages
    <2>2. /\ live'[CorpusOf(w)] = TaskOf(w)
          /\ \A d \in Corpora : d # CorpusOf(w) => live'[d] = live[d]
      BY <1>c, <1>a, <2>1 DEF TypeOK
    <2>3. \A v \in Workers :
            /\ worker'[v].msg = worker[v].msg
            /\ worker'[v].at = IF v = w THEN stage ELSE worker[v].at
      BY <1>c, <2>1, StageMoves
    <2>4. ASSUME NEW c \in Corpora, c = CorpusOf(w) PROVE Agrees(c)'
      <3>1. CASE Owner[c] = NoUser
        BY <3>1 DEF Agrees
      <3>2. CASE Owner[c] # NoUser
        <4>1. /\ TaskOf(w) \in Tasks /\ corpusOf[TaskOf(w)] = c /\ task[TaskOf(w)] = "running"
              /\ \A s \in Tasks : s # TaskOf(w) /\ corpusOf[s] = c => task[s] \notin Active
          BY <2>4, <1>c, <1>a, <2>1 DEF OnceInv, StageIsStatus, Working
        <4>2. corpus[c] = "processing" /\ files[c] = "processing"
          BY <3>2, <4>1 DEF TablesInv, Agrees
        <4> QED
          BY <4>1, <4>2, <1>c, AgreesActive
      <3> QED
        BY <3>1, <3>2
    <2>5. \A v \in Workers : v # w /\ worker[v].at = "published" =>
            CorpusOf(v) \in Corpora /\ CorpusOf(v) # CorpusOf(w)
      <3> SUFFICES ASSUME NEW v \in Workers, v # w, worker[v].at = "published"
                   PROVE  CorpusOf(v) \in Corpora /\ CorpusOf(v) # CorpusOf(w)
        OBVIOUS
      <3>1. Carries(v) /\ task[TaskOf(v)] \in Active
        BY DEF Carries, Working, Active, OnceInv, StageIsStatus
      <3>2. TaskOf(v) \in Tasks /\ CorpusOf(v) \in Corpora
        BY <3>1, BusyType DEF Carries, Stages
      <3>3. TaskOf(v) # TaskOf(w)
        BY <2>1, <3>1 DEF OnceInv, CarrierIsOnly
      <3> QED
        BY <3>1, <3>2, <3>3, <2>1, <1>a DEF CorpusOf
    <2>6. \A v \in Workers :
                /\ worker'[v].at # "unaudited"
                /\ worker'[v].at = "published" =>
                     \/ live'[corpusOf[worker'[v].msg.task]] = worker'[v].msg.task
                     \/ /\ worker[v].at = "published"
                        /\ worker'[v].msg = worker[v].msg
                        /\ live'[CorpusOf(v)] = live[CorpusOf(v)]
      BY <2>1, <2>2, <2>3, <2>5 DEF TablesInv, TaskOf, CorpusOf
    <2> QED
      BY <1>c, <1>a, <2>1, <2>2, <2>4, <2>6, TablesTaskStep
  <1>3. CASE Finalize(w)
    BY <1>3, <1>c DEF Finalize
  <1>d. ASSUME worker[w].at \in Stages, NEW stage \in Stages, stage \notin {"unaudited", "published"},
               Goes(w, stage)
        PROVE  \A v \in Workers : worker'[v].at \in {"unaudited", "published"} => worker'[v] = worker[v]
    BY <1>d, GoesOnly, BusyType
  <1>4. CASE ImportRaises(w)
    <2>1. PICK stage \in {"oserror", "failing"} : Goes(w, stage)
      BY <1>4 DEF ImportRaises
    <2>2. worker[w].at = "importing" /\ UNCHANGED <<task, corpusOf, corpus, files>>
      BY <1>4 DEF ImportRaises
    <2>3. worker[w].at \in Stages /\ stage \in Stages /\ stage \notin {"unaudited", "published"}
      BY <2>2 DEF Stages, Working
    <2>4. CASE UNCHANGED live
      BY <2>1, <2>2, <2>3, <2>4, <1>b, <1>d
    <2>5. CASE live' = [live EXCEPT ![CorpusOf(w)] = TaskOf(w)]
      BY <2>1, <2>2, <2>5, <1>c
    <2> QED
      BY <1>4, <2>4, <2>5 DEF ImportRaises
  <1>e. ASSUME Carries(w), NEW stage \in {"ended", "retry"}, Goes(w, stage),
               \A s \in Tasks : s # TaskOf(w) => task'[s] = task[s],
               \A d \in Corpora : d # CorpusOf(w) => corpus'[d] = corpus[d] /\ files'[d] = files[d],
               UNCHANGED <<corpusOf, live>>,
               \A c \in Corpora : c = CorpusOf(w) => Agrees(c)'
        PROVE  TablesInv'
    <2>1. \A v \in Workers : worker'[v].at \in {"unaudited", "published"} => worker'[v] = worker[v]
      BY <1>e, <1>d DEF Carries, Stages
    <2>2. \A v \in Workers : worker'[v].at # "unaudited"
      BY <2>1 DEF TablesInv
    <2> QED
      BY <1>e, <1>a, <2>1, <2>2, TablesTaskStep
  <1>5. CASE MarkSuccess(w)
    <2>1. Carries(w) /\ Goes(w, "ended")
      BY <1>5 DEF MarkSuccess, CountersInv, Carries, Working
    <2>2. /\ task'[TaskOf(w)] = "success"
          /\ corpus'[CorpusOf(w)] = "ready" /\ files'[CorpusOf(w)] = "ready"
          /\ \A s \in Tasks : s # TaskOf(w) => task'[s] = task[s]
          /\ \A d \in Corpora : d # CorpusOf(w) => corpus'[d] = corpus[d] /\ files'[d] = files[d]
          /\ UNCHANGED <<corpusOf, live>>
      BY <1>5, <2>1, <1>a DEF MarkSuccess, TypeOK
    <2>3. live[CorpusOf(w)] = TaskOf(w)
      BY <1>5 DEF MarkSuccess, TablesInv
    <2>4. \A s \in Tasks : corpusOf'[s] = CorpusOf(w) => task'[s] \notin Active
      BY <2>1, <2>2, <1>a DEF Active
    <2>5. ASSUME NEW c \in Corpora, c = CorpusOf(w) PROVE Agrees(c)'
      BY <2>2, <2>3, <2>4, <2>5, AgreesSettled
    <2> QED
      BY <2>1, <2>2, <2>5, <1>e
  <1>6. CASE MarkSuccessRaises(w)
    <2>1. task[TaskOf(w)] = "running"
      BY <1>6 DEF MarkSuccessRaises, OnceInv, StageIsStatus, Working
    <2> QED
      BY <1>6, <2>1 DEF MarkSuccessRaises, CountersInv
  <1>f. ASSUME Carries(w), Fails(TaskOf(w)), Goes(w, "ended"), UNCHANGED <<corpusOf, live>>
        PROVE  TablesInv'
    <2>1. /\ task'[TaskOf(w)] = "failed"
          /\ corpus'[CorpusOf(w)] = "failed"
          /\ files'[CorpusOf(w)] # "processing"
          /\ \A s \in Tasks : s # TaskOf(w) => task'[s] = task[s]
          /\ \A d \in Corpora : d # CorpusOf(w) => corpus'[d] = corpus[d] /\ files'[d] = files[d]
      BY <1>f, <1>a DEF Fails, TypeOK, Active
    <2>2. \A s \in Tasks : corpusOf'[s] = CorpusOf(w) => task'[s] \notin Active
      BY <2>1, <1>f, <1>a DEF Active
    <2>3. \A c \in Corpora : c = CorpusOf(w) => Agrees(c)'
      BY <2>1, <2>2, AgreesSettled
    <2> QED
      BY <2>1, <2>3, <1>a, <1>e, <1>f
  <1>7. CASE MarkFailed(w)
    BY <1>7, <1>f DEF MarkFailed, Carries, Working
  <1>8. CASE MarkPendingForRetry(w)
    <2>1. Carries(w) /\ task[TaskOf(w)] = "running"
      BY <1>8 DEF MarkPendingForRetry, Carries, Working, OnceInv, StageIsStatus
    <2>2. PICK stage \in {"ended", "retry"} : Goes(w, stage)
      BY <1>8 DEF MarkPendingForRetry
    <2>3. /\ task'[TaskOf(w)] = "pending"
          /\ corpus'[CorpusOf(w)] = "pending_processing"
          /\ files'[CorpusOf(w)] # "processing"
          /\ \A s \in Tasks : s # TaskOf(w) => task'[s] = task[s]
          /\ \A d \in Corpora : d # CorpusOf(w) => corpus'[d] = corpus[d] /\ files'[d] = files[d]
          /\ UNCHANGED <<corpusOf, live>>
      BY <1>8, <2>1, <1>a DEF MarkPendingForRetry, Releases, TypeOK
    <2>4. \A c \in Corpora : c = CorpusOf(w) => Agrees(c)'
      BY <2>1, <2>3, <1>a, AgreesActive
    <2> QED
      BY <2>1, <2>2, <2>3, <2>4, <1>a, <1>e
  <1>9. CASE Retry(w)
    BY <1>9, <1>b, <1>d DEF Retry, Stages
  <1>10. CASE MarkRetryExhausted(w)
    <2>1. Carries(w)
      BY <1>10 DEF MarkRetryExhausted, Carries
    <2> QED
      BY <1>10, <2>1, <1>a, <1>f DEF MarkRetryExhausted
  <1>11. CASE Acknowledge(w)
    BY <1>11, <1>b DEF Acknowledge, Idle, TypeOK
  <1>12. CASE WorkerLost(w)
    BY <1>12 DEF WorkerLost, CountersInv
  <1> QED
    BY <1>1, <1>2, <1>3, <1>4, <1>5, <1>6, <1>7, <1>8, <1>9, <1>10, <1>11, <1>12
    DEF WorkerStep, Receive

LEMMA TablesStep ==
    ASSUME TypeOK, TypeOK', AttemptInv, OneActiveTask, ServedInv, CountersInv,
           OnceDelivered => OnceInv, Undisturbed => TablesInv, [Next]_vars
    PROVE  Undisturbed' => TablesInv'
  <1> SUFFICES ASSUME Undisturbed' PROVE TablesInv'
    OBVIOUS
  <1>1. OnceInv /\ TablesInv /\ UNCHANGED <<losses, direct, auditFaults>> /\ direct' = {}
    BY CountersStep DEF Undisturbed, OnceDelivered
  <1>2. CASE UNCHANGED vars
    BY <1>1, <1>2 DEF vars, tableVars, TablesInv, Agrees, ActiveOf, TaskOf, CorpusOf
  <1>3. ASSUME NEW t \in Tasks, OutboxSends(t) PROVE TablesInv'
    BY <1>1, <1>3 DEF OutboxSends, tableVars, TablesInv, Agrees, ActiveOf, TaskOf, CorpusOf
  <1> QED
    BY <1>1, <1>2, <1>3, TablesUserStep, TablesCorpusStep, TablesWorkerStep, NextCases
    DEF CountersInv

\* With one delivery of each message and no failed audit, whatever errors and
\* retries there are: tasks, owned corpora and source files tell one story, and
\* the index served is that of a finished task.
THEOREM TablesStayInAgreement == Spec => []TablesAgree
  <1>1. Init => (Undisturbed => TablesInv)
    BY DEF Init, TablesInv, Agrees, Existing, Idle
  <1>2. TypeOK /\ (Undisturbed => TablesInv) => TablesAgree
    BY DEF TypeOK, TablesInv, TablesAgree, Agrees
  <1> QED
    BY <1>1, <1>2, TablesStep, TypeCorrect, AttemptInvariant, OneTaskAtATime, ServedInvariant,
       OnceInvariant, PTL DEF Spec

=============================================================================
