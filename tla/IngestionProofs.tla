-------------------------- MODULE IngestionProofs ---------------------------
(* Theorems about Ingestion, for any sets of jobs and pods and any bounds:   *)
(* what the job queue guarantees survives the ingestion tasks that write the *)
(* same table without a ticket.                                              *)
EXTENDS Ingestion, JobQueueProofs, SequenceTheorems, FiniteSetTheorems

queueVars == <<aged, leader, worker, slots, exec, stopping, started, lost>>

\* An ingestion task, or the route that starts it, changes a status.
LEMMA IngestMove ==
  ASSUME TypeOK, ingest \in [Pods -> Ingest],
         \/ \E p \in Pods, j \in IngestionJobs : IngestContent(p, j)
         \/ \E p \in Pods : IngestStep(p)
  PROVE  /\ UNCHANGED queueVars
         /\ row' \in [Jobs -> Row] /\ faults' \in 0..MaxFaults /\ ingest' \in [Pods -> Ingest]
         /\ \A j \in Jobs :
              /\ Kept(j)
              /\ \/ row'[j].status \in {row[j].status, "running", "completed", "failed"}
                 \/ row[j].status = "absent"
<1> USE IngestionAssumption
<1>1. ASSUME NEW p \in Pods, NEW j \in IngestionJobs, NEW s \in Status,
             row' = [row EXCEPT ![j].status = s]
      PROVE  /\ row' \in [Jobs -> Row]
             /\ \A i \in Jobs : Kept(i) /\ (row'[i].status = row[i].status \/ (i = j /\ row'[i].status = s))
  <2>1. row \in [Jobs -> Row] /\ j \in Jobs /\ row[j] \in Row
    BY DEF TypeOK
  <2>2. PICK r \in Row : /\ row' = [row EXCEPT ![j] = r]
                         /\ r.status = s /\ r.attempt_count = row[j].attempt_count
                         /\ r.job_runs = row[j].job_runs
    <3> DEFINE new == [row[j] EXCEPT !.status = s]
    <3>1. /\ new \in Row /\ new.status = s /\ new.attempt_count = row[j].attempt_count
          /\ new.job_runs = row[j].job_runs
      BY <2>1 DEF Row
    <3>2. row' = [row EXCEPT ![j] = new]
      BY <1>1
    <3> QED
      BY <3>1, <3>2
  <2>3. row' \in [Jobs -> Row] /\ row'[j] = r /\ \A i \in Jobs : i = j \/ row'[i] = row[i]
    BY <2>1, <2>2
  <2>4. ASSUME NEW i \in Jobs
        PROVE  Kept(i) /\ (row'[i].status = row[i].status \/ (i = j /\ row'[i].status = s))
    <3>1. CASE i = j
      BY <2>2, <2>3, <3>1, Zenon DEF Kept
    <3>2. CASE i # j
      BY <2>3, <3>2, Zenon DEF Kept
    <3> QED
      BY <3>1, <3>2
  <2> QED
    BY <2>3, <2>4
<1>2. ASSUME UNCHANGED row
      PROVE  row' \in [Jobs -> Row] /\ \A i \in Jobs : Kept(i) /\ row'[i].status = row[i].status
  BY <1>2 DEF TypeOK, Kept
<1>3. ASSUME NEW p \in Pods, NEW j \in IngestionJobs, IngestContent(p, j)
      PROVE  /\ UNCHANGED queueVars
             /\ row' \in [Jobs -> Row] /\ faults' \in 0..MaxFaults /\ ingest' \in [Pods -> Ingest]
             /\ \A i \in Jobs : Kept(i) /\ (row'[i].status = row[i].status \/ row[i].status = "absent")
  <2>1. CASE UNCHANGED row
    BY <1>2, <1>3, <2>1, FaultType DEF IngestContent, queueVars
  <2>2. CASE row' = [row EXCEPT ![j].status = "pending"] /\ UNCHANGED faults
    <3>1. "pending" \in Status
      BY DEF Status
    <3> QED
      BY <1>1, <1>3, <2>2, <3>1, FaultType DEF IngestContent, queueVars
  <2> QED
    BY <1>3, <2>1, <2>2 DEF IngestContent
<1>4. ASSUME NEW p \in Pods, NEW j \in IngestionJobs, NEW s \in {"running", "completed", "failed"},
             NEW old, SetStatus(j, old, s)
      PROVE  /\ row' \in [Jobs -> Row]
             /\ \A i \in Jobs : Kept(i) /\ row'[i].status \in {row[i].status, s}
  <2>1. CASE old = s
    <3>1. row' = row
      BY <1>4, <2>1 DEF SetStatus, TypeOK, Row
    <3> QED
      BY <1>2, <3>1
  <2>2. CASE old # s
    BY <1>1, <1>4, <2>2 DEF SetStatus, Status, Terminal
  <2> QED
    BY <2>1, <2>2
<1>5. ASSUME NEW p \in Pods, IngestStep(p)
      PROVE  /\ UNCHANGED queueVars
             /\ row' \in [Jobs -> Row] /\ faults' \in 0..MaxFaults /\ ingest' \in [Pods -> Ingest]
             /\ \A i \in Jobs :
                  /\ Kept(i)
                  /\ row'[i].status \in {row[i].status, "running", "completed", "failed"}
  <2> PICK j \in IngestionJobs :
        StartRead(p, j) \/ StartWrite(p, j) \/ EndRead(p, j) \/ EndWrite(p, j)
    BY <1>5 DEF IngestStep
  <2>0. row[j].status \in Status /\ NewIngest \in Ingest /\ ingest[p] \in Ingest
    BY DEF TypeOK, Row, NewIngest, Ingest, IngestPC, Status
  <2>1. UNCHANGED queueVars
    BY DEF StartRead, StartWrite, EndRead, EndWrite, queueVars
  <2>2. faults' \in 0..MaxFaults
    BY FaultType DEF StartRead, StartWrite, EndRead, EndWrite
  <2>3. ingest' \in [Pods -> Ingest]
    <3>1. CASE StartRead(p, j)
      BY <2>0, <3>1 DEF StartRead, Ingest, IngestPC
    <3>2. CASE StartWrite(p, j)
      BY <2>0, <3>2 DEF StartWrite, Ingest, IngestPC
    <3>3. CASE EndRead(p, j)
      BY <2>0, <3>3 DEF EndRead, Ingest, IngestPC
    <3>4. CASE EndWrite(p, j)
      BY <2>0, <3>4 DEF EndWrite
    <3> QED
      BY <3>1, <3>2, <3>3, <3>4
  <2>4. \/ UNCHANGED row
        \/ SetStatus(j, ingest[p].loaded, "running")
        \/ SetStatus(j, ingest[p].loaded, ingest[p].outcome)
    BY DEF StartRead, StartWrite, EndRead, EndWrite
  <2>5. ingest[p].outcome \in {"completed", "failed"}
    BY <2>0 DEF Ingest
  <2>6. /\ row' \in [Jobs -> Row]
        /\ \A i \in Jobs :
             /\ Kept(i)
             /\ row'[i].status \in {row[i].status, "running", "completed", "failed"}
    BY <1>2, <1>4, <2>4, <2>5
  <2> QED
    BY <2>1, <2>2, <2>3, <2>6
<1> QED
  BY <1>3, <1>5

IngestInv == Inv /\ ingest \in [Pods -> Ingest]

\* Every other step is one of the job queue's.
LEMMA QueueStep ==
  ASSUME IngestInv, [IngestionNext]_allVars,
         ~\E p \in Pods, j \in IngestionJobs : IngestContent(p, j),
         ~\E p \in Pods : IngestStep(p)
  PROVE  [Next]_vars /\ ingest' \in [Pods -> Ingest]
<1>1. [Next]_vars
  BY DEF IngestionNext, QueueRequest, TimePasses, QueueWorkerStep, QueueWorkerError, QueueExecStep,
     IngestionCrash, Next, Request, allVars
<1>2. NewIngest \in Ingest
  BY DEF NewIngest, Ingest, IngestPC, Status
<1>3. ingest' = ingest \/ \E p \in Pods : ingest' = [ingest EXCEPT ![p] = NewIngest]
  BY DEF IngestionNext, QueueRequest, TimePasses, QueueWorkerStep, QueueWorkerError, QueueExecStep,
     IngestionCrash, allVars
<1> QED
  BY <1>1, <1>2, <1>3 DEF IngestInv

\* The invariants of the queue survive.
LEMMA IngestInvStep == IngestInv /\ [IngestionNext]_allVars => IngestInv'
<1> SUFFICES ASSUME IngestInv, [IngestionNext]_allVars PROVE IngestInv'
  OBVIOUS
<1> USE DEF IngestInv, Inv
<1>1. CASE \/ \E p \in Pods, j \in IngestionJobs : IngestContent(p, j)
           \/ \E p \in Pods : IngestStep(p)
  <2>1. /\ UNCHANGED queueVars
        /\ row' \in [Jobs -> Row] /\ faults' \in 0..MaxFaults /\ ingest' \in [Pods -> Ingest]
        /\ \A j \in Jobs : row'[j].attempt_count = row[j].attempt_count
    BY <1>1, IngestMove DEF Kept
  <2>2. TypeOK'
    BY <2>1 DEF TypeOK, queueVars
  <2>3. \A t \in Threads : Held(t)' = Held(t)
    BY <2>1 DEF Threads, Held, queueVars
  <2>4. OneTaskPerPod'
    BY <2>1 DEF OneTaskPerPod, Busy, Held, queueVars
  <2>5. AttemptHeldOnce'
    <3>1. \A t \in Threads : Busy(t) => Held(t).job \in Jobs
      BY BusyJob
    <3> QED
      BY <2>1, <2>3, <3>1 DEF AttemptHeldOnce, Busy, Threads
  <2> QED
    BY <2>1, <2>2, <2>4, <2>5
<1>2. CASE ~ \/ \E p \in Pods, j \in IngestionJobs : IngestContent(p, j)
             \/ \E p \in Pods : IngestStep(p)
  BY <1>2, QueueStep, TypeStep, OneTaskStep, AttemptStep
<1> QED
  BY <1>1, <1>2

\* The invariant holds at first.
LEMMA IngestInvInit == IngestionInit => IngestInv
BY InvInit DEF IngestionInit, IngestInv, NewIngest, Ingest, IngestPC, Status

\* Beside ingestion tasks, which claim nothing and hold no slot, the executor
\* still has at most one claimed job, and every attempt still has one holder.
THEOREM IngestAttemptUnique == IngestionSpec => [](OneTaskPerPod /\ AttemptHeldOnce)
BY IngestInvInit, IngestInvStep, PTL DEF IngestionSpec, IngestInv, Inv

\* Ingestion tasks write rows without a fence, and still no job is claimed more
\* than MAX_JOB_ATTEMPTS times: they never make a row pending again.
THEOREM IngestAttemptsBound ==
  FaultKinds \cap {"submit", "lock"} = {} => (IngestionSpec => []AttemptsBounded)
<1> SUFFICES ASSUME "submit" \notin FaultKinds, "lock" \notin FaultKinds
             PROVE  IngestionSpec => []AttemptsBounded
  OBVIOUS
<1>1. IngestionInit => QueueInv
  BY JobsAssumption, BoundsAssumption DEF IngestionInit, Init, QueueInv, NoRequeue, OneMaintainer,
     LeaderView, AttemptsLeft, AttemptsBounded, NewWorker
<1>2. IngestInv /\ QueueInv /\ [IngestionNext]_allVars => QueueInv'
  <2> SUFFICES ASSUME IngestInv, QueueInv, [IngestionNext]_allVars PROVE QueueInv'
    OBVIOUS
  <2>1. CASE \/ \E p \in Pods, j \in IngestionJobs : IngestContent(p, j)
             \/ \E p \in Pods : IngestStep(p)
    <3>1. /\ UNCHANGED queueVars
          /\ \A j \in Jobs :
               /\ row'[j].attempt_count = row[j].attempt_count
               /\ \/ row'[j].status \in {row[j].status, "running", "completed", "failed"}
                  \/ row[j].status = "absent"
      BY <2>1, IngestMove DEF Kept, IngestInv, Inv
    <3>2. NoRequeue' /\ OneMaintainer'
      BY <3>1 DEF QueueInv, NoRequeue, OneMaintainer, queueVars
    <3>3. LeaderView'
      BY <3>1 DEF QueueInv, LeaderView, queueVars
    <3>4. AttemptsLeft' /\ AttemptsBounded'
      <4> SUFFICES ASSUME NEW j \in Jobs
                   PROVE  /\ row'[j].status = "pending" => row'[j].attempt_count < MaxJobAttempts
                          /\ row'[j].status = "absent" => row'[j].attempt_count = 0
                          /\ row'[j].attempt_count <= MaxJobAttempts
        BY DEF AttemptsLeft, AttemptsBounded
      <4>1. /\ row[j].status = "pending" => row[j].attempt_count < MaxJobAttempts
            /\ row[j].status = "absent" => row[j].attempt_count = 0
            /\ row[j].attempt_count <= MaxJobAttempts
        BY DEF QueueInv, AttemptsLeft, AttemptsBounded
      <4> QED
        BY <3>1, <4>1, BoundsAssumption
    <3> QED
      BY <3>2, <3>3, <3>4 DEF QueueInv
  <2>2. CASE ~ \/ \E p \in Pods, j \in IngestionJobs : IngestContent(p, j)
               \/ \E p \in Pods : IngestStep(p)
    BY <2>2, QueueStep, NoRequeueStep, MaintainerStep, LeaderViewStep, AttemptsLeftStep
       DEF IngestInv, Inv, QueueInv
  <2> QED
    BY <2>1, <2>2
<1>3. QueueInv => AttemptsBounded
  BY DEF QueueInv
<1> QED
  BY <1>1, <1>2, <1>3, IngestInvInit, IngestInvStep, PTL DEF IngestionSpec

-----------------------------------------------------------------------------
(* The executor's queue. *)

Tasks == Seq(IngestionJobs \cup {Claimed})

\* The queue s holds the task of a claimed job once if the executor's record is busy, and
\* not at all if it is idle; an ingestion under way is the first task.
QueueOf(s, pc, ingesting) ==
  /\ \A i, k \in 1..Len(s) : s[i] = Claimed /\ s[k] = Claimed => i = k
  /\ (\E i \in 1..Len(s) : s[i] = Claimed) <=> pc # "idle"
  /\ ingesting # "start" => s # <<>> /\ Head(s) \in IngestionJobs

TasksInv ==
  /\ tasks \in [Pods -> Tasks]
  /\ \A p \in Pods : QueueOf(tasks[p], exec[p].pc, ingest[p].pc)

\* A task that is submitted comes last.
LEMMA AppendTask ==
  ASSUME NEW s \in Tasks, NEW t \in IngestionJobs \cup {Claimed}
  PROVE  /\ Append(s, t) \in Tasks /\ Append(s, t) # <<>>
         /\ Len(Append(s, t)) = Len(s) + 1 /\ Append(s, t)[Len(s) + 1] = t
         /\ \A i \in 1..Len(s) : Append(s, t)[i] = s[i]
         /\ s # <<>> => Head(Append(s, t)) = Head(s)
<1>1. /\ Append(s, t) \in Tasks /\ Append(s, t) # <<>>
      /\ Len(Append(s, t)) = Len(s) + 1 /\ Append(s, t)[Len(s) + 1] = t
      /\ \A i \in 1..Len(s) : Append(s, t)[i] = s[i]
  BY AppendProperties DEF Tasks
<1>2. ASSUME s # <<>> PROVE Head(Append(s, t)) = Head(s)
  <2>1. Len(s) \in Nat \ {0}
    BY <1>2, EmptySeq DEF Tasks
  <2> QED
    BY <1>1, <2>1
<1> QED
  BY <1>1, <1>2

\* A task that ends was the first; the others move up.
LEMMA TailTask ==
  ASSUME NEW s \in Tasks, s # <<>>
  PROVE  /\ Tail(s) \in Tasks /\ Len(s) \in Nat \ {0} /\ Len(Tail(s)) = Len(s) - 1
         /\ Head(s) = s[1]
         /\ \A i \in 1..Len(s) - 1 : Tail(s)[i] = s[i + 1]
BY DEF Tasks

\* An ingestion's task may be submitted at any time.
LEMMA EnqueueIngestion ==
  ASSUME NEW s \in Tasks, NEW j \in IngestionJobs, NEW pc, NEW ingesting, QueueOf(s, pc, ingesting)
  PROVE  QueueOf(Append(s, j), pc, ingesting)
<1> DEFINE a == Append(s, j)
<1>1. Len(s) \in Nat /\ j # Claimed
  BY IngestionAssumption DEF Tasks
<1>2. \A i \in 1..Len(a) : a[i] = Claimed => i \in 1..Len(s) /\ s[i] = Claimed
  BY <1>1, AppendTask
<1>3. \A i \in 1..Len(s) : i \in 1..Len(a) /\ a[i] = s[i]
  BY <1>1, AppendTask
<1>4. ingesting # "start" => a # <<>> /\ Head(a) \in IngestionJobs
  BY AppendTask DEF QueueOf
<1> QED
  BY <1>2, <1>3, <1>4 DEF QueueOf

\* A claimed job's task may be submitted while the executor has none.
LEMMA EnqueueClaimed ==
  ASSUME NEW s \in Tasks, NEW pc, NEW ingesting, QueueOf(s, "idle", ingesting), pc # "idle"
  PROVE  QueueOf(Append(s, Claimed), pc, ingesting)
<1> DEFINE a == Append(s, Claimed)
<1>1. Len(s) \in Nat /\ \A i \in 1..Len(s) : s[i] # Claimed
  BY DEF Tasks, QueueOf
<1>2. \A i \in 1..Len(a) : a[i] = Claimed => i = Len(s) + 1
  BY <1>1, AppendTask
<1>3. Len(s) + 1 \in 1..Len(a) /\ a[Len(s) + 1] = Claimed
  BY <1>1, AppendTask
<1>4. ingesting # "start" => a # <<>> /\ Head(a) \in IngestionJobs
  BY AppendTask DEF QueueOf
<1> QED
  BY <1>2, <1>3, <1>4 DEF QueueOf

\* When an ingestion's task ends, the next one may begin.
LEMMA DequeueIngestion ==
  ASSUME NEW s \in Tasks, s # <<>>, Head(s) \in IngestionJobs, NEW pc, NEW ingesting,
         QueueOf(s, pc, ingesting)
  PROVE  QueueOf(Tail(s), pc, "start")
<1> DEFINE a == Tail(s)
<1>1. s[1] # Claimed /\ Len(s) \in Nat \ {0} /\ Len(a) = Len(s) - 1
  BY TailTask, IngestionAssumption
<1>2. \A i \in 1..Len(a) : i + 1 \in 1..Len(s) /\ a[i] = s[i + 1]
  BY <1>1, TailTask
<1>3. ASSUME NEW i \in 1..Len(s), s[i] = Claimed PROVE i - 1 \in 1..Len(a) /\ a[i - 1] = Claimed
  <2>1. i - 1 \in 1..Len(a)
    BY <1>1, <1>3
  <2> QED
    BY <1>2, <1>3, <2>1
<1>4. \A i, k \in 1..Len(a) : a[i] = Claimed /\ a[k] = Claimed => i = k
  BY <1>1, <1>2 DEF QueueOf
<1>5. (\E i \in 1..Len(a) : a[i] = Claimed) <=> pc # "idle"
  BY <1>2, <1>3 DEF QueueOf
<1> QED
  BY <1>4, <1>5 DEF QueueOf

\* When the claimed job's task ends, there is none left.
LEMMA DequeueClaimed ==
  ASSUME NEW s \in Tasks, s # <<>>, Head(s) = Claimed, NEW pc, NEW ingesting,
         QueueOf(s, pc, ingesting)
  PROVE  QueueOf(Tail(s), "idle", ingesting)
<1> DEFINE a == Tail(s)
<1>1. s[1] = Claimed /\ Len(s) \in Nat \ {0} /\ Len(a) = Len(s) - 1
  BY TailTask
<1>2. \A i \in 1..Len(a) : i + 1 \in 1..Len(s) /\ a[i] = s[i + 1] /\ 1 \in 1..Len(s) /\ i + 1 # 1
  BY <1>1, TailTask
<1>3. \A i \in 1..Len(a) : a[i] # Claimed
  BY <1>1, <1>2 DEF QueueOf
<1>4. ingesting = "start"
  BY IngestionAssumption DEF QueueOf
<1> QED
  BY <1>3, <1>4 DEF QueueOf

\* A step of one pod leaves the others' executors and queues alone.
LEMMA TasksOfOne ==
  ASSUME TasksInv, NEW p \in Pods, NEW s \in Tasks,
         tasks' = [tasks EXCEPT ![p] = s],
         \A q \in Pods \ {p} : exec'[q].pc = exec[q].pc /\ ingest'[q] = ingest[q],
         QueueOf(s, exec'[p].pc, ingest'[p].pc)
  PROVE  TasksInv'
<1>1. tasks' \in [Pods -> Tasks] /\ tasks'[p] = s /\ \A q \in Pods \ {p} : tasks'[q] = tasks[q]
  BY DEF TasksInv
<1>2. ASSUME NEW q \in Pods PROVE QueueOf(tasks'[q], exec'[q].pc, ingest'[q].pc)
  <2>1. CASE q = p
    BY <1>1, <2>1
  <2>2. CASE q # p
    BY <1>1, <2>2 DEF TasksInv
  <2> QED
    BY <2>1, <2>2
<1> QED
  BY <1>1, <1>2 DEF TasksInv

\* The executor's queue, its record and its ingestion agree after every step.
LEMMA TasksStep == IngestInv /\ TasksInv /\ [IngestionNext]_allVars => TasksInv'
<1> SUFFICES ASSUME IngestInv, TasksInv, [IngestionNext]_allVars PROVE TasksInv'
  OBVIOUS
<1> USE DEF IngestInv, Inv
<1>0. \A p \in Pods : /\ tasks[p] \in Tasks /\ tasks = [tasks EXCEPT ![p] = tasks[p]]
                      /\ QueueOf(tasks[p], exec[p].pc, ingest[p].pc)
  BY DEF TasksInv
<1>1. ASSUME UNCHANGED <<exec, tasks, ingest>> PROVE TasksInv'
  BY <1>1 DEF TasksInv
<1>2. ASSUME NEW p \in Pods, NEW j \in IngestionJobs, IngestContent(p, j) PROVE TasksInv'
  <2>1. /\ tasks' = [tasks EXCEPT ![p] = Append(tasks[p], j)]
        /\ UNCHANGED <<exec, ingest>>
    BY <1>2 DEF IngestContent, Enqueue
  <2>2. Append(tasks[p], j) \in Tasks /\ QueueOf(Append(tasks[p], j), exec[p].pc, ingest[p].pc)
    BY <1>0, AppendTask, EnqueueIngestion
  <2> QED
    BY <2>1, <2>2, TasksOfOne
<1>3. ASSUME NEW p \in Pods, QueueWorkerStep(p) PROVE TasksInv'
  <2>1. CASE worker[p].pc = "submit"
    <3>1. SubmitTask(p)
      BY <1>3, <2>1 DEF QueueWorkerStep, WorkerStep, RecoverRead, RecoverWrite, CleanupRead,
         CleanupWrite, Claim, NothingClaimed, RequeueWrite
    <3>2. exec[p].pc = "idle"
      BY <2>1 DEF OneTaskPerPod
    <3>3. exec'[p].pc = "working" /\ \A q \in Pods \ {p} : exec'[q] = exec[q]
      BY <3>1 DEF SubmitTask, TypeOK, Exec, NewExec
    <3>4. tasks' = [tasks EXCEPT ![p] = Append(tasks[p], Claimed)] /\ UNCHANGED ingest
      BY <1>3, <2>1 DEF QueueWorkerStep, Enqueue
    <3>5. /\ Append(tasks[p], Claimed) \in Tasks
          /\ QueueOf(Append(tasks[p], Claimed), "working", ingest[p].pc)
      BY <1>0, <3>2, AppendTask, EnqueueClaimed
    <3> QED
      BY <3>3, <3>4, <3>5, TasksOfOne
  <2>2. CASE worker[p].pc # "submit"
    <3>1. UNCHANGED exec
      BY <1>3, <2>2 DEF QueueWorkerStep, WorkerStep, RecoverRead, RecoverWrite, CleanupRead,
         CleanupWrite, Claim, NothingClaimed, SubmitTask, RequeueWrite
    <3> QED
      BY <1>1, <1>3, <2>2, <3>1 DEF QueueWorkerStep
  <2> QED
    BY <2>1, <2>2
<1>4. ASSUME NEW p \in Pods, QueueExecStep(p) PROVE TasksInv'
  <2>1. tasks[p] # <<>> /\ Head(tasks[p]) = Claimed /\ UNCHANGED ingest
    BY <1>4 DEF QueueExecStep, Running
  <2>2. exec[p].pc # "idle" /\ \A q \in Pods \ {p} : exec'[q] = exec[q]
    BY <1>4 DEF QueueExecStep, TypeOK, ExecStep, ReachCheckpoint, CheckStopped, CheckSuperseded,
       TaskRaises, Finalize, FinalizeFailed, UpdateStoppedRead, UpdateStoppedWrite, CallbackRead,
       CallbackWrite, Finish, ExecGoto
  <2>3. CASE exec'[p].pc = "idle"
    <3>1. tasks' = [tasks EXCEPT ![p] = Tail(tasks[p])]
      BY <1>4, <2>3 DEF QueueExecStep, Dequeue
    <3>2. Tail(tasks[p]) \in Tasks /\ QueueOf(Tail(tasks[p]), "idle", ingest[p].pc)
      BY <1>0, <2>1, TailTask, DequeueClaimed
    <3> QED
      BY <2>1, <2>2, <2>3, <3>1, <3>2, TasksOfOne
  <2>4. CASE exec'[p].pc # "idle"
    <3>1. tasks' = [tasks EXCEPT ![p] = tasks[p]]
      BY <1>0, <1>4, <2>4 DEF QueueExecStep
    <3>2. QueueOf(tasks[p], exec'[p].pc, ingest[p].pc)
      BY <1>0, <2>2, <2>4 DEF QueueOf
    <3> QED
      BY <1>0, <2>1, <2>2, <3>1, <3>2, TasksOfOne
  <2> QED
    BY <2>3, <2>4
<1>5. ASSUME NEW p \in Pods, IngestStep(p) PROVE TasksInv'
  <2> PICK j \in IngestionJobs :
        StartRead(p, j) \/ StartWrite(p, j) \/ EndRead(p, j) \/ EndWrite(p, j)
    BY <1>5 DEF IngestStep
  <2>1. tasks[p] # <<>> /\ Head(tasks[p]) \in IngestionJobs /\ UNCHANGED exec
    BY DEF StartRead, StartWrite, EndRead, EndWrite, Running
  <2>2. \A q \in Pods \ {p} : ingest'[q] = ingest[q]
    BY DEF StartRead, StartWrite, EndRead, EndWrite
  <2>3. CASE UNCHANGED tasks
    <3>1. QueueOf(tasks[p], exec[p].pc, ingest'[p].pc)
      BY <1>0, <2>1 DEF QueueOf
    <3> QED
      BY <1>0, <2>1, <2>2, <2>3, <3>1, TasksOfOne
  <2>4. CASE Dequeue(p) /\ ingest' = [ingest EXCEPT ![p] = NewIngest]
    <3>1. ingest'[p].pc = "start"
      BY <2>4 DEF NewIngest
    <3>2. Tail(tasks[p]) \in Tasks /\ QueueOf(Tail(tasks[p]), exec[p].pc, "start")
      BY <1>0, <2>1, TailTask, DequeueIngestion
    <3>3. tasks' = [tasks EXCEPT ![p] = Tail(tasks[p])]
      BY <2>4 DEF Dequeue
    <3> QED
      BY <2>1, <2>2, <3>1, <3>2, <3>3, TasksOfOne
  <2> QED
    BY <2>3, <2>4 DEF StartRead, StartWrite, EndRead, EndWrite
<1>6. ASSUME NEW p \in Pods, IngestionCrash(p) PROVE TasksInv'
  <2>1. <<>> \in Tasks /\ Len(<<>>) = 0
    BY EmptySeq DEF Tasks
  <2>2. QueueOf(<<>>, "idle", "start")
    BY <2>1 DEF QueueOf
  <2>3. /\ exec'[p].pc = "idle" /\ ingest'[p].pc = "start"
        /\ \A q \in Pods \ {p} : exec'[q] = exec[q] /\ ingest'[q] = ingest[q]
    BY <1>6 DEF IngestionCrash, Crash, NewExec, NewIngest, TypeOK
  <2> QED
    BY <1>6, <2>1, <2>2, <2>3, TasksOfOne DEF IngestionCrash
<1>7. ASSUME NEW p \in Pods, QueueWorkerError(p) PROVE UNCHANGED <<exec, tasks, ingest>>
  BY <1>7 DEF QueueWorkerError, WorkerError, MaintenanceError, ClaimError, SubmitError, RequeueError
<1>8. ASSUME NEW j \in Jobs, QueueRequest(j) \/ TimePasses(j) PROVE UNCHANGED <<exec, tasks, ingest>>
  BY <1>8 DEF QueueRequest, TimePasses, Submit, ScheduleHarness, Insert, StopRead, StopWrite,
     ProgressTimeout, Age
<1>9. CASE UNCHANGED allVars
  BY <1>1, <1>9 DEF allVars, vars
<1> QED
  BY <1>1, <1>2, <1>3, <1>4, <1>5, <1>6, <1>7, <1>8, <1>9 DEF IngestionNext

\* At first the queues are empty and the executors idle.
LEMMA TasksInit == IngestionInit => TasksInv
<1>1. <<>> \in Tasks /\ Len(<<>>) = 0
  BY EmptySeq DEF Tasks
<1>2. QueueOf(<<>>, "idle", "start")
  BY <1>1 DEF QueueOf
<1> QED
  BY <1>1, <1>2 DEF IngestionInit, Init, TasksInv, NewExec, NewIngest

\* The rows, threads, queues and ingestions keep their shape beside each other.
THEOREM IngestionTypes == IngestionSpec => []IngestionTypeOK
<1>1. IngestInv /\ TasksInv => IngestionTypeOK
  BY DEF IngestInv, Inv, TasksInv, IngestionTypeOK, Tasks
<1> QED
  BY <1>1, IngestInvInit, IngestInvStep, TasksInit, TasksStep, PTL DEF IngestionSpec

\* However many ingestions wait in an executor beside it, there is one task of a claimed
\* job in its queue exactly while the task manager's slot says so.
THEOREM OneClaimedTask == IngestionSpec => []ExecutorQueue
<1>1. IngestInv /\ TasksInv => ExecutorQueue
  <2> SUFFICES ASSUME IngestInv, TasksInv, NEW p \in Pods
               PROVE  LET claimed == {i \in 1..Len(tasks[p]) : tasks[p][i] = Claimed} IN
                        /\ Cardinality(claimed) <= 1
                        /\ claimed # {} <=> exec[p].pc # "idle"
                        /\ ingest[p].pc # "start" => \E j \in IngestionJobs : Running(p, j)
    BY DEF ExecutorQueue
  <2> DEFINE claimed == {i \in 1..Len(tasks[p]) : tasks[p][i] = Claimed}
  <2>1. QueueOf(tasks[p], exec[p].pc, ingest[p].pc)
    BY DEF TasksInv
  <2>2. claimed # {} <=> exec[p].pc # "idle"
    BY <2>1 DEF QueueOf
  <2>3. Cardinality(claimed) <= 1
    <3>1. CASE claimed = {}
      <4>1. Cardinality(claimed) = 0
        BY <3>1, FS_EmptySet, Zenon
      <4> QED
        BY <4>1
    <3>2. CASE claimed # {}
      <4>1. PICK i \in 1..Len(tasks[p]) : tasks[p][i] = Claimed
        BY <3>2
      <4>2. \A k \in claimed : k = i
        BY <2>1, <4>1 DEF QueueOf
      <4>3. claimed = {i}
        BY <4>1, <4>2
      <4> QED
        <5>1. Cardinality(claimed) = 1
          BY <4>3, FS_Singleton, Zenon
        <5> QED
          BY <5>1
    <3> QED
      BY <3>1, <3>2
  <2>4. ingest[p].pc # "start" => \E j \in IngestionJobs : Running(p, j)
    BY <2>1 DEF QueueOf, Running
  <2> QED
    BY <2>2, <2>3, <2>4
<1> QED
  BY <1>1, IngestInvInit, IngestInvStep, TasksInit, TasksStep, PTL DEF IngestionSpec
=============================================================================
