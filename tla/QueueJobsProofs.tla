-------------------------- MODULE QueueJobsProofs --------------------------
(***************************************************************************)
(* Theorems about the jobs of JobQueue: who has one, what a full pool has, *)
(* and how often a job is handed to an executor, whatever fails.           *)
(***************************************************************************)
EXTENDS JobQueueProofs, FiniteSetTheorems

-----------------------------------------------------------------------------
(* A pod without a free slot has a claimed job. *)

\* A step that leaves a pod without a slot leaves it a job, unless a database error
\* interrupts the claim or the requeue.
LEMMA FullStep ==
  "db" \notin FaultKinds /\ Inv /\ FullMeansBusy /\ [Next]_vars => FullMeansBusy'
<1> SUFFICES ASSUME "db" \notin FaultKinds, Inv, FullMeansBusy, [Next]_vars
             PROVE  FullMeansBusy'
  OBVIOUS
<1> USE DEF Inv
<1> DEFINE Full(p) == slots[p] = 0 => worker[p].ticket # NoTicket \/ exec[p].ticket # NoTicket
<1>1. \A p \in Pods : Full(p)
  BY HeldThreads DEF FullMeansBusy, Busy
<1>2. ASSUME NEW p \in Pods, WorkerStep(p) \/ WorkerError(p) PROVE \A q \in Pods : Full(q)'
  <2>1. \A q \in Pods \ {p} : UNCHANGED <<worker[q], exec[q], slots[q]>>
    BY <1>2 DEF TypeOK, WorkerStep, WorkerError, RecoverRead, RecoverWrite, CleanupRead,
       CleanupWrite, Claim, NothingClaimed, SubmitTask, RequeueWrite, MaintenanceError, ClaimError,
       SubmitError, RequeueError, TakeSlot, ReleaseSlot, Goto
  <2>2. Full(p)'
    <3> USE DEF TypeOK, Worker, NewWorker, NewExec, NoTicket
    <3>1. CASE RecoverRead(p) \/ RecoverWrite(p) \/ CleanupRead(p) \/ CleanupWrite(p)
      BY <1>1, <3>1 DEF RecoverRead, RecoverWrite, CleanupRead, CleanupWrite
    <3>2. CASE \E j \in Jobs : Claim(p, j)
      BY <3>2, JobsAssumption DEF Claim
    <3>3. CASE NothingClaimed(p) \/ MaintenanceError(p) \/ SubmitError(p)
      BY <1>1, <3>3 DEF NothingClaimed, MaintenanceError, SubmitError, Goto
    <3>4. CASE SubmitTask(p)
      <4>1. worker[p].ticket # NoTicket
        BY <3>4, HeldThreads DEF SubmitTask, OneTaskPerPod, Busy
      <4>2. exec'[p].ticket = worker[p].ticket
        BY <3>4 DEF SubmitTask
      <4> QED
        BY <4>1, <4>2
    <3>5. CASE RequeueWrite(p)
      BY <3>5 DEF RequeueWrite, ReleaseSlot, ExecutorMaxWorkers
    <3>6. ~RequeueError(p) /\ ~ClaimError(p)
      BY DEF RequeueError, ClaimError, Fault
    <3> QED
      BY <1>2, <3>1, <3>2, <3>3, <3>4, <3>5, <3>6 DEF WorkerStep, WorkerError
  <2> QED
    BY <1>1, <2>1, <2>2
<1>3. ASSUME NEW p \in Pods, ExecStep(p) PROVE \A q \in Pods : Full(q)'
  <2>1. UNCHANGED worker
    BY <1>3 DEF ExecStep, ReachCheckpoint, CheckStopped, CheckSuperseded, TaskRaises, Finalize,
       FinalizeFailed, UpdateStoppedRead, UpdateStoppedWrite, CallbackRead, CallbackWrite
  <2>2. CASE Finish(p)
    BY <1>1, <2>1, <2>2 DEF Finish, ReleaseSlot, TypeOK, ExecutorMaxWorkers
  <2>3. CASE ~Finish(p)
    <3>1. UNCHANGED slots /\ \A q \in Pods : exec'[q].ticket = exec[q].ticket
      BY <1>3, <2>3, SMTT(30) DEF TypeOK, Exec, ExecStep, ReachCheckpoint, CheckStopped, CheckSuperseded,
         TaskRaises, Finalize, FinalizeFailed, UpdateStoppedRead, UpdateStoppedWrite, CallbackRead,
         CallbackWrite, ExecGoto
    <3> QED
      BY <1>1, <2>1, <3>1
  <2> QED
    BY <2>2, <2>3
<1>4. ASSUME NEW p \in Pods, Crash(p) PROVE \A q \in Pods : Full(q)'
  BY <1>1, <1>4 DEF Crash, TypeOK, ExecutorMaxWorkers
<1>5. ASSUME \/ \E j \in Jobs : Request(j) \/ ProgressTimeout(j) \/ Age(j)
             \/ LoseLock \/ UNCHANGED vars
      PROVE  \A q \in Pods : Full(q)'
  BY <1>1, <1>5 DEF Request, Submit, ScheduleHarness, Insert, StopRead, StopWrite,
     ProgressTimeout, Age, LoseLock, vars
<1>6. \A q \in Pods : Full(q)'
  BY <1>2, <1>3, <1>4, <1>5 DEF Next
<1> QED
  BY <1>6, HeldThreads DEF FullMeansBusy, Busy, Held

\* As long as the database answers, a pod that reports a full pool has a claimed job,
\* whatever crashes, however submissions fail and whichever way its tasks end.
THEOREM FullBusy == "db" \notin FaultKinds => (Spec => []FullMeansBusy)
<1> SUFFICES ASSUME "db" \notin FaultKinds PROVE Spec => []FullMeansBusy
  OBVIOUS
<1>1. Init => FullMeansBusy
  BY DEF Init, FullMeansBusy, ExecutorMaxWorkers
<1>2. Inv /\ FullMeansBusy /\ [Next]_vars => FullMeansBusy'
  BY FullStep
<1> QED
  BY <1>1, <1>2, Invariance, PTL DEF Spec

-----------------------------------------------------------------------------
(* Without progress timeouts a job has one worker. *)

\* A running row has recent progress, and maintenance finds nothing to recover.
PromptRows == \A j \in Jobs : row[j].status = "running" => row[j].last_progress_at = "fresh"
NothingLoaded == \A p \in Pods : worker[p].pc = "recover" => worker[p].loaded = NewWorker.loaded

\* Nobody holds a pending job.
PendingUnheld ==
  \A t \in Threads : Busy(t) => row[Held(t).job].status # "pending"

PromptInv == PromptRows /\ NothingLoaded /\ PendingUnheld /\ NoConcurrentRuns

\* A row that is running after a step has been running, or has just been claimed: then
\* its progress is recent.
LEMMA PromptRowsStep ==
  SlowJobs = {} /\ Inv /\ PromptRows /\ [Next]_vars => PromptRows'
<1> SUFFICES ASSUME SlowJobs = {}, Inv, PromptRows, [Next]_vars,
                    NEW j \in Jobs, row'[j].status = "running"
             PROVE  row'[j].last_progress_at = "fresh"
  BY DEF PromptRows
<1> USE DEF Inv
<1>1. row[j] \in Row
  BY DEF TypeOK
<1>2. ASSUME NEW old, NEW s \in {"pending", "failed", "stopped"},
             row'[j] = Flush(row[j], old, s)
      PROVE  row'[j].last_progress_at = "fresh"
  BY <1>1, <1>2 DEF Flush, Row, PromptRows
<1>3. CASE row'[j] = row[j]
  BY <1>3 DEF PromptRows
<1>4. ASSUME NEW p \in Pods, WorkerStep(p) \/ WorkerError(p), row'[j] # row[j]
      PROVE  row'[j].last_progress_at = "fresh"
  <2>1. CASE RecoverWrite(p)
    BY <1>2, <1>4, <2>1 DEF RecoverWrite, Verdict
  <2>2. CASE CleanupWrite(p)
    BY <1>2, <1>4, <2>2 DEF CleanupWrite
  <2>3. CASE RequeueWrite(p)
    BY <1>2, <1>4, <2>3 DEF RequeueWrite, TypeOK
  <2>4. CASE (\E i \in Jobs : Claim(p, i)) \/ ClaimError(p)
    BY <1>4, <2>4 DEF Claim, ClaimError, ClaimRow, TypeOK
  <2> QED
    BY <1>4, <2>1, <2>2, <2>3, <2>4 DEF WorkerStep, WorkerError, RecoverRead, CleanupRead,
       NothingClaimed, SubmitTask, MaintenanceError, SubmitError, RequeueError
<1>5. ASSUME NEW p \in Pods, ExecStep(p), row'[j] # row[j]
      PROVE  row'[j].last_progress_at = "fresh"
  <2>1. CASE ReachCheckpoint(p)
    BY <1>1, <1>5, <2>1 DEF ReachCheckpoint, TypeOK, Row
  <2>2. CASE Finalize(p) \/ FinalizeFailed(p)
    <3>1. PICK s, runs : s \in {"completed", "failed"} /\ FinalizeRow(p, s, runs)
      BY <1>5, <2>2 DEF Finalize, FinalizeFailed
    <3>2. row'[j].status # "running"
      BY <1>5, <3>1 DEF FinalizeRow, Finalized, TypeOK
    <3> QED
      BY <3>2
  <2>3. CASE UpdateStoppedWrite(p)
    BY <1>2, <1>5, <2>3 DEF UpdateStoppedWrite, TypeOK
  <2>4. CASE CallbackWrite(p)
    BY <1>2, <1>5, <2>4 DEF CallbackWrite, TypeOK
  <2> QED
    BY <1>5, <2>1, <2>2, <2>3, <2>4 DEF ExecStep, CheckStopped, CheckSuperseded, TaskRaises,
       UpdateStoppedRead, CallbackRead
<1>6. ASSUME NEW i \in Jobs, Request(i) \/ ProgressTimeout(i) \/ Age(i), row'[j] # row[j]
      PROVE  row'[j].last_progress_at = "fresh"
  BY <1>1, <1>2, <1>6 DEF Request, Submit, ScheduleHarness, Insert, StopRead, StopWrite,
     ProgressTimeout, Age, TypeOK, Row
<1> QED
  BY <1>3, <1>4, <1>5, <1>6 DEF Next, Crash, LoseLock, vars

\* Rows with recent progress are not loaded for recovery.
LEMMA NothingLoadedStep ==
  Inv /\ PromptRows /\ NothingLoaded /\ [Next]_vars => NothingLoaded'
<1> SUFFICES ASSUME Inv, PromptRows, NothingLoaded, [Next]_vars,
                    NEW p \in Pods, worker'[p].pc = "recover"
             PROVE  worker'[p].loaded = NewWorker.loaded
  BY DEF NothingLoaded, NewWorker
<1> USE DEF Inv
<1>1. CASE RecoverRead(p)
  <2>1. worker'[p].loaded = [j \in Jobs |-> IF IsStale(row[j]) THEN Load(j) ELSE NotLoaded]
    BY <1>1 DEF RecoverRead, TypeOK, Worker
  <2>2. \A j \in Jobs : ~IsStale(row[j])
    BY DEF PromptRows, IsStale
  <2> QED
    BY <2>1, <2>2 DEF NewWorker
<1>2. CASE ~RecoverRead(p)
  <2>1. ~Crash(p)
    BY DEF Crash, TypeOK, NewWorker
  <2>2. ~WorkerStep(p)
    BY <1>2 DEF TypeOK, Worker, NewWorker, WorkerStep, RecoverWrite, CleanupRead, CleanupWrite,
       Claim, NothingClaimed, SubmitTask, RequeueWrite, Goto
  <2>3. ~WorkerError(p)
    BY DEF TypeOK, Worker, NewWorker, WorkerError, MaintenanceError, ClaimError, SubmitError,
       RequeueError, Goto
  <2> QED
    BY <2>1, <2>2, <2>3, OwnWorker DEF NothingLoaded, NewWorker
<1> QED
  BY <1>1, <1>2

\* Only rows nobody holds become pending: new ones, and one whose only holder gives it
\* up in the same step.
LEMMA PendingUnheldStep ==
  Inv /\ NothingOfAbsent /\ PromptInv /\ [Next]_vars => PendingUnheld'
<1> SUFFICES ASSUME Inv, NothingOfAbsent, PromptInv, [Next]_vars,
                    NEW t \in Threads, Busy(t)', row'[Held(t)'.job].status = "pending"
             PROVE  FALSE
  BY DEF PendingUnheld, Threads
<1> USE DEF Inv
<1> DEFINE j == Held(t)'.job
<1>1. CASE \E p \in Pods, i \in Jobs : Claim(p, i)
  <2>1. PICK p \in Pods, i \in Jobs : Claim(p, i)
    BY <1>1
  <2>2. row'[i].status = "running" /\ \A k \in Jobs \ {i} : row'[k] = row[k]
    BY <2>1 DEF Claim, ClaimRow, TypeOK
  <2>3. CASE t = <<p, "worker">>
    BY <2>1, <2>2, <2>3 DEF Held, Claim, TypeOK, Worker
  <2>4. CASE t # <<p, "worker">>
    <3>1. Held(t)' = Held(t) /\ Busy(t)
      BY <2>1, <2>4 DEF Held, Busy, Threads, Claim, TypeOK
    <3>2. Held(t).job \in Jobs
      BY <3>1, BusyJob
    <3> QED
      BY <2>2, <3>1, <3>2 DEF PromptInv, PendingUnheld
  <2> QED
    BY <2>3, <2>4
<1>2. CASE \E p \in Pods : SubmitTask(p)
  <2>1. PICK p \in Pods : SubmitTask(p)
    BY <1>2
  <2>2. Tickets' \subseteq Tickets /\ row' = row
    BY <2>1, SubmitTickets DEF SubmitTask
  <2>3. Held(t)' \in Tickets'
    BY DEF Tickets, Threads
  <2>4. PICK u \in Threads : Busy(u) /\ Held(u) = Held(t)'
    BY <2>2, <2>3 DEF Tickets
  <2> QED
    BY <2>2, <2>4 DEF PromptInv, PendingUnheld
<1>3. CASE Dropped
  <2>1. Held(t)' = Held(t) /\ Busy(t)
    BY <1>3 DEF Dropped, Busy
  <2>2. j \in Jobs /\ row[j].status \notin {"absent", "pending"}
    BY <2>1, HeldExists DEF PromptInv, PendingUnheld
  <2>3. Requeued(j) /\ row'[j] # row[j]
    BY <2>2, RowStep DEF RowMove, Unmoved, Ended, Submitted, Taken, Published
  <2>4. PICK p \in Pods : (RecoverWrite(p) /\ worker[p].loaded[j] # NotLoaded) \/ RequeueWrite(p)
    BY <2>3 DEF Requeued
  <2>5. ~(RecoverWrite(p) /\ worker[p].loaded[j] # NotLoaded)
    BY <2>2 DEF RecoverWrite, PromptInv, NothingLoaded, NewWorker
  <2>6. RequeueWrite(p)
    BY <2>4, <2>5
  <2> DEFINE w == <<p, "worker">>
  <2>7. w \in Threads /\ Busy(w) /\ Held(w).job = j /\ Held(w)' = NoTicket
    <3>1. worker[p].ticket.job = j
      BY <2>3, <2>6 DEF RequeueWrite, TypeOK
    <3> QED
      BY <2>6, <3>1, HeldThreads DEF Threads, OneTaskPerPod, RequeueWrite, Held, TypeOK, NewWorker
  <2>8. t # w
    BY <2>7 DEF Busy
  <2> QED
    BY <2>1, <2>7, <2>8 DEF PromptInv, NoConcurrentRuns
<1> QED
  BY <1>1, <1>2, <1>3, TicketStep

\* A claimed job had no holder, and a job passed to the executor leaves the worker.
LEMMA OneRunStep ==
  Inv /\ PromptInv /\ [Next]_vars => NoConcurrentRuns'
<1> SUFFICES ASSUME Inv, PromptInv, [Next]_vars, NEW t \in Threads, NEW u \in Threads,
                    Busy(t)', Busy(u)', Held(t)'.job = Held(u)'.job
             PROVE  t = u
  BY DEF NoConcurrentRuns, Threads
<1> USE DEF Inv
<1>1. ASSUME NEW p \in Pods, NEW i \in Jobs, Claim(p, i) PROVE t = u
  <2> DEFINE w == <<p, "worker">>
  <2>1. Held(w)'.job = i
    BY <1>1 DEF Held, Claim, TypeOK, Worker
  <2>2. ASSUME NEW v \in Threads, v # w, Busy(v)'
        PROVE  Held(v)' = Held(v) /\ Busy(v) /\ Held(v).job # i
    <3>1. Held(v)' = Held(v) /\ Busy(v)
      BY <1>1, <2>2 DEF Held, Busy, Threads, Claim, TypeOK
    <3> QED
      BY <1>1, <3>1 DEF Claim, OldestPending, Pending, PromptInv, PendingUnheld
  <2> QED
    BY <2>1, <2>2 DEF PromptInv, NoConcurrentRuns
<1>2. ASSUME NEW p \in Pods, SubmitTask(p) PROVE t = u
  <2> DEFINE w == <<p, "worker">>
             e == <<p, "executor">>
             From(v) == IF v = e THEN w ELSE v
  <2>1. w \in Threads /\ e \in Threads /\ Held(e)' = Held(w) /\ Held(w)' = NoTicket
    BY <1>2 DEF Threads, Held, SubmitTask, TypeOK, Worker, Exec, NewExec, NewWorker
  <2>2. \A v \in Threads \ {w, e} : Held(v)' = Held(v)
    BY <1>2 DEF Held, Threads, SubmitTask, TypeOK
  <2>3. t # w /\ u # w
    BY <2>1 DEF Busy
  <2>4. /\ Held(From(t)) = Held(t)' /\ From(t) \in Threads /\ Busy(From(t))
        /\ Held(From(u)) = Held(u)' /\ From(u) \in Threads /\ Busy(From(u))
    BY <2>1, <2>2, <2>3 DEF Busy
  <2>5. From(t) = From(u)
    BY <2>4 DEF PromptInv, NoConcurrentRuns
  <2> QED
    BY <2>3, <2>5
<1>3. CASE Dropped
  <2>1. Held(t)' = Held(t) /\ Busy(t) /\ Held(u)' = Held(u) /\ Busy(u)
    BY <1>3 DEF Dropped, Busy
  <2> QED
    BY <2>1 DEF PromptInv, NoConcurrentRuns
<1> QED
  BY <1>1, <1>2, <1>3, TicketStep

\* No two threads of any pods have one job, as long as no timeout passes: stops, ageing,
\* failed submissions, lost locks, crashes and database errors do not suffice.
THEOREM OneRun == SlowJobs = {} => (Spec => []NoConcurrentRuns)
<1> SUFFICES ASSUME SlowJobs = {} PROVE Spec => []NoConcurrentRuns
  OBVIOUS
<1>1. Spec => []NothingOfAbsent
  <2>1. Init => NothingOfAbsent
    BY DEF Init, NothingOfAbsent, NewWorker
  <2> QED
    BY <2>1, NothingOfAbsentStep, Invariance, PTL DEF Spec
<1>2. Init => PromptInv
  <2>1. ASSUME Init, NEW t \in Threads PROVE ~Busy(t)
    BY <2>1, HeldThreads DEF Init, Busy, NewWorker, NewExec
  <2> QED
    BY <2>1 DEF Init, PromptInv, PromptRows, NothingLoaded, PendingUnheld, NoConcurrentRuns,
       NewWorker
<1>3. Inv /\ NothingOfAbsent /\ PromptInv /\ [Next]_vars => PromptInv'
  BY PromptRowsStep, NothingLoadedStep, PendingUnheldStep, OneRunStep DEF PromptInv
<1>4. PromptInv => NoConcurrentRuns
  BY DEF PromptInv
<1> QED
  BY <1>1, <1>2, <1>3, <1>4, Invariance, PTL DEF Spec

-----------------------------------------------------------------------------
(* Without crashes and errors a running job has a worker. *)

\* The thread that holds the newest attempt of a running job, in the pod that the row
\* names, if it names one.
Owner(j, t) ==
  /\ Held(t) = Current(j)
  /\ row[j].claimed_by # None => t[1] = row[j].claimed_by

Owned == \A j \in Jobs : row[j].status = "running" => \E t \in Threads : Owner(j, t)

\* What a task that is about to write a status has read: a stopped row is not running
\* at the task's attempt any more, and a callback only writes to a row it saw running.
EndingRead ==
  \A p \in Pods :
    /\ exec[p].pc = "stopwrite" /\ exec[p].loaded.status = "stopped" =>
         Superseded(p) \/ row[MyJob(p)].status # "running"
    /\ exec[p].pc = "callbackwrite" => exec[p].loaded.status = "running"

OwnerInv == NoRequeue /\ EndingRead /\ Owned

\* A step that is not a claim leaves a lease as it is or clears it, and makes no row
\* running.
LEMMA LeaseStep ==
  ASSUME Inv, [Next]_vars, NEW j \in Jobs
  PROVE  \/ /\ row'[j].claimed_by \in {row[j].claimed_by, None}
            /\ row'[j].status = "running" => row[j].status = "running"
         \/ \E p \in Pods : Claim(p, j) \/ ClaimError(p)
<1> USE DEF Inv
<1> DEFINE Kin == /\ row'[j].claimed_by \in {row[j].claimed_by, None}
                  /\ row'[j].status = "running" => row[j].status = "running"
<1>1. row[j] \in Row
  BY DEF TypeOK
<1>2. ASSUME NEW old, NEW s \in {"pending", "failed", "stopped"},
             row'[j] = Flush(row[j], old, s)
      PROVE  Kin
  BY <1>1, <1>2 DEF Flush, Row
<1>3. ASSUME NEW p \in Pods, WorkerStep(p) \/ WorkerError(p), row'[j] # row[j]
      PROVE  Kin \/ Claim(p, j) \/ ClaimError(p)
  <2>1. CASE RecoverWrite(p)
    BY <1>2, <1>3, <2>1 DEF RecoverWrite, Verdict
  <2>2. CASE CleanupWrite(p) \/ RequeueWrite(p)
    BY <1>2, <1>3, <2>2 DEF CleanupWrite, RequeueWrite, TypeOK
  <2>3. CASE \E i \in Jobs : Claim(p, i)
    BY <1>3, <2>3 DEF Claim, TypeOK
  <2> QED
    BY <1>3, <2>1, <2>2, <2>3 DEF WorkerStep, WorkerError, RecoverRead, CleanupRead,
       NothingClaimed, SubmitTask, MaintenanceError, SubmitError, RequeueError
<1>4. ASSUME NEW p \in Pods, ExecStep(p), row'[j] # row[j] PROVE Kin
  <2>1. CASE ReachCheckpoint(p)
    BY <1>1, <1>4, <2>1 DEF ReachCheckpoint, TypeOK, Row
  <2>2. CASE Finalize(p) \/ FinalizeFailed(p)
    <3>1. PICK s, runs : s \in {"completed", "failed"} /\ FinalizeRow(p, s, runs)
      BY <1>4, <2>2 DEF Finalize, FinalizeFailed
    <3> QED
      BY <1>4, <3>1 DEF FinalizeRow, Finalized, TypeOK
  <2>3. CASE UpdateStoppedWrite(p) \/ CallbackWrite(p)
    BY <1>2, <1>4, <2>3 DEF UpdateStoppedWrite, CallbackWrite, TypeOK
  <2> QED
    BY <1>4, <2>1, <2>2, <2>3 DEF ExecStep, CheckStopped, CheckSuperseded, TaskRaises,
       UpdateStoppedRead, CallbackRead
<1>5. ASSUME NEW i \in Jobs, Request(i) \/ ProgressTimeout(i) \/ Age(i), row'[j] # row[j]
      PROVE  Kin
  BY <1>1, <1>2, <1>5 DEF Request, Submit, ScheduleHarness, Insert, StopRead, StopWrite,
     ProgressTimeout, Age, TypeOK, Row
<1> QED
  BY <1>3, <1>4, <1>5 DEF Next, Crash, LoseLock, vars

\* A task only ends when its attempt is superseded or its row is not running.
LEMMA EndingStep ==
  ASSUME FaultKinds \subseteq {"lock"}, Inv, EndingRead, NEW p \in Pods, ExecStep(p), Finish(p),
         exec[p].pc # "idle"
  PROVE  Superseded(p) \/ row'[MyJob(p)].status # "running"
<1> DEFINE e == <<p, "executor">>
<1> USE DEF Inv
<1>1. MyJob(p) \in Jobs /\ exec[p].ticket \in Ticket
  <2>1. e \in Threads /\ Busy(e) /\ Held(e) = exec[p].ticket
    BY HeldThreads DEF Threads, OneTaskPerPod
  <2> QED
    BY <2>1, BusyJob DEF MyJob, TypeOK, Exec
<1>2. exec'[p].pc = "idle"
  BY DEF Finish, NewExec, TypeOK
<1>3. ~Fault("db")
  BY DEF Fault
<1>4. CASE CheckSuperseded(p)
  BY <1>2, <1>3, <1>4 DEF CheckSuperseded, TypeOK, Exec
<1>5. CASE Finalize(p)
  <2>1. PICK s \in {"completed", "failed"} : FinalizeRow(p, s, exec[p].ticket.attempt_count)
    BY <1>3, <1>5 DEF Finalize
  <2>2. CASE OwnsRow(p)
    <3>1. row'[MyJob(p)].status = s
      BY <1>1, <2>1, <2>2 DEF FinalizeRow, Finalized, TypeOK
    <3> QED
      BY <3>1
  <2>3. CASE ~OwnsRow(p)
    <3>1. row'[MyJob(p)] = row[MyJob(p)]
      BY <1>1, <2>1, <2>3 DEF FinalizeRow, TypeOK
    <3> QED
      BY <2>3, <3>1 DEF OwnsRow
  <2> QED
    BY <2>2, <2>3
<1>6. CASE UpdateStoppedWrite(p)
  <2>1. row'[MyJob(p)] = Flush(row[MyJob(p)], exec[p].loaded, "stopped")
    BY <1>1, <1>3, <1>6 DEF UpdateStoppedWrite, TypeOK
  <2>2. row'[MyJob(p)].status =
          IF exec[p].loaded.status = "stopped" THEN row[MyJob(p)].status ELSE "stopped"
    BY <1>1, <2>1 DEF Flush, TypeOK, Row
  <2> QED
    BY <1>6, <2>2 DEF EndingRead, UpdateStoppedWrite
<1>7. CASE CallbackRead(p)
  BY <1>2, <1>3, <1>7 DEF CallbackRead, TypeOK, Exec
<1>8. CASE CallbackWrite(p)
  <2>1. row'[MyJob(p)] = Flush(row[MyJob(p)], exec[p].loaded, "failed")
    BY <1>1, <1>3, <1>8 DEF CallbackWrite, TypeOK
  <2>2. row'[MyJob(p)].status = "failed"
    BY <1>1, <1>8, <2>1 DEF Flush, TypeOK, Row, EndingRead, CallbackWrite
  <2> QED
    BY <2>2
<1>9. CASE \/ ReachCheckpoint(p) \/ CheckStopped(p) \/ TaskRaises(p) \/ FinalizeFailed(p)
          \/ UpdateStoppedRead(p)
  BY <1>2, <1>9 DEF ReachCheckpoint, CheckStopped, TaskRaises, FinalizeFailed, UpdateStoppedRead,
     ExecGoto, TypeOK, Exec
<1> QED
  BY <1>4, <1>5, <1>6, <1>7, <1>8, <1>9 DEF ExecStep

\* A step of another thread leaves a pod's executor alone.
LEMMA OwnExec ==
  ASSUME TypeOK, [Next]_vars, NEW p \in Pods, ~ExecStep(p), ~SubmitTask(p), ~Crash(p)
  PROVE  exec'[p] = exec[p]
<1>1. ASSUME NEW q \in Pods, WorkerStep(q) \/ WorkerError(q) PROVE exec'[p] = exec[p]
  BY <1>1 DEF TypeOK, WorkerStep, WorkerError, RecoverRead, RecoverWrite, CleanupRead, CleanupWrite,
     Claim, NothingClaimed, SubmitTask, RequeueWrite, MaintenanceError, ClaimError, SubmitError,
     RequeueError
<1>2. ASSUME NEW q \in Pods, ExecStep(q) PROVE exec'[p] = exec[p]
  BY <1>2 DEF TypeOK, ExecStep, ReachCheckpoint, CheckStopped, CheckSuperseded, TaskRaises, Finalize,
     FinalizeFailed, UpdateStoppedRead, UpdateStoppedWrite, CallbackRead, CallbackWrite, Finish,
     ExecGoto
<1> QED
  BY <1>1, <1>2 DEF Next, Request, Submit, ScheduleHarness, Insert, StopRead, StopWrite,
     ProgressTimeout, Age, Crash, LoseLock, vars, TypeOK

\* An attempt that has been superseded stays so, and a row that is running again is at
\* a newer attempt.
LEMMA EndingReadStep ==
  FaultKinds \subseteq {"lock"} /\ Inv /\ EndingRead /\ [Next]_vars => EndingRead'
<1> SUFFICES ASSUME FaultKinds \subseteq {"lock"}, Inv, EndingRead, [Next]_vars, NEW p \in Pods
             PROVE  /\ exec'[p].pc = "stopwrite" /\ exec'[p].loaded.status = "stopped" =>
                         Superseded(p)' \/ row'[MyJob(p)'].status # "running"
                    /\ exec'[p].pc = "callbackwrite" => exec'[p].loaded.status = "running"
  BY DEF EndingRead
<1> USE DEF Inv
<1>1. ~Crash(p)
  BY DEF Crash, Fault
<1>2. CASE SubmitTask(p)
  BY <1>2 DEF SubmitTask, TypeOK, NewExec
<1>3. CASE ExecStep(p)
  <2>1. CASE UpdateStoppedRead(p)
    BY <2>1 DEF UpdateStoppedRead, Load, MyJob, TypeOK, Exec
  <2>2. CASE CallbackRead(p)
    BY <2>2 DEF CallbackRead, Load, MyJob, TypeOK, Exec, Finish, NewExec
  <2>3. CASE ~UpdateStoppedRead(p) /\ ~CallbackRead(p)
    BY <1>3, <2>3 DEF TypeOK, Exec, ExecStep, ReachCheckpoint, CheckStopped, CheckSuperseded,
       TaskRaises, Finalize, FinalizeFailed, UpdateStoppedWrite, CallbackWrite, Finish,
       ExecGoto, NewExec
  <2> QED
    BY <2>1, <2>2, <2>3
<1>4. CASE exec'[p] = exec[p]
  <2> DEFINE e == <<p, "executor">>
             j == MyJob(p)
  <2>1. SUFFICES ASSUME exec[p].pc = "stopwrite", exec[p].loaded.status = "stopped",
                        row'[j].status = "running"
                 PROVE  row'[j].attempt_count # exec[p].ticket.attempt_count
    BY <1>4 DEF EndingRead, MyJob, Superseded
  <2>2. e \in Threads /\ Busy(e) /\ Held(e) = exec[p].ticket
    BY <2>1, HeldThreads DEF Threads, OneTaskPerPod
  <2>3. j \in Jobs /\ exec[p].ticket.attempt_count \in 1..row[j].attempt_count
    BY <2>2, BusyJob DEF MyJob, AttemptHeldOnce
  <2>4. /\ row[j].attempt_count \in Nat /\ row'[j].attempt_count \in Nat
        /\ row'[j].attempt_count >= row[j].attempt_count
    BY <2>3, AttemptsGrow
  <2>5. CASE Superseded(p)
    BY <2>3, <2>4, <2>5 DEF Superseded
  <2>6. CASE row[j].status # "running"
    <3>1. row'[j].attempt_count = row[j].attempt_count + 1
      BY <2>1, <2>3, <2>6, RowStep
         DEF RowMove, Unmoved, Ended, Submitted, Requeued, Taken, Published
    <3> QED
      BY <2>3, <2>4, <3>1
  <2> QED
    BY <2>1, <2>5, <2>6 DEF EndingRead
<1> QED
  BY <1>1, <1>2, <1>3, <1>4, OwnExec

\* A running job keeps its owner, or its owner's pod passes it to the executor.
LEMMA OwnedStep ==
  FaultKinds \subseteq {"lock"} /\ Inv /\ OwnerInv /\ [Next]_vars => Owned'
<1> SUFFICES ASSUME FaultKinds \subseteq {"lock"}, Inv, OwnerInv, [Next]_vars,
                    NEW j \in Jobs, row'[j].status = "running"
             PROVE  \E t \in Threads : Owner(j, t)'
  BY DEF Owned, Threads
<1> USE DEF Inv
<1>0. \A p \in Pods : ~ClaimError(p) /\ ~Crash(p) /\ ~WorkerError(p)
  BY DEF WorkerError, MaintenanceError, ClaimError, SubmitError, RequeueError, Crash, Fault
<1>1. CASE \E p \in Pods : Claim(p, j)
  <2>1. PICK p \in Pods : Claim(p, j)
    BY <1>1
  <2> DEFINE w == <<p, "worker">>
  <2>2. row'[j] = ClaimRow(row[j], p)
    BY <2>1 DEF Claim, TypeOK
  <2>3. w \in Threads /\ Held(w)' = Current(j)'
    BY <2>1, <2>2 DEF Threads, Held, Claim, ClaimRow, Current, TypeOK, Worker
  <2>4. row'[j].claimed_by = p
    BY <2>2 DEF ClaimRow
  <2> QED
    BY <2>3, <2>4 DEF Owner
<1>2. CASE ~\E p \in Pods : Claim(p, j)
  <2>1. row[j].status = "running" /\ row'[j].claimed_by \in {row[j].claimed_by, None}
    BY <1>0, <1>2, LeaseStep
  <2>2. row'[j].attempt_count = row[j].attempt_count
    BY <2>1, RowStep DEF RowMove, Unmoved, Ended, Submitted, Requeued, Taken, Published, Kept
  <2>3. PICK t \in Threads : Owner(j, t)
    BY <2>1 DEF OwnerInv, Owned
  <2>4. Busy(t) /\ Held(t) = Current(j) /\ Current(j)' = Current(j)
    BY <2>2, <2>3, JobsAssumption DEF Owner, Busy, NoTicket, Current
  <2>5. ASSUME NEW u \in Threads, Held(u)' = Held(t), u[1] = t[1] PROVE Owner(j, u)'
    BY <2>1, <2>3, <2>4, <2>5 DEF Owner
  <2>6. PICK p \in Pods : t = <<p, "worker">> \/ t = <<p, "executor">>
    BY HeldThreads
  <2> DEFINE w == <<p, "worker">>
             e == <<p, "executor">>
  <2>7. w \in Threads /\ e \in Threads /\ w[1] = p /\ e[1] = p
    BY DEF Threads
  <2>8. CASE t = e
    <3>1. exec[p].pc # "idle" /\ MyJob(p) = j /\ ~Superseded(p)
      <4>1. exec[p].ticket = Current(j)
        BY <2>4, <2>8, HeldThreads
      <4>2. exec[p].pc # "idle"
        BY <2>4, <2>8, HeldThreads DEF OneTaskPerPod
      <4> QED
        BY <4>1, <4>2 DEF MyJob, Superseded, Current
    <3>2. ~SubmitTask(p)
      BY <2>4, <2>8, HeldThreads DEF OneTaskPerPod, SubmitTask, Busy
    <3>3. exec'[p].ticket = exec[p].ticket
      <4>1. CASE ExecStep(p)
        <5>1. ~Finish(p)
          BY <3>1, <4>1, EndingStep DEF OwnerInv
        <5> QED
          BY <4>1, <5>1 DEF TypeOK, Exec, ExecStep, ReachCheckpoint, CheckStopped, CheckSuperseded,
             TaskRaises, Finalize, FinalizeFailed, UpdateStoppedRead, UpdateStoppedWrite,
             CallbackRead, CallbackWrite, ExecGoto
      <4>2. CASE ~ExecStep(p)
        BY <1>0, <3>2, <4>2, OwnExec
      <4> QED
        BY <4>1, <4>2
    <3>4. Held(e)' = Held(t)
      BY <2>8, <3>3 DEF Held
    <3> QED
      BY <2>5, <2>7, <2>8, <3>4
  <2>9. CASE t = w
    <3>1. worker[p].pc = "submit" /\ worker[p].ticket = Held(t)
      BY <2>4, <2>9, HeldThreads DEF OneTaskPerPod, OwnerInv, NoRequeue
    <3>2. CASE SubmitTask(p)
      <4>1. Held(e)' = Held(t)
        BY <3>1, <3>2 DEF Held, SubmitTask, TypeOK, Exec, NewExec
      <4> QED
        BY <2>5, <2>7, <2>9, <4>1
    <3>3. CASE ~SubmitTask(p)
      <4>1. ~WorkerStep(p)
        BY <3>1, <3>3 DEF WorkerStep, RecoverRead, RecoverWrite, CleanupRead, CleanupWrite, Claim,
           NothingClaimed, RequeueWrite
      <4>2. worker'[p] = worker[p]
        BY <1>0, <4>1, OwnWorker
      <4>3. Held(w)' = Held(t)
        BY <3>1, <4>2 DEF Held
      <4> QED
        BY <2>5, <2>7, <2>9, <4>3
    <3> QED
      BY <3>2, <3>3
  <2> QED
    BY <2>6, <2>8, <2>9
<1> QED
  BY <1>1, <1>2

\* Without crashes, failed submissions and database errors, a running row has a thread
\* that holds its newest attempt, in the pod its lease names: timeouts that are wrong
\* about live workers, stops, ageing and a lost lock make no orphan.
LEMMA OwnerHolds ==
  FaultKinds \subseteq {"lock"} => (Spec => []OwnerInv)
<1> SUFFICES ASSUME FaultKinds \subseteq {"lock"} PROVE Spec => []OwnerInv
  OBVIOUS
<1>1. Init => OwnerInv
  BY DEF Init, OwnerInv, NoRequeue, EndingRead, Owned, NewWorker, NewExec
<1>2. Inv /\ OwnerInv /\ [Next]_vars => OwnerInv'
  BY NoRequeueStep, EndingReadStep, OwnedStep DEF OwnerInv, Inv
<1> QED
  BY <1>1, <1>2, Invariance, PTL DEF Spec

\* A running row is no orphan.
THEOREM RunningOwned ==
  FaultKinds \subseteq {"lock"} => (Spec => []RunningHasOwner)
<1>1. OwnerInv => RunningHasOwner
  BY DEF OwnerInv, Owned, Owner, RunningHasOwner
<1> QED
  BY <1>1, OwnerHolds, PTL

\* A lease names the pod that has the job.
THEOREM LeaseOwned ==
  FaultKinds \subseteq {"lock"} => (Spec => []LeaseNamesOwner)
<1>1. OwnerInv => LeaseNamesOwner
  BY DEF OwnerInv, Owned, Owner, LeaseNamesOwner
<1> QED
  BY <1>1, OwnerHolds, PTL

-----------------------------------------------------------------------------
(* How often a job is executed.  A job that is pending, that a worker has      *)
(* claimed and not handed over, or that maintenance is about to make pending   *)
(* may be executed once more.  These chances, with the executions there have   *)
(* been, stay within MAX_JOB_ATTEMPTS and one for each lost lock: a failed     *)
(* submission turns one into another, and maintenance adds one only to a row   *)
(* it has read with an attempt left, while no leader but those who lost the    *)
(* lock has read it too.                                                       *)

\* The pods that have claimed the job and not handed it over, ...
Handing(j) == {p \in Pods : worker[p].ticket.job = j}

\* ... and those that have read its row and are going to make it pending.
Recovering(j) ==
  {p \in Pods : /\ worker[p].pc = "recover" /\ worker[p].loaded[j] # NotLoaded
                /\ worker[p].loaded[j].attempt_count < MaxJobAttempts}

Due(j) == IF row[j].status = "pending" THEN 1 ELSE 0

\* The pods that are in maintenance without the lock.
Lockless == {p \in Pods : Maintaining(p) /\ leader # p}

CountedJob(j) ==
  /\ IsFiniteSet(Handing(j)) /\ IsFiniteSet(Recovering(j))
  /\ started[j] + Cardinality(Handing(j)) <= row[j].attempt_count
  /\ started[j] + Cardinality(Handing(j)) + Due(j) + Cardinality(Recovering(j))
       <= MaxJobAttempts + lost

Counted ==
  /\ IsFiniteSet(Lockless) /\ Cardinality(Lockless) <= lost
  /\ \A j \in Jobs : CountedJob(j)

-----------------------------------------------------------------------------
(* Finite sets. *)

\* A part of a finite set is finite and no larger.
LEMMA Smaller ==
  ASSUME NEW S, IsFiniteSet(S), NEW T, T \subseteq S
  PROVE  /\ IsFiniteSet(T)
         /\ Cardinality(S) \in Nat /\ Cardinality(T) \in Nat
         /\ Cardinality(T) <= Cardinality(S)
BY FS_Subset, FS_CardinalityType

\* A part of a finite set without one of its elements is smaller.
LEMMA OneLess ==
  ASSUME NEW S, IsFiniteSet(S), NEW x \in S, NEW T, T \subseteq S \ {x}
  PROVE  /\ IsFiniteSet(T)
         /\ Cardinality(S) \in Nat /\ Cardinality(T) \in Nat
         /\ Cardinality(T) + 1 <= Cardinality(S)
<1>1. IsFiniteSet(S \ {x}) /\ Cardinality(S \ {x}) = Cardinality(S) - 1
  BY FS_RemoveElement
<1>2. /\ IsFiniteSet(T) /\ Cardinality(T) \in Nat /\ Cardinality(S \ {x}) \in Nat
      /\ Cardinality(T) <= Cardinality(S \ {x})
  BY <1>1, Smaller
<1>3. Cardinality(S) \in Nat
  BY FS_CardinalityType
<1> QED
  BY <1>1, <1>2, <1>3

\* With one more element a finite set has at most one more.
LEMMA OneMore ==
  ASSUME NEW S, IsFiniteSet(S), NEW x, NEW T, T \subseteq S \cup {x}
  PROVE  /\ IsFiniteSet(T)
         /\ Cardinality(S) \in Nat /\ Cardinality(T) \in Nat
         /\ Cardinality(T) <= Cardinality(S) + 1
<1>1. IsFiniteSet(S \cup {x}) /\ Cardinality(S) \in Nat
      /\ Cardinality(S \cup {x}) = IF x \in S THEN Cardinality(S) ELSE Cardinality(S) + 1
  BY FS_AddElement, FS_CardinalityType
<1>2. /\ IsFiniteSet(T) /\ Cardinality(T) \in Nat /\ Cardinality(S \cup {x}) \in Nat
      /\ Cardinality(T) <= Cardinality(S \cup {x})
  BY <1>1, Smaller
<1> QED
  BY <1>1, <1>2

-----------------------------------------------------------------------------
(* What a step may do to the sets. *)

\* Only the pod whose thread takes the step may come to hand over or recover a job.
LEMMA OthersStay ==
  ASSUME NEW p \in Pods, \A q \in Pods \ {p} : worker'[q] = worker[q], NEW j \in Jobs
  PROVE  /\ Handing(j)' \ {p} \subseteq Handing(j) /\ Recovering(j)' \ {p} \subseteq Recovering(j)
         /\ worker'[p].ticket.job # j => Handing(j)' \subseteq Handing(j) \ {p}
         /\ worker'[p].pc # "recover" => Recovering(j)' \subseteq Recovering(j) \ {p}
BY DEF Handing, Recovering

\* A step of a pod's thread leaves the threads of the other pods alone.
LEMMA OthersIdle ==
  ASSUME TypeOK, NEW p \in Pods, WorkerStep(p) \/ WorkerError(p) \/ Crash(p)
  PROVE  \A q \in Pods \ {p} : worker'[q] = worker[q]
<1>1. CASE WorkerStep(p) \/ WorkerError(p)
  BY <1>1 DEF TypeOK, WorkerStep, WorkerError, RecoverRead, RecoverWrite, CleanupRead, CleanupWrite,
     Claim, NothingClaimed, SubmitTask, RequeueWrite, MaintenanceError, ClaimError, SubmitError,
     RequeueError, Goto
<1>2. CASE Crash(p)
  BY <1>2 DEF Crash, TypeOK
<1> QED
  BY <1>1, <1>2

\* A pod comes to hold a job by claiming it, and stops by handing it over or giving
\* it up; only handing it over counts.
LEMMA HandingStep ==
  ASSUME Inv, [Next]_vars, NEW j \in Jobs
  PROVE  \/ Handing(j)' \subseteq Handing(j) /\ started'[j] = started[j]
         \/ \E p \in Handing(j) : /\ SubmitTask(p) /\ Handing(j)' \subseteq Handing(j) \ {p}
                                  /\ started'[j] = started[j] + 1
         \/ \E p \in Pods : /\ Claim(p, j) /\ Handing(j)' \subseteq Handing(j) \cup {p}
                            /\ started'[j] = started[j]
<1> USE DEF Inv
<1>1. ASSUME UNCHANGED <<worker, started>> PROVE Handing(j)' \subseteq Handing(j) /\ started'[j] = started[j]
  BY <1>1 DEF Handing
<1>3. ASSUME NEW p \in Pods, WorkerStep(p) \/ WorkerError(p) \/ Crash(p), ~SubmitTask(p), ~Claim(p, j)
      PROVE  Handing(j)' \subseteq Handing(j) /\ started'[j] = started[j]
  <2>1. \A q \in Pods \ {p} : worker'[q] = worker[q]
    BY <1>3, OthersIdle
  <2>2. UNCHANGED started
    BY <1>3 DEF WorkerStep, WorkerError, RecoverRead, RecoverWrite, CleanupRead, CleanupWrite,
       Claim, NothingClaimed, RequeueWrite, MaintenanceError, ClaimError, SubmitError,
       RequeueError, Crash
  <2>3. worker'[p].ticket.job \in {worker[p].ticket.job, None} \/ \E i \in Jobs \ {j} : Claim(p, i)
    <3>1. CASE RecoverRead(p) \/ RecoverWrite(p) \/ CleanupRead(p) \/ CleanupWrite(p)
      BY <3>1 DEF TypeOK, Worker, RecoverRead, RecoverWrite, CleanupRead, CleanupWrite
    <3>2. CASE NothingClaimed(p) \/ MaintenanceError(p) \/ ClaimError(p) \/ SubmitError(p)
      BY <3>2 DEF TypeOK, Worker, NothingClaimed, MaintenanceError, ClaimError, SubmitError, Goto
    <3>3. CASE RequeueWrite(p) \/ RequeueError(p) \/ Crash(p)
      BY <3>3 DEF TypeOK, RequeueWrite, RequeueError, Crash, NewWorker, NoTicket
    <3> QED
      BY <1>3, <3>1, <3>2, <3>3 DEF WorkerStep, WorkerError
  <2>4. CASE worker'[p].ticket.job \in {worker[p].ticket.job, None}
    BY <2>1, <2>2, <2>4, JobsAssumption DEF Handing
  <2>5. CASE \E i \in Jobs \ {j} : Claim(p, i)
    <3>1. worker'[p].ticket.job # j
      BY <2>5 DEF Claim, TypeOK, Worker
    <3> QED
      BY <2>1, <2>2, <3>1, OthersStay
  <2> QED
    BY <2>3, <2>4, <2>5
<1>4. ASSUME NEW p \in Pods, SubmitTask(p)
      PROVE  /\ Handing(j)' \subseteq Handing(j) \ {p}
             /\ started'[j] = IF p \in Handing(j) THEN started[j] + 1 ELSE started[j]
  <2>1. \A q \in Pods \ {p} : worker'[q] = worker[q]
    BY <1>4, OthersIdle DEF WorkerStep
  <2>2. worker'[p].ticket.job # j
    BY <1>4, JobsAssumption DEF SubmitTask, NoTicket, TypeOK, Worker
  <2>3. started'[j] = IF worker[p].ticket.job = j THEN started[j] + 1 ELSE started[j]
    BY <1>4 DEF SubmitTask, TypeOK
  <2> QED
    BY <2>1, <2>2, <2>3, OthersStay DEF Handing
<1>5. ASSUME NEW p \in Pods, Claim(p, j)
      PROVE  Handing(j)' \subseteq Handing(j) \cup {p} /\ started'[j] = started[j]
  <2>1. \A q \in Pods \ {p} : worker'[q] = worker[q]
    BY <1>5, OthersIdle DEF WorkerStep
  <2> QED
    BY <1>5, <2>1, OthersStay DEF Claim
<1>6. ASSUME NEW p \in Pods, ExecStep(p) PROVE UNCHANGED <<worker, started>>
  BY <1>6 DEF ExecStep, ReachCheckpoint, CheckStopped, CheckSuperseded, TaskRaises, Finalize,
     FinalizeFailed, UpdateStoppedRead, UpdateStoppedWrite, CallbackRead, CallbackWrite
<1>7. ASSUME NEW i \in Jobs, Request(i) \/ ProgressTimeout(i) \/ Age(i) PROVE UNCHANGED <<worker, started>>
  BY <1>7 DEF Request, Submit, ScheduleHarness, Insert, StopRead, StopWrite, ProgressTimeout, Age
<1>8. CASE UNCHANGED vars \/ LoseLock
  BY <1>1, <1>8 DEF vars, LoseLock
<1>9. CASE \E p \in Pods : SubmitTask(p)
  BY <1>4, <1>9
<1>10. CASE Next /\ ~\E p \in Pods : SubmitTask(p)
  BY <1>1, <1>3, <1>5, <1>6, <1>7, <1>8, <1>10 DEF Next
<1> QED
  BY <1>8, <1>9, <1>10

\* A pod that requeues the job, and one that recovers it, is done with it.
LEMMA DoneWith ==
  ASSUME Inv, NEW j \in Jobs, NEW p \in Pods
  PROVE  /\ RequeueWrite(p) => p \notin Handing(j)'
         /\ RecoverWrite(p) => p \notin Recovering(j)'
<1>1. ASSUME RequeueWrite(p) PROVE worker'[p].ticket.job # j
  BY <1>1, JobsAssumption DEF Inv, TypeOK, RequeueWrite, NewWorker, NoTicket
<1>2. ASSUME RecoverWrite(p) PROVE worker'[p].pc # "recover"
  BY <1>2 DEF Inv, TypeOK, Worker, RecoverWrite
<1> QED
  BY <1>1, <1>2 DEF Handing, Recovering

\* A pod comes to recover a job by reading its row as a leader; the row is running
\* and has an attempt left.
LEMMA RecoveringStep ==
  ASSUME Inv, [Next]_vars, NEW j \in Jobs
  PROVE  \/ Recovering(j)' \subseteq Recovering(j)
         \/ \E p \in Pods : /\ RecoverRead(p) /\ Recovering(j)' \subseteq Recovering(j) \cup {p}
                            /\ row[j].status = "running"
                            /\ row[j].attempt_count < MaxJobAttempts
<1> USE DEF Inv
<1>1. ASSUME NEW p \in Pods, p \in Recovering(j)', ~RecoverRead(p) PROVE p \in Recovering(j)
  <2>1. worker'[p].pc = "recover"
    BY <1>1 DEF Recovering
  <2>2. ~Crash(p)
    BY <2>1 DEF Crash, TypeOK, NewWorker
  <2>3. ~WorkerStep(p)
    BY <1>1, <2>1 DEF TypeOK, Worker, NewWorker, WorkerStep, RecoverWrite, CleanupRead, CleanupWrite,
       Claim, NothingClaimed, SubmitTask, RequeueWrite, Goto
  <2>4. ~WorkerError(p)
    BY <2>1 DEF TypeOK, Worker, NewWorker, WorkerError, MaintenanceError, ClaimError, SubmitError,
       RequeueError, Goto
  <2>5. worker'[p] = worker[p]
    BY <2>2, <2>3, <2>4, OwnWorker
  <2> QED
    BY <1>1, <2>5 DEF Recovering
<1>2. ASSUME NEW p \in Pods, RecoverRead(p)
      PROVE  /\ Recovering(j)' \subseteq Recovering(j) \cup {p}
             /\ p \in Recovering(j)' => row[j].status = "running" /\ row[j].attempt_count < MaxJobAttempts
  <2>1. \A q \in Pods \ {p} : worker'[q] = worker[q]
    BY <1>2, OthersIdle DEF WorkerStep
  <2>2. worker'[p].loaded[j] = IF IsStale(row[j]) THEN Load(j) ELSE NotLoaded
    BY <1>2 DEF RecoverRead, TypeOK, Worker
  <2> QED
    BY <2>1, <2>2 DEF Recovering, IsStale, Load
<1>3. Recovering(j)' \subseteq Pods
  BY DEF Recovering
<1>4. CASE \E p \in Pods : RecoverRead(p) /\ p \in Recovering(j)'
  BY <1>2, <1>4
<1>5. CASE ~\E p \in Pods : RecoverRead(p) /\ p \in Recovering(j)'
  BY <1>1, <1>3, <1>5
<1> QED
  BY <1>4, <1>5

\* A job becomes pending when it is submitted, or by a pod that recovers or requeues it.
LEMMA DueStep ==
  ASSUME Inv, [Next]_vars, NEW j \in Jobs
  PROVE  \/ Due(j)' <= Due(j)
         \/ Submitted(j)
         \/ \E p \in Recovering(j) : RecoverWrite(p)
         \/ \E p \in Handing(j) : RequeueWrite(p)
<1> USE DEF Inv
<1>1. RowMove(j)
  BY RowStep
<1>2. CASE Requeued(j)
  <2>1. PICK p \in Pods :
          \/ RecoverWrite(p) /\ worker[p].loaded[j] # NotLoaded
             /\ worker[p].loaded[j].attempt_count < MaxJobAttempts
          \/ RequeueWrite(p)
    BY <1>2 DEF Requeued
  <2>2. CASE ~RequeueWrite(p)
    BY <2>1, <2>2 DEF Recovering, RecoverWrite
  <2>3. CASE RequeueWrite(p) /\ p \notin Handing(j)
    <3>1. row'[j] = row[j]
      BY <2>3 DEF Handing, RequeueWrite, TypeOK
    <3> QED
      BY <3>1 DEF Due
  <2> QED
    BY <2>2, <2>3
<1>3. CASE Unmoved(j) \/ Ended(j) \/ Taken(j) \/ Published(j)
  BY <1>3 DEF Unmoved, Ended, Taken, Published, Due
<1> QED
  BY <1>1, <1>2, <1>3 DEF RowMove

\* Every loss of the lock leaves at most one pod in maintenance without it.
LEMMA LocklessStep ==
  ASSUME Inv, [Next]_vars
  PROVE  \/ Lockless' \subseteq Lockless /\ lost' = lost
         \/ Lockless' \subseteq Lockless \cup {leader} /\ lost' = lost + 1
<1> USE DEF Inv
<1>1. ASSUME UNCHANGED <<worker, leader, lost>>
      PROVE  Lockless' \subseteq Lockless /\ lost' = lost
  BY <1>1 DEF Lockless, Maintaining
<1>2. ASSUME LoseLock PROVE Lockless' \subseteq Lockless \cup {leader} /\ lost' = lost + 1
  BY <1>2 DEF LoseLock, Lockless, Maintaining
<1>3. ASSUME NEW p \in Pods, WorkerStep(p) \/ WorkerError(p) \/ Crash(p)
      PROVE  Lockless' \subseteq Lockless /\ lost' = lost
  <2>1. \A q \in Pods \ {p} : worker'[q] = worker[q]
    BY <1>3, OthersIdle
  <2>2. lost' = lost
    BY <1>3 DEF WorkerStep, WorkerError, RecoverRead, RecoverWrite, CleanupRead, CleanupWrite,
       Claim, NothingClaimed, SubmitTask, RequeueWrite, MaintenanceError, ClaimError, SubmitError,
       RequeueError, Crash
  <2>3. CASE RecoverRead(p)
    <3>1. leader = None /\ leader' = p
      BY <2>3 DEF RecoverRead, AcquireLeader
    <3>2. \A q \in Pods : q # None
      BY JobsAssumption
    <3> QED
      BY <2>1, <2>2, <3>1, <3>2 DEF Lockless, Maintaining
  <2>4. CASE ~RecoverRead(p)
    <3>1. leader' = leader \/ leader = p
      BY <1>3, <2>4 DEF WorkerStep, WorkerError, RecoverWrite, CleanupRead, CleanupWrite, Claim,
         NothingClaimed, SubmitTask, RequeueWrite, MaintenanceError, ClaimError, SubmitError,
         RequeueError, Crash, ReleaseLeader
    <3>2. Maintaining(p)' => Maintaining(p) /\ leader' = leader
      <4>1. CASE WorkerStep(p)
        BY <2>4, <4>1 DEF Maintaining, TypeOK, Worker, NewWorker, WorkerStep, RecoverWrite,
           CleanupRead, CleanupWrite, Claim, NothingClaimed, SubmitTask, RequeueWrite, Goto
      <4>2. CASE WorkerError(p)
        BY <4>2 DEF Maintaining, TypeOK, Worker, NewWorker, WorkerError, MaintenanceError,
           ClaimError, SubmitError, RequeueError, Goto
      <4>3. CASE Crash(p)
        BY <4>3 DEF Maintaining, TypeOK, NewWorker, Crash
      <4> QED
        BY <1>3, <4>1, <4>2, <4>3
    <3>3. ASSUME NEW q \in Pods, q \in Lockless' PROVE q \in Lockless
      <4>1. Maintaining(q)' /\ leader' # q
        BY <3>3 DEF Lockless
      <4>2. CASE q = p
        BY <3>2, <4>1, <4>2 DEF Lockless
      <4>3. CASE q # p
        BY <2>1, <3>1, <4>1, <4>3 DEF Lockless, Maintaining
      <4> QED
        BY <4>2, <4>3
    <3> QED
      BY <2>2, <3>3 DEF Lockless
  <2> QED
    BY <2>3, <2>4
<1>4. ASSUME NEW p \in Pods, ExecStep(p) PROVE UNCHANGED <<worker, leader, lost>>
  BY <1>4 DEF ExecStep, ReachCheckpoint, CheckStopped, CheckSuperseded, TaskRaises, Finalize,
     FinalizeFailed, UpdateStoppedRead, UpdateStoppedWrite, CallbackRead, CallbackWrite
<1>5. ASSUME NEW i \in Jobs, Request(i) \/ ProgressTimeout(i) \/ Age(i)
      PROVE  UNCHANGED <<worker, leader, lost>>
  BY <1>5 DEF Request, Submit, ScheduleHarness, Insert, StopRead, StopWrite, ProgressTimeout, Age
<1>6. CASE UNCHANGED vars
  BY <1>1, <1>6 DEF vars
<1>7. CASE Next
  BY <1>1, <1>2, <1>3, <1>4, <1>5, <1>7 DEF Next
<1> QED
  BY <1>6, <1>7

-----------------------------------------------------------------------------
(* The count. *)

\* The numbers the count is made of are numbers.
LEMMA CountedTypes ==
  ASSUME Inv, NEW j \in Jobs, CountedJob(j)
  PROVE  /\ started[j] \in Nat /\ row[j].attempt_count \in Nat /\ lost \in Nat
         /\ Cardinality(Handing(j)) \in Nat /\ Cardinality(Recovering(j)) \in Nat
         /\ Due(j) \in {0, 1}
BY FS_CardinalityType DEF Inv, TypeOK, Row, CountedJob, Due

\* A leader that reads a row with an attempt left takes part in as many recoveries of
\* the job as locks were lost, and itself.
LEMMA ReadCounted ==
  ASSUME Inv, Counted, [Next]_vars, NEW j \in Jobs, NEW p \in Pods, RecoverRead(p),
         Recovering(j)' \subseteq Recovering(j) \cup {p},
         row[j].status = "running", row[j].attempt_count < MaxJobAttempts
  PROVE  CountedJob(j)'
<1>1. CountedJob(j) /\ IsFiniteSet(Lockless) /\ Cardinality(Lockless) <= lost
  BY DEF Counted
<1>2. row' = row /\ started' = started /\ lost' = lost /\ leader = None
  BY DEF RecoverRead, AcquireLeader
<1>3. Handing(j)' \subseteq Handing(j)
  <2>1. ASSUME NEW q \in Pods PROVE ~SubmitTask(q) \/ q \notin Handing(j)
    BY <1>2 DEF SubmitTask, Handing, Inv, TypeOK
  <2>2. ASSUME NEW q \in Pods PROVE ~Claim(q, j)
    BY DEF Claim, OldestPending, Pending
  <2> QED
    BY <2>1, <2>2, HandingStep DEF Handing
<1>4. Recovering(j) \subseteq Lockless
  BY <1>2, JobsAssumption DEF Recovering, Lockless, Maintaining
<1>5. /\ IsFiniteSet(Handing(j)') /\ Cardinality(Handing(j)') \in Nat
      /\ Cardinality(Handing(j)') <= Cardinality(Handing(j))
  BY <1>1, <1>3, Smaller DEF CountedJob
<1>6. /\ IsFiniteSet(Recovering(j)') /\ Cardinality(Recovering(j)') \in Nat
      /\ Cardinality(Recovering(j)') <= Cardinality(Recovering(j)) + 1
  BY <1>1, OneMore DEF CountedJob
<1>7. Cardinality(Recovering(j)) <= Cardinality(Lockless) /\ Cardinality(Lockless) \in Nat
  BY <1>1, <1>4, Smaller
<1>8. Due(j)' = 0
  BY <1>2 DEF Due
<1>9. started[j] + Cardinality(Handing(j)) <= row[j].attempt_count
  BY <1>1 DEF CountedJob
<1> QED
  BY <1>1, <1>2, <1>5, <1>6, <1>7, <1>8, <1>9, CountedTypes, BoundsAssumption DEF CountedJob

\* Every other step turns one chance to execute the job into another, or uses it up.
LEMMA OtherCounted ==
  ASSUME Inv, NothingOfAbsent, Counted, [Next]_vars, NEW j \in Jobs,
         Recovering(j)' \subseteq Recovering(j)
  PROVE  CountedJob(j)'
<1> DEFINE h == Cardinality(Handing(j))
           r == Cardinality(Recovering(j))
<1>1. CountedJob(j)
  BY DEF Counted
<1>2. /\ IsFiniteSet(Handing(j)) /\ IsFiniteSet(Recovering(j))
      /\ started[j] + h <= row[j].attempt_count
      /\ started[j] + h + Due(j) + r <= MaxJobAttempts + lost
  BY <1>1 DEF CountedJob
<1>3. /\ started[j] \in Nat /\ lost \in Nat /\ h \in Nat /\ r \in Nat
      /\ Due(j) \in {0, 1} /\ Due(j)' \in {0, 1}
  BY <1>1, CountedTypes DEF Due
<1>4. lost' \in Nat /\ lost' >= lost
  BY <1>3, LocklessStep
<1>5. /\ row[j].attempt_count \in Nat /\ row'[j].attempt_count \in Nat
      /\ row'[j].attempt_count >= row[j].attempt_count
  BY AttemptsGrow DEF Inv
<1>6. IsFiniteSet(Recovering(j)') /\ Cardinality(Recovering(j)') \in Nat /\ Cardinality(Recovering(j)') <= r
  BY <1>2, Smaller
<1>7. CASE Handing(j)' \subseteq Handing(j) /\ started'[j] = started[j]
  <2>1. IsFiniteSet(Handing(j)') /\ Cardinality(Handing(j)') \in Nat /\ Cardinality(Handing(j)') <= h
    BY <1>2, <1>7, Smaller
  <2>2. CASE Due(j)' <= Due(j)
    BY <1>2, <1>3, <1>4, <1>5, <1>6, <1>7, <2>1, <2>2, BoundsAssumption DEF CountedJob
  <2>3. CASE Submitted(j)
    <3>1. row[j].attempt_count = 0 /\ Recovering(j) = {}
      BY <2>3 DEF Submitted, NothingOfAbsent, Recovering
    <3>2. r = 0
      BY <3>1, FS_EmptySet
    <3> QED
      BY <1>2, <1>3, <1>4, <1>5, <1>6, <1>7, <2>1, <3>1, <3>2, BoundsAssumption DEF CountedJob
  <2>4. CASE \E p \in Recovering(j) : RecoverWrite(p)
    <3>1. PICK p \in Recovering(j) : RecoverWrite(p)
      BY <2>4
    <3>2. Recovering(j)' \subseteq Recovering(j) \ {p}
      BY <3>1, DoneWith DEF Recovering
    <3>3. Cardinality(Recovering(j)') + 1 <= r
      BY <1>2, <3>1, <3>2, OneLess
    <3> QED
      BY <1>2, <1>3, <1>4, <1>5, <1>6, <1>7, <2>1, <3>3, BoundsAssumption DEF CountedJob
  <2>5. CASE \E p \in Handing(j) : RequeueWrite(p)
    <3>1. PICK p \in Handing(j) : RequeueWrite(p)
      BY <2>5
    <3>2. Handing(j)' \subseteq Handing(j) \ {p}
      BY <1>7, <3>1, DoneWith DEF Handing
    <3>3. Cardinality(Handing(j)') + 1 <= h
      BY <1>2, <3>1, <3>2, OneLess
    <3> QED
      BY <1>2, <1>3, <1>4, <1>5, <1>6, <1>7, <2>1, <3>3, BoundsAssumption DEF CountedJob
  <2> QED
    BY <2>2, <2>3, <2>4, <2>5, DueStep
<1>8. CASE \E p \in Handing(j) : /\ SubmitTask(p) /\ Handing(j)' \subseteq Handing(j) \ {p}
                                 /\ started'[j] = started[j] + 1
  <2>1. IsFiniteSet(Handing(j)') /\ Cardinality(Handing(j)') \in Nat /\ Cardinality(Handing(j)') + 1 <= h
    BY <1>2, <1>8, OneLess
  <2>2. Due(j)' = Due(j) /\ started'[j] = started[j] + 1
    BY <1>8 DEF SubmitTask, Due
  <2> QED
    BY <1>2, <1>3, <1>4, <1>5, <1>6, <2>1, <2>2, BoundsAssumption DEF CountedJob
<1>9. CASE \E p \in Pods : /\ Claim(p, j) /\ Handing(j)' \subseteq Handing(j) \cup {p}
                           /\ started'[j] = started[j]
  <2>1. IsFiniteSet(Handing(j)') /\ Cardinality(Handing(j)') \in Nat /\ Cardinality(Handing(j)') <= h + 1
    BY <1>2, <1>9, OneMore
  <2>2. /\ Due(j) = 1 /\ Due(j)' = 0 /\ row'[j].attempt_count = row[j].attempt_count + 1
    BY <1>9, ClaimType DEF Claim, OldestPending, Pending, Due, Inv, TypeOK
  <2> QED
    BY <1>2, <1>3, <1>4, <1>5, <1>6, <1>9, <2>1, <2>2, BoundsAssumption DEF CountedJob
<1> QED
  BY <1>7, <1>8, <1>9, HandingStep

\* Every step keeps the count.
LEMMA CountedStep == Inv /\ NothingOfAbsent /\ Counted /\ [Next]_vars => Counted'
<1> SUFFICES ASSUME Inv, NothingOfAbsent, Counted, [Next]_vars PROVE Counted'
  OBVIOUS
<1>1. IsFiniteSet(Lockless) /\ Cardinality(Lockless) <= lost /\ Cardinality(Lockless) \in Nat /\ lost \in Nat
  BY FS_CardinalityType DEF Counted, Inv, TypeOK
<1>2. IsFiniteSet(Lockless') /\ Cardinality(Lockless') <= lost'
  <2>1. CASE Lockless' \subseteq Lockless /\ lost' = lost
    BY <1>1, <2>1, Smaller
  <2>2. CASE Lockless' \subseteq Lockless \cup {leader} /\ lost' = lost + 1
    <3>1. IsFiniteSet(Lockless') /\ Cardinality(Lockless') \in Nat
          /\ Cardinality(Lockless') <= Cardinality(Lockless) + 1
      BY <1>1, <2>2, OneMore
    <3> QED
      BY <1>1, <2>2, <3>1
  <2> QED
    BY <2>1, <2>2, LocklessStep
<1>3. \A j \in Jobs : CountedJob(j)'
  BY RecoveringStep, ReadCounted, OtherCounted
<1> QED
  BY <1>2, <1>3 DEF Counted

\* Even when submissions fail and are requeued without a check, and whatever else
\* fails, no job is handed to an executor more than MAX_JOB_ATTEMPTS times, and
\* once more for every time a maintenance leader lost the advisory lock.
THEOREM ExecutionsBound == Spec => []ExecutionsBounded
<1>1. Init => Counted /\ NothingOfAbsent
  <2> SUFFICES ASSUME Init PROVE Counted /\ NothingOfAbsent
    OBVIOUS
  <2>1. Lockless = {} /\ \A j \in Jobs : Handing(j) = {} /\ Recovering(j) = {}
    BY JobsAssumption DEF Init, NewWorker, NoTicket, Lockless, Maintaining, Handing, Recovering
  <2>2. Counted
    BY <2>1, FS_EmptySet, BoundsAssumption DEF Init, Counted, CountedJob, Due
  <2> QED
    BY <2>2 DEF Init, NothingOfAbsent, NewWorker
<1>2. Inv /\ Counted => ExecutionsBounded
  <2> SUFFICES ASSUME Inv, Counted, NEW j \in Jobs PROVE started[j] <= MaxJobAttempts + lost
    BY DEF ExecutionsBounded
  <2>1. CountedJob(j)
    BY DEF Counted
  <2> QED
    BY <2>1, CountedTypes, BoundsAssumption DEF CountedJob
<1> QED
  BY <1>1, <1>2, NothingOfAbsentStep, CountedStep, Invariance, PTL DEF Spec
=============================================================================
