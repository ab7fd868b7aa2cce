--------------------------- MODULE JobQueueProofs ---------------------------
(* Theorems about JobQueue, for any sets of jobs and pods and any bounds. *)
EXTENDS JobQueue, TLAPS

\* What a session remembers of a row has the type Loaded.
LEMMA LoadType ==
  ASSUME TypeOK, NEW j \in Jobs
  PROVE  Load(j) \in Loaded
BY DEF TypeOK, Load, Loaded, Row

\* A flushed row is a row; only its status and its lease may differ, and the
\* status only to the one the session set.
LEMMA FlushType ==
  ASSUME NEW r \in Row, NEW old \in Loaded, NEW s \in Status
  PROVE  /\ Flush(r, old, s) \in Row
         /\ Flush(r, old, s).attempt_count = r.attempt_count
         /\ Flush(r, old, s).job_runs = r.job_runs
         /\ Flush(r, old, s).status \in {r.status, s}
BY DEF Flush, Row, Loaded

\* A claimed row is a running row with the next attempt_count and the run it
\* had.
LEMMA ClaimType ==
  ASSUME NEW r \in Row, NEW p \in Pods
  PROVE  /\ ClaimRow(r, p) \in Row
         /\ ClaimRow(r, p).attempt_count = r.attempt_count + 1
         /\ ClaimRow(r, p).status = "running"
         /\ ClaimRow(r, p).job_runs = r.job_runs
BY DEF ClaimRow, Row, Status

\* The empty values that threads start from have their types.
LEMMA NewType ==
  /\ NotLoaded \in Loaded
  /\ NoTicket \in Ticket
  /\ NewWorker \in Worker
  /\ NewExec \in Exec
BY BoundsAssumption DEF NotLoaded, Loaded, Status, NoTicket, Ticket, NewWorker, Worker, WorkerPC,
   NewExec, Exec, ExecPC

\* The empty table and the idle pods have their types.
LEMMA InitType == Init => TypeOK
<1> SUFFICES ASSUME Init PROVE TypeOK
  OBVIOUS
<1>1. row \in [Jobs -> Row]
  BY DEF Init, Row, Status
<1> QED
  BY <1>1, NewType, BoundsAssumption DEF Init, TypeOK, ExecutorMaxWorkers

-----------------------------------------------------------------------------
(* The worker thread's steps keep the types. *)

\* No step of a task manager thread, failed ones included, breaks a type.
LEMMA WorkerType ==
  ASSUME TypeOK, OneTaskPerPod, NEW p \in Pods, WorkerStep(p) \/ WorkerError(p)
  PROVE  TypeOK'
<1> USE NewType, BoundsAssumption DEF ExecutorMaxWorkers
<1>1. CASE RecoverRead(p)
  <2>1. [j \in Jobs |-> IF IsStale(row[j]) THEN Load(j) ELSE NotLoaded] \in [Jobs -> Loaded]
    BY LoadType
  <2> QED
    BY <1>1, <2>1 DEF TypeOK, RecoverRead, AcquireLeader, Worker, WorkerPC
<1>2. CASE RecoverWrite(p)
  <2>1. ASSUME NEW j \in Jobs PROVE row'[j] \in Row
    <3>1. worker[p].loaded[j] \in Loaded /\ row[j] \in Row
      BY DEF TypeOK, Worker
    <3>2. Verdict(worker[p].loaded[j]) \in Status
      BY DEF Verdict, Status, Terminal
    <3> QED
      BY <1>2, <3>1, <3>2, FlushType DEF RecoverWrite
  <2>2. row' \in [Jobs -> Row]
    BY <1>2, <2>1 DEF RecoverWrite
  <2> QED
    BY <1>2, <2>2 DEF TypeOK, RecoverWrite, Worker, WorkerPC
<1>3. CASE CleanupRead(p)
  <2>1. [j \in Jobs |-> IF j \in aged /\ row[j].status \in {"pending", "running"}
                        THEN Load(j) ELSE NotLoaded] \in [Jobs -> Loaded]
    BY LoadType
  <2> QED
    BY <1>3, <2>1 DEF TypeOK, CleanupRead, Worker, WorkerPC
<1>4. CASE CleanupWrite(p)
  <2>1. ASSUME NEW j \in Jobs PROVE row'[j] \in Row
    <3>1. worker[p].loaded[j] \in Loaded /\ row[j] \in Row /\ "failed" \in Status
      BY DEF TypeOK, Worker, Status, Terminal
    <3> QED
      BY <1>4, <3>1, FlushType DEF CleanupWrite
  <2>2. row' \in [Jobs -> Row]
    BY <1>4, <2>1 DEF CleanupWrite
  <2> QED
    BY <1>4, <2>2 DEF TypeOK, CleanupWrite, ReleaseLeader, Worker, WorkerPC
<1>5. CASE \E j \in Jobs : Claim(p, j)
  <2>1. PICK j \in Jobs : Claim(p, j)
    BY <1>5
  <2>2. row[j] \in Row
    BY DEF TypeOK
  <2>3. ClaimRow(row[j], p) \in Row
    BY <2>2, ClaimType
  <2>4. row' \in [Jobs -> Row]
    BY <2>1, <2>3 DEF Claim, TypeOK
  <2>5. slots' \in [Pods -> 0..1]
    BY <2>1 DEF Claim, TakeSlot, TypeOK
  <2>6. [job |-> j, attempt_count |-> row[j].attempt_count + 1] \in Ticket
    BY <2>2 DEF Ticket, Row
  <2> QED
    BY <2>1, <2>4, <2>5, <2>6 DEF TypeOK, Claim, Worker, WorkerPC
<1>6. CASE NothingClaimed(p)
  BY <1>6 DEF TypeOK, NothingClaimed, Goto, Worker, WorkerPC
<1>7. CASE SubmitTask(p)
  <2>1. worker[p].ticket \in Ticket /\ worker[p].ticket.job \in Jobs
    BY <1>7 DEF TypeOK, SubmitTask, Worker, Ticket, OneTaskPerPod
  <2>2. started' \in [Jobs -> Nat]
    BY <1>7, <2>1 DEF TypeOK, SubmitTask
  <2>4. FirstCheckpoint(worker[p].ticket.job) \in 0..Checkpoints
    BY DEF FirstCheckpoint
  <2>3. [NewExec EXCEPT !.pc = "working", !.ticket = worker[p].ticket,
                        !.checkpoint = FirstCheckpoint(worker[p].ticket.job)] \in Exec
    BY <2>1, <2>4 DEF Exec, ExecPC
  <2> QED
    BY <1>7, <2>2, <2>3 DEF TypeOK, SubmitTask, Worker, WorkerPC
<1>8. CASE RequeueWrite(p)
  <2>1. worker[p].ticket.job \in Jobs /\ worker[p].loaded \in [Jobs -> Loaded] /\ slots[p] = 0
    BY <1>8 DEF TypeOK, RequeueWrite, Worker, Ticket, OneTaskPerPod
  <2>2. row' \in [Jobs -> Row]
    BY <1>8, <2>1, FlushType DEF TypeOK, RequeueWrite, Status
  <2> QED
    BY <1>8, <2>1, <2>2 DEF TypeOK, RequeueWrite, ReleaseSlot
<1>9. CASE MaintenanceError(p)
  <2>1. faults' \in 0..MaxFaults
    BY <1>9 DEF MaintenanceError, Fault, TypeOK
  <2>2. worker' \in [Pods -> Worker]
    <3>1. ASSUME NEW pc \in WorkerPC PROVE
            [worker[p] EXCEPT !.pc = pc, !.loaded = NewWorker.loaded] \in Worker
      BY DEF TypeOK, Worker
    <3>2. \E pc \in WorkerPC :
            worker' = [worker EXCEPT ![p] = [@ EXCEPT !.pc = pc, !.loaded = NewWorker.loaded]]
      BY <1>9 DEF MaintenanceError, WorkerPC
    <3> QED
      BY <3>1, <3>2 DEF TypeOK
  <2>3. leader' \in Pods \cup {None}
    BY <1>9 DEF TypeOK, MaintenanceError, ReleaseLeader
  <2> QED
    BY <1>9, <2>1, <2>2, <2>3 DEF TypeOK, MaintenanceError
<1>10. CASE ClaimError(p)
  <2>1. ASSUME NEW j \in Jobs PROVE ClaimRow(row[j], p) \in Row
    BY ClaimType DEF TypeOK
  <2>2. row' \in [Jobs -> Row]
    BY <1>10, <2>1 DEF ClaimError, TypeOK
  <2>3. faults' \in 0..MaxFaults
    BY <1>10 DEF ClaimError, Fault, TypeOK
  <2>4. worker' \in [Pods -> Worker]
    BY <1>10 DEF TypeOK, ClaimError, Goto, Worker, WorkerPC
  <2>5. slots' \in [Pods -> 0..1]
    BY <1>10 DEF TypeOK, ClaimError, TakeSlot
  <2> QED
    BY <1>10, <2>2, <2>3, <2>4, <2>5 DEF TypeOK, ClaimError
<1>11. CASE SubmitError(p)
  <2>1. worker[p].ticket.job \in Jobs
    BY <1>11 DEF TypeOK, SubmitError, Worker, Ticket, OneTaskPerPod
  <2>2. faults' \in 0..MaxFaults
    BY <1>11 DEF SubmitError, Fault, TypeOK
  <2>3. Load(worker[p].ticket.job) \in Loaded
    BY <2>1, LoadType
  <2>4. [worker[p].loaded EXCEPT ![worker[p].ticket.job] = Load(worker[p].ticket.job)]
          \in [Jobs -> Loaded]
    BY <2>3 DEF TypeOK, Worker
  <2>5. worker' \in [Pods -> Worker]
    BY <1>11, <2>4 DEF TypeOK, SubmitError, Worker, WorkerPC
  <2> QED
    BY <1>11, <2>2, <2>5 DEF TypeOK, SubmitError
<1>12. CASE RequeueError(p)
  BY <1>12 DEF TypeOK, RequeueError, Fault
<1> QED
  BY <1>1, <1>2, <1>3, <1>4, <1>5, <1>6, <1>7, <1>8, <1>9, <1>10, <1>11, <1>12
     DEF WorkerStep, WorkerError

-----------------------------------------------------------------------------
(* So do the executor thread's steps. *)

\* A finalized row is a row.
LEMMA FinalizedType ==
  ASSUME NEW r \in Row, NEW s \in Status, NEW runs \in Nat
  PROVE  Finalized(r, s, runs) \in Row
BY DEF Finalized, Row

\* The fenced UPDATE that ends a task leaves a table of rows.
LEMMA FinalizeRowType ==
  ASSUME TypeOK, NEW p \in Pods, MyJob(p) \in Jobs, NEW s \in Status, NEW runs \in Nat,
         FinalizeRow(p, s, runs)
  PROVE  row' \in [Jobs -> Row]
BY FinalizedType DEF TypeOK, FinalizeRow

\* Releasing a taken slot leaves the semaphore within its bound.
LEMMA FinishType ==
  ASSUME TypeOK, NEW p \in Pods, slots[p] = 0, Finish(p)
  PROVE  exec' \in [Pods -> Exec] /\ slots' \in [Pods -> 0..ExecutorMaxWorkers]
BY NewType DEF TypeOK, Finish, ReleaseSlot, ExecutorMaxWorkers

\* The count of faults stays within MaxFaults.
LEMMA FaultType ==
  ASSUME TypeOK, NEW k, Fault(k) \/ UNCHANGED faults
  PROVE  faults' \in 0..MaxFaults
BY BoundsAssumption DEF TypeOK, Fault

\* No step of an executor thread breaks a type; the slot it releases is one
\* that is taken.
LEMMA ExecType ==
  ASSUME TypeOK, OneTaskPerPod, NEW p \in Pods, ExecStep(p)
  PROVE  TypeOK'
<1>0. /\ exec[p] \in Exec
      /\ MyJob(p) \in Jobs
      /\ slots[p] = 0
  BY DEF TypeOK, Exec, Ticket, MyJob, OneTaskPerPod, ExecStep, ReachCheckpoint, CheckStopped,
         CheckSuperseded, TaskRaises, Finalize, FinalizeFailed, UpdateStoppedRead,
         UpdateStoppedWrite, CallbackRead, CallbackWrite
<1>1. ASSUME NEW old \in Loaded, NEW s \in Status,
             row' = [row EXCEPT ![MyJob(p)] = Flush(@, old, s)]
      PROVE  row' \in [Jobs -> Row]
  BY <1>0, <1>1, FlushType DEF TypeOK
<1>3. CASE ReachCheckpoint(p)
  <2>1. row' \in [Jobs -> Row]
    <3>1. [row[MyJob(p)] EXCEPT !.last_progress_at = "fresh"] \in Row
      BY <1>0 DEF TypeOK, Row
    <3> QED
      BY <1>0, <1>3, <3>1 DEF TypeOK, ReachCheckpoint
  <2>2. exec' \in [Pods -> Exec]
    <3>1. exec[p].checkpoint \in 0..Checkpoints /\ 1 \in 0..Checkpoints
      BY <1>0, BoundsAssumption DEF Exec
    <3> QED
      BY <1>0, <1>3, <3>1 DEF TypeOK, ReachCheckpoint, Exec, ExecPC
  <2>3. faults' \in 0..MaxFaults
    BY <1>3, FaultType DEF ReachCheckpoint
  <2> QED
    BY <1>3, <2>1, <2>2, <2>3 DEF TypeOK, ReachCheckpoint
<1>4. CASE CheckStopped(p)
  <2>1. exec' \in [Pods -> Exec]
    <3>1. \E pc \in ExecPC : exec' = [exec EXCEPT ![p].pc = pc]
      BY <1>4 DEF CheckStopped, ExecGoto, ExecPC
    <3> QED
      BY <1>0, <3>1 DEF TypeOK, Exec
  <2>2. faults' \in 0..MaxFaults
    BY <1>4, FaultType DEF CheckStopped
  <2> QED
    BY <1>4, <2>1, <2>2 DEF TypeOK, CheckStopped
<1>5. CASE CheckSuperseded(p)
  <2>1. faults' \in 0..MaxFaults
    BY <1>5, FaultType DEF CheckSuperseded
  <2>2. exec' \in [Pods -> Exec] /\ slots' \in [Pods -> 0..ExecutorMaxWorkers]
    <3>1. CASE Finish(p)
      BY <1>0, <3>1, FinishType
    <3>2. CASE /\ exec' = [exec EXCEPT
                    ![p].pc = IF exec[p].checkpoint = Checkpoints THEN "finalizing" ELSE "working",
                    ![p].checkpoint = IF @ = Checkpoints THEN @ ELSE @ + 1]
               /\ UNCHANGED slots
      <4>1. (IF exec[p].checkpoint = Checkpoints THEN exec[p].checkpoint
             ELSE exec[p].checkpoint + 1) \in 0..Checkpoints
        BY <1>0, BoundsAssumption DEF Exec
      <4> QED
        BY <1>0, <3>2, <4>1 DEF TypeOK, Exec, ExecPC
    <3> QED
      BY <1>5, <3>1, <3>2 DEF CheckSuperseded
  <2> QED
    BY <1>5, <2>1, <2>2 DEF TypeOK, CheckSuperseded
<1>6. CASE TaskRaises(p)
  BY <1>0, <1>6 DEF TypeOK, TaskRaises, ExecGoto, Exec, ExecPC
<1>7. CASE Finalize(p)
  <2>1. row' \in [Jobs -> Row]
    <3>1. exec[p].ticket.attempt_count \in Nat
      BY <1>0 DEF Exec, Ticket
    <3>2. {"completed", "failed"} \subseteq Status
      BY DEF Status, Terminal
    <3>3. CASE UNCHANGED row
      BY <3>3 DEF TypeOK
    <3> QED
      BY <1>0, <1>7, <3>1, <3>2, <3>3, FinalizeRowType DEF Finalize
  <2>2. faults' \in 0..MaxFaults
    BY <1>7, FaultType DEF Finalize
  <2>3. exec' \in [Pods -> Exec] /\ slots' \in [Pods -> 0..ExecutorMaxWorkers]
    BY <1>0, <1>7, FinishType DEF Finalize
  <2> QED
    BY <1>7, <2>1, <2>2, <2>3 DEF TypeOK, Finalize
<1>8. CASE FinalizeFailed(p)
  <2>1. row' \in [Jobs -> Row]
    <3>1. CASE UNCHANGED row
      BY <3>1 DEF TypeOK
    <3>2. "failed" \in Status /\ 0 \in Nat
      BY DEF Status, Terminal
    <3> QED
      BY <1>0, <1>8, <3>1, <3>2, FinalizeRowType DEF FinalizeFailed
  <2>2. faults' \in 0..MaxFaults
    BY <1>8, FaultType DEF FinalizeFailed
  <2>3. exec' \in [Pods -> Exec]
    BY <1>0, <1>8 DEF TypeOK, FinalizeFailed, ExecGoto, Exec, ExecPC
  <2> QED
    BY <1>8, <2>1, <2>2, <2>3 DEF TypeOK, FinalizeFailed
<1>9. CASE UpdateStoppedRead(p)
  <2>1. Load(MyJob(p)) \in Loaded
    BY <1>0, LoadType
  <2> QED
    BY <1>0, <1>9, <2>1 DEF TypeOK, UpdateStoppedRead, Exec, ExecPC
<1>10. CASE UpdateStoppedWrite(p)
  <2>1. exec[p].loaded \in Loaded /\ "stopped" \in Status
    BY <1>0 DEF Exec, Status, Terminal
  <2>2. row' \in [Jobs -> Row]
    BY <1>1, <1>10, <2>1 DEF UpdateStoppedWrite, TypeOK
  <2>3. faults' \in 0..MaxFaults
    BY <1>10, FaultType DEF UpdateStoppedWrite
  <2>4. exec' \in [Pods -> Exec] /\ slots' \in [Pods -> 0..ExecutorMaxWorkers]
    BY <1>0, <1>10, FinishType DEF UpdateStoppedWrite
  <2> QED
    BY <1>10, <2>2, <2>3, <2>4 DEF TypeOK, UpdateStoppedWrite
<1>11. CASE CallbackRead(p)
  <2>1. Load(MyJob(p)) \in Loaded
    BY <1>0, LoadType
  <2>2. faults' \in 0..MaxFaults
    BY <1>11, FaultType DEF CallbackRead
  <2>3. exec' \in [Pods -> Exec] /\ slots' \in [Pods -> 0..ExecutorMaxWorkers]
    <3>1. CASE Finish(p)
      BY <1>0, <3>1, FinishType
    <3>2. CASE /\ exec' = [exec EXCEPT ![p].pc = "callbackwrite", ![p].loaded = Load(MyJob(p))]
               /\ UNCHANGED slots
      BY <1>0, <2>1, <3>2 DEF TypeOK, Exec, ExecPC
    <3> QED
      BY <1>11, <3>1, <3>2 DEF CallbackRead
  <2> QED
    BY <1>11, <2>2, <2>3 DEF TypeOK, CallbackRead
<1>12. CASE CallbackWrite(p)
  <2>1. exec[p].loaded \in Loaded /\ "failed" \in Status
    BY <1>0 DEF Exec, Status, Terminal
  <2>2. row' \in [Jobs -> Row]
    BY <1>1, <1>12, <2>1 DEF CallbackWrite, TypeOK
  <2>3. faults' \in 0..MaxFaults
    BY <1>12, FaultType DEF CallbackWrite
  <2>4. exec' \in [Pods -> Exec] /\ slots' \in [Pods -> 0..ExecutorMaxWorkers]
    BY <1>0, <1>12, FinishType DEF CallbackWrite
  <2> QED
    BY <1>12, <2>2, <2>3, <2>4 DEF TypeOK, CallbackWrite
<1> QED
  BY <1>3, <1>4, <1>5, <1>6, <1>7, <1>8, <1>9, <1>10, <1>11, <1>12 DEF ExecStep

-----------------------------------------------------------------------------
(* Requests, time and crashes; then every step. *)

\* Neither do requests, the passing of time, crashes and stuttering.
LEMMA OtherType ==
  ASSUME TypeOK,
         \/ \E j \in Jobs : Request(j) \/ ProgressTimeout(j) \/ Age(j)
         \/ \E p \in Pods : Crash(p)
         \/ LoseLock
         \/ UNCHANGED vars
  PROVE  TypeOK'
<1>1. ASSUME NEW j \in Jobs, Insert(j) PROVE TypeOK'
  <2>1. [row[j] EXCEPT !.status = "pending"] \in Row
    BY DEF TypeOK, Row, Status
  <2> QED
    BY <1>1, <2>1 DEF TypeOK, Insert
<1>2. ASSUME NEW j \in Jobs, StopRead(j) PROVE TypeOK'
  BY <1>2, LoadType DEF TypeOK, StopRead
<1>3. ASSUME NEW j \in Jobs, StopWrite(j) PROVE TypeOK'
  <2>1. row[j] \in Row /\ stopping[j] \in Loaded /\ "stopped" \in Status
    BY DEF TypeOK, Status, Terminal
  <2> QED
    BY <1>3, <2>1, FlushType, NewType DEF TypeOK, StopWrite
<1>4. ASSUME NEW j \in Jobs, ProgressTimeout(j) PROVE TypeOK'
  <2>1. [row[j] EXCEPT !.last_progress_at = "stale"] \in Row
    BY DEF TypeOK, Row
  <2> QED
    BY <1>4, <2>1 DEF TypeOK, ProgressTimeout
<1>5. ASSUME NEW j \in Jobs, Age(j) PROVE TypeOK'
  BY <1>5 DEF TypeOK, Age
<1>6. ASSUME NEW p \in Pods, Crash(p) PROVE TypeOK'
  BY <1>6, NewType, FaultType DEF TypeOK, Crash, ReleaseLeader, ExecutorMaxWorkers
<1>7. CASE UNCHANGED vars
  BY <1>7 DEF TypeOK, vars
<1>8. CASE LoseLock
  BY <1>8, FaultType DEF TypeOK, LoseLock
<1> QED
  BY <1>1, <1>2, <1>3, <1>4, <1>5, <1>6, <1>7, <1>8 DEF Request, Submit, ScheduleHarness

\* So no step at all breaks a type.
LEMMA TypeStep ==
  TypeOK /\ OneTaskPerPod /\ [Next]_vars => TypeOK'
BY WorkerType, ExecType, OtherType DEF Next

-----------------------------------------------------------------------------
(* One claimed job per pod, and one holder per attempt. *)

\* A pod's two threads hold the tickets that its worker and executor records
\* name.
LEMMA HeldThreads ==
  /\ \A p : Held(<<p, "worker">>) = worker[p].ticket /\ Held(<<p, "executor">>) = exec[p].ticket
  /\ \A t \in Threads : \E p \in Pods : t = <<p, "worker">> \/ t = <<p, "executor">>
BY DEF Held, Threads

\* What a step of pod p may do to its two tickets: keep them, drop them, take
\* a new one for a free pod, or pass the worker's on to the executor.
LEMMA OneTaskStep ==
  TypeOK /\ OneTaskPerPod /\ [Next]_vars => OneTaskPerPod'
<1> SUFFICES ASSUME TypeOK, OneTaskPerPod, [Next]_vars PROVE OneTaskPerPod'
  OBVIOUS
<1> DEFINE Tidy(p) ==
      /\ worker[p].pc \in {"submit", "requeue"} <=> worker[p].ticket # NoTicket
      /\ exec[p].pc # "idle" <=> exec[p].ticket # NoTicket
      /\ worker[p].ticket # NoTicket \/ exec[p].ticket # NoTicket => slots[p] = 0
      /\ ~(worker[p].ticket # NoTicket /\ exec[p].ticket # NoTicket)
      /\ worker[p].ticket.job = None <=> worker[p].ticket = NoTicket
      /\ exec[p].ticket.job = None <=> exec[p].ticket = NoTicket
<1>1. \A p \in Pods : Tidy(p)
  BY HeldThreads DEF OneTaskPerPod, Busy
<1>2. ASSUME NEW p \in Pods, UNCHANGED <<worker[p], exec[p], slots[p]>> PROVE Tidy(p)'
  BY <1>1, <1>2
<1>3. ASSUME NEW p \in Pods, WorkerStep(p) \/ WorkerError(p) PROVE \A q \in Pods : Tidy(q)'
  <2>1. \A q \in Pods \ {p} : UNCHANGED <<worker[q], exec[q], slots[q]>>
    BY <1>3 DEF TypeOK, WorkerStep, WorkerError, RecoverRead, RecoverWrite, CleanupRead,
       CleanupWrite, Claim, NothingClaimed, SubmitTask, RequeueWrite, MaintenanceError, ClaimError,
       SubmitError, RequeueError, TakeSlot, ReleaseSlot, Goto
  <2>2. Tidy(p)'
    <3> USE DEF TypeOK, Worker, NewWorker, NewExec, NoTicket
    <3>1. CASE RecoverRead(p) \/ RecoverWrite(p) \/ CleanupRead(p) \/ CleanupWrite(p)
      BY <1>1, <3>1 DEF RecoverRead, RecoverWrite, CleanupRead, CleanupWrite
    <3>2. CASE \E j \in Jobs : Claim(p, j)
      BY <1>1, <3>2, JobsAssumption DEF Claim, TakeSlot, ExecutorMaxWorkers, Ticket
    <3>3. CASE NothingClaimed(p) \/ MaintenanceError(p)
      BY <1>1, <3>3 DEF NothingClaimed, MaintenanceError, Goto
    <3>4. CASE SubmitTask(p)
      BY <1>1, <3>4 DEF SubmitTask
    <3>5. CASE RequeueWrite(p) \/ RequeueError(p)
      BY <1>1, <3>5 DEF RequeueWrite, RequeueError, ReleaseSlot
    <3>6. CASE ClaimError(p)
      BY <1>1, <3>6 DEF ClaimError, Goto, TakeSlot, ExecutorMaxWorkers
    <3>7. CASE SubmitError(p)
      BY <1>1, <3>7 DEF SubmitError
    <3> QED
      BY <1>3, <3>1, <3>2, <3>3, <3>4, <3>5, <3>6, <3>7 DEF WorkerStep, WorkerError
  <2> QED
    BY <1>2, <2>1, <2>2
<1>4. ASSUME NEW p \in Pods, ExecStep(p) PROVE \A q \in Pods : Tidy(q)'
  <2>1. \A q \in Pods \ {p} : UNCHANGED <<worker[q], exec[q], slots[q]>>
    BY <1>4 DEF TypeOK, ExecStep, ReachCheckpoint, CheckStopped, CheckSuperseded, TaskRaises,
       Finalize, FinalizeFailed, UpdateStoppedRead, UpdateStoppedWrite, CallbackRead,
       CallbackWrite, Finish, ReleaseSlot, ExecGoto
  <2>2. Tidy(p)'
    <3>1. CASE Finish(p) /\ UNCHANGED worker
      BY <1>1, <1>4, <3>1 DEF TypeOK, Worker, NewExec, NoTicket, Finish, ReleaseSlot, ExecStep,
         ReachCheckpoint, CheckStopped, CheckSuperseded, TaskRaises, Finalize, FinalizeFailed,
         UpdateStoppedRead, UpdateStoppedWrite, CallbackRead, CallbackWrite
    <3>2. CASE /\ exec'[p].pc # "idle" /\ exec[p].pc # "idle"
               /\ exec'[p].ticket = exec[p].ticket /\ UNCHANGED <<worker, slots>>
      BY <1>1, <3>2
    <3>3. Finish(p) \/ (/\ exec'[p].pc # "idle" /\ exec[p].pc # "idle"
                        /\ exec'[p].ticket = exec[p].ticket /\ UNCHANGED slots)
      BY <1>4 DEF TypeOK, Exec, ExecStep, ReachCheckpoint, CheckStopped, CheckSuperseded,
         TaskRaises, Finalize, FinalizeFailed, UpdateStoppedRead, UpdateStoppedWrite, CallbackRead,
         CallbackWrite, ExecGoto
    <3>4. UNCHANGED worker
      BY <1>4 DEF ExecStep, ReachCheckpoint, CheckStopped, CheckSuperseded, TaskRaises, Finalize,
         FinalizeFailed, UpdateStoppedRead, UpdateStoppedWrite, CallbackRead, CallbackWrite
    <3> QED
      BY <3>1, <3>2, <3>3, <3>4
  <2> QED
    BY <1>2, <2>1, <2>2
<1>5. ASSUME NEW p \in Pods, Crash(p) PROVE \A q \in Pods : Tidy(q)'
  BY <1>1, <1>5 DEF Crash, TypeOK, NewWorker, NewExec, NoTicket
<1>6. ASSUME \/ \E j \in Jobs : Request(j) \/ ProgressTimeout(j) \/ Age(j)
             \/ LoseLock \/ UNCHANGED vars
      PROVE  \A q \in Pods : Tidy(q)'
  BY <1>1, <1>6 DEF Request, Submit, ScheduleHarness, Insert, StopRead, StopWrite,
     ProgressTimeout, Age, LoseLock, vars
<1>7. \A q \in Pods : Tidy(q)'
  BY <1>3, <1>4, <1>5, <1>6 DEF Next
<1> QED
  BY <1>7, HeldThreads DEF OneTaskPerPod, Busy, Held

-----------------------------------------------------------------------------
(* What a step may do to a row. *)

Kept(j) == row'[j].attempt_count = row[j].attempt_count /\ row'[j].job_runs = row[j].job_runs
Unmoved(j) == Kept(j) /\ row'[j].status = row[j].status
Ended(j) == Kept(j) /\ row'[j].status \in {"failed", "stopped"}
Submitted(j) == Kept(j) /\ row[j].status = "absent" /\ row'[j].status = "pending"
Requeued(j) ==
  /\ Kept(j) /\ row'[j].status = "pending"
  /\ \E p \in Pods :
       \/ RecoverWrite(p) /\ worker[p].loaded[j] # NotLoaded
          /\ worker[p].loaded[j].attempt_count < MaxJobAttempts
       \/ RequeueWrite(p)
Taken(j) ==
  /\ row[j].status = "pending" /\ row'[j].status = "running"
  /\ row'[j].attempt_count = row[j].attempt_count + 1 /\ row'[j].job_runs = row[j].job_runs
Published(j) ==
  /\ row'[j].status \in {"completed", "failed"}
  /\ row'[j].attempt_count = row[j].attempt_count
  /\ \/ row'[j].job_runs = row'[j].attempt_count
     \/ row'[j].job_runs = row[j].job_runs /\ row'[j].status = "failed"
RowMove(j) ==
  Unmoved(j) \/ Ended(j) \/ Submitted(j) \/ Requeued(j) \/ Taken(j) \/ Published(j)

\* Writing another status of a loaded row keeps its fencing token and its run.
LEMMA FlushMove ==
  ASSUME TypeOK, NEW j \in Jobs, NEW old \in Loaded, NEW s \in {"failed", "stopped"},
         row'[j] = Flush(row[j], old, s)
  PROVE  Unmoved(j) \/ Ended(j)
<1>1. row[j] \in Row /\ s \in Status
  BY DEF TypeOK, Status, Terminal
<1> QED
  BY <1>1, FlushType DEF Unmoved, Ended, Kept

\* What a task manager step may do to a row: one of the moves above.
LEMMA WorkerMove ==
  ASSUME TypeOK, OneTaskPerPod, NEW p \in Pods, WorkerStep(p) \/ WorkerError(p)
  PROVE  \A j \in Jobs : RowMove(j)
<1> SUFFICES ASSUME NEW j \in Jobs PROVE RowMove(j)
  OBVIOUS
<1>0. row[j] \in Row /\ worker[p] \in Worker /\ worker[p].loaded \in [Jobs -> Loaded]
  BY DEF TypeOK, Worker
<1>1. CASE UNCHANGED row
  BY <1>1 DEF RowMove, Unmoved, Kept
<1>2. CASE RecoverWrite(p)
  <2> DEFINE old == worker[p].loaded[j]
  <2>1. CASE old = NotLoaded
    BY <1>2, <2>1 DEF RecoverWrite, RowMove, Unmoved, Kept
  <2>2. CASE old # NotLoaded /\ old.attempt_count >= MaxJobAttempts
    <3>1. row'[j] = Flush(row[j], old, "failed")
      BY <1>2, <2>2 DEF RecoverWrite, Verdict
    <3> QED
      BY <1>0, <3>1, FlushMove DEF RowMove
  <2>3. CASE old # NotLoaded /\ ~(old.attempt_count >= MaxJobAttempts)
    <3>1. row'[j] = Flush(row[j], old, "pending")
      BY <1>2, <2>3 DEF RecoverWrite, Verdict
    <3>2. Kept(j) /\ row'[j].status \in {row[j].status, "pending"}
      BY <1>0, <3>1, FlushType DEF Kept, Status
    <3>3. old.attempt_count < MaxJobAttempts
      BY <1>0, <2>3, BoundsAssumption DEF Loaded
    <3> QED
      BY <1>2, <2>3, <3>2, <3>3 DEF RowMove, Requeued, Unmoved
  <2> QED
    BY <2>1, <2>2, <2>3
<1>3. CASE CleanupWrite(p)
  <2> DEFINE old == worker[p].loaded[j]
  <2>1. CASE old = NotLoaded
    BY <1>3, <2>1 DEF CleanupWrite, RowMove, Unmoved, Kept
  <2>2. CASE old # NotLoaded
    BY <1>0, <1>3, <2>2, FlushMove DEF CleanupWrite, RowMove
  <2> QED
    BY <2>1, <2>2
<1>4. ASSUME NEW i \in Jobs, OldestPending(i), row' = [row EXCEPT ![i] = ClaimRow(@, p)]
      PROVE  RowMove(j)
  <2>1. CASE i = j
    BY <1>0, <1>4, <2>1, ClaimType DEF TypeOK, RowMove, Taken, OldestPending, Pending
  <2>2. CASE i # j
    BY <1>4, <2>2 DEF TypeOK, RowMove, Unmoved, Kept
  <2> QED
    BY <2>1, <2>2
<1>5. CASE \E i \in Jobs : Claim(p, i)
  BY <1>4, <1>5 DEF Claim
<1>6. CASE ClaimError(p)
  BY <1>1, <1>4, <1>6 DEF ClaimError
<1>7. CASE RequeueWrite(p)
  <2> DEFINE i == worker[p].ticket.job
  <2>1. row' = [row EXCEPT ![i] = Flush(@, worker[p].loaded[i], "pending")]
    BY <1>7 DEF RequeueWrite
  <2>2. CASE i = j
    <3>1. row'[j] = Flush(row[j], worker[p].loaded[j], "pending")
      BY <2>1, <2>2 DEF TypeOK
    <3>2. Kept(j) /\ row'[j].status \in {row[j].status, "pending"}
      BY <1>0, <3>1, FlushType DEF Kept, Status
    <3> QED
      BY <1>7, <3>2 DEF RowMove, Requeued, Unmoved
  <2>3. CASE i # j
    BY <2>1, <2>3 DEF TypeOK, RowMove, Unmoved, Kept
  <2> QED
    BY <2>2, <2>3
<1> QED
  BY <1>1, <1>2, <1>3, <1>5, <1>6, <1>7 DEF WorkerStep, WorkerError, RecoverRead, CleanupRead,
     NothingClaimed, SubmitTask, MaintenanceError, SubmitError, RequeueError

\* What an executor step may do to a row; only a current attempt publishes its
\* run.
LEMMA ExecMove ==
  ASSUME TypeOK, OneTaskPerPod, AttemptHeldOnce, NEW p \in Pods, ExecStep(p)
  PROVE  \A j \in Jobs : RowMove(j)
<1> SUFFICES ASSUME NEW j \in Jobs PROVE RowMove(j)
  OBVIOUS
<1>0. row[j] \in Row /\ exec[p] \in Exec /\ exec[p].loaded \in Loaded
  BY DEF TypeOK, Exec
<1>1. CASE UNCHANGED row
  BY <1>1 DEF RowMove, Unmoved, Kept
<1>2. ASSUME NEW r, row' = [row EXCEPT ![MyJob(p)] = r], MyJob(p) # j PROVE RowMove(j)
  BY <1>2 DEF TypeOK, RowMove, Unmoved, Kept
<1>3. CASE row' = [row EXCEPT ![MyJob(p)].last_progress_at = "fresh"]
  BY <1>0, <1>3 DEF TypeOK, RowMove, Unmoved, Kept, Row
<1>4. ASSUME NEW s \in {"completed", "failed"}, NEW runs,
             FinalizeRow(p, s, runs),
             runs = exec[p].ticket.attempt_count \/ (runs = 0 /\ s = "failed")
      PROVE  RowMove(j)
  <2>1. CASE MyJob(p) = j /\ OwnsRow(p)
    <3>1. row'[j] = Finalized(row[j], s, runs)
      BY <1>4, <2>1 DEF TypeOK, FinalizeRow
    <3>2. row[j].attempt_count = exec[p].ticket.attempt_count
      BY <2>1 DEF OwnsRow, Superseded
    <3>3. exec[p].ticket.attempt_count # 0
      <4>1. <<p, "executor">> \in Threads /\ Held(<<p, "executor">>) = exec[p].ticket
        BY DEF Threads, Held
      <4>2. Busy(<<p, "executor">>)
        BY <2>1, JobsAssumption DEF MyJob, OneTaskPerPod, Busy, NoTicket
      <4> QED
        BY <1>0, <4>1, <4>2 DEF AttemptHeldOnce
    <3>4. row'[j].status = s /\ row'[j].attempt_count = row[j].attempt_count
      BY <3>1 DEF Finalized
    <3>5. CASE runs = exec[p].ticket.attempt_count
      BY <3>1, <3>2, <3>3, <3>4, <3>5 DEF Finalized, RowMove, Published
    <3>6. CASE runs = 0 /\ s = "failed"
      BY <3>1, <3>4, <3>6 DEF Finalized, RowMove, Published
    <3> QED
      BY <1>4, <3>5, <3>6
  <2>2. CASE ~(MyJob(p) = j /\ OwnsRow(p))
    BY <1>4, <2>2 DEF TypeOK, FinalizeRow, RowMove, Unmoved, Kept
  <2> QED
    BY <2>1, <2>2
<1>5. ASSUME NEW s \in {"failed", "stopped"},
             row' = [row EXCEPT ![MyJob(p)] = Flush(@, exec[p].loaded, s)]
      PROVE  RowMove(j)
  <2>1. CASE MyJob(p) = j
    <3>1. row'[j] = Flush(row[j], exec[p].loaded, s)
      BY <1>5, <2>1 DEF TypeOK
    <3> QED
      BY <1>0, <3>1, FlushMove DEF RowMove
  <2> QED
    BY <1>2, <1>5, <2>1
<1>6. CASE Finalize(p)
  <2>1. \/ UNCHANGED row
        \/ FinalizeRow(p, "completed", exec[p].ticket.attempt_count)
        \/ FinalizeRow(p, "failed", exec[p].ticket.attempt_count)
    BY <1>6 DEF Finalize
  <2> QED
    BY <1>1, <1>4, <2>1
<1>7. CASE FinalizeFailed(p)
  <2>1. FinalizeRow(p, "failed", 0) \/ UNCHANGED row
    BY <1>7 DEF FinalizeFailed
  <2> QED
    BY <1>1, <1>4, <2>1
<1>8. CASE ReachCheckpoint(p)
  BY <1>1, <1>3, <1>8 DEF ReachCheckpoint
<1>9. CASE UpdateStoppedWrite(p)
  BY <1>1, <1>5, <1>9 DEF UpdateStoppedWrite
<1>10. CASE CallbackWrite(p)
  BY <1>1, <1>5, <1>10 DEF CallbackWrite
<1> QED
  BY <1>1, <1>6, <1>7, <1>8, <1>9, <1>10 DEF ExecStep, CheckStopped, CheckSuperseded,
     TaskRaises, UpdateStoppedRead, CallbackRead

\* What any step may do to a row.
LEMMA RowStep ==
  TypeOK /\ OneTaskPerPod /\ AttemptHeldOnce /\ [Next]_vars => \A j \in Jobs : RowMove(j)
<1> SUFFICES ASSUME TypeOK, OneTaskPerPod, AttemptHeldOnce, [Next]_vars, NEW j \in Jobs
             PROVE  RowMove(j)
  OBVIOUS
<1>0. row[j] \in Row /\ stopping[j] \in Loaded
  BY DEF TypeOK
<1>1. CASE UNCHANGED row
  BY <1>1 DEF RowMove, Unmoved, Kept
<1>2. ASSUME NEW i \in Jobs, Insert(i) PROVE RowMove(j)
  BY <1>0, <1>2 DEF TypeOK, Insert, RowMove, Unmoved, Submitted, Kept, Row
<1>3. ASSUME NEW i \in Jobs, StopWrite(i) PROVE RowMove(j)
  <2>1. CASE i = j
    BY <1>0, <1>3, <2>1, FlushMove DEF TypeOK, StopWrite, RowMove
  <2>2. CASE i # j
    BY <1>3, <2>2 DEF TypeOK, StopWrite, RowMove, Unmoved, Kept
  <2> QED
    BY <2>1, <2>2
<1>4. ASSUME NEW i \in Jobs, ProgressTimeout(i) PROVE RowMove(j)
  BY <1>0, <1>4 DEF TypeOK, ProgressTimeout, RowMove, Unmoved, Kept, Row
<1> QED
  BY <1>1, <1>2, <1>3, <1>4, WorkerMove, ExecMove
     DEF Next, Request, Submit, ScheduleHarness, StopRead, Age, Crash, LoseLock, vars

-----------------------------------------------------------------------------
(* Tickets: a step drops some, or claims one, or passes one to the executor. *)

Dropped == \A t \in Threads : Held(t)' \in {Held(t), NoTicket}

\* A task manager step that neither claims a job nor passes one on at most drops
\* its ticket.
LEMMA WorkerDrops ==
  ASSUME TypeOK, NEW p \in Pods, WorkerStep(p) \/ WorkerError(p), ~SubmitTask(p),
         ~\E j \in Jobs : Claim(p, j)
  PROVE  Dropped
<1>0. ASSUME \A q \in Pods : /\ worker'[q].ticket \in {worker[q].ticket, NoTicket}
                             /\ exec'[q].ticket \in {exec[q].ticket, NoTicket}
      PROVE  Dropped
  BY <1>0 DEF Dropped, Held, Threads
<1>1. UNCHANGED exec
  BY DEF WorkerStep, WorkerError, RecoverRead, RecoverWrite, CleanupRead, CleanupWrite,
     NothingClaimed, RequeueWrite, MaintenanceError, ClaimError, SubmitError, RequeueError
<1>2. worker'[p].ticket \in {worker[p].ticket, NoTicket}
  <2>1. CASE RecoverRead(p) \/ RecoverWrite(p) \/ CleanupRead(p) \/ CleanupWrite(p)
    BY <2>1 DEF TypeOK, Worker, RecoverRead, RecoverWrite, CleanupRead, CleanupWrite
  <2>2. CASE NothingClaimed(p) \/ MaintenanceError(p) \/ ClaimError(p) \/ SubmitError(p)
    BY <2>2 DEF TypeOK, Worker, NothingClaimed, MaintenanceError, ClaimError, SubmitError, Goto
  <2>3. CASE RequeueWrite(p) \/ RequeueError(p)
    BY <2>3 DEF TypeOK, RequeueWrite, RequeueError, NewWorker
  <2> QED
    BY <2>1, <2>2, <2>3 DEF WorkerStep, WorkerError
<1>3. \A q \in Pods \ {p} : worker'[q] = worker[q]
  BY DEF TypeOK, WorkerStep, WorkerError, RecoverRead, RecoverWrite, CleanupRead,
     CleanupWrite, NothingClaimed, RequeueWrite, MaintenanceError, ClaimError, SubmitError,
     RequeueError, Goto
<1> QED
  BY <1>0, <1>1, <1>2, <1>3

\* What any step may do to the tickets.
LEMMA TicketStep ==
  ASSUME TypeOK, [Next]_vars
  PROVE  \/ Dropped
         \/ \E p \in Pods, j \in Jobs : Claim(p, j)
         \/ \E p \in Pods : SubmitTask(p)
<1>1. ASSUME \A p \in Pods : /\ worker'[p].ticket \in {worker[p].ticket, NoTicket}
                             /\ exec'[p].ticket \in {exec[p].ticket, NoTicket}
      PROVE  Dropped
  BY <1>1 DEF Dropped, Held, Threads
<1>2. ASSUME NEW p \in Pods, WorkerStep(p) \/ WorkerError(p), ~SubmitTask(p),
             ~\E j \in Jobs : Claim(p, j)
      PROVE  Dropped
  BY <1>2, WorkerDrops
<1>3. ASSUME NEW p \in Pods, ExecStep(p) PROVE Dropped
  <2>1. Finish(p) \/ exec'[p].ticket = exec[p].ticket
    BY <1>3 DEF TypeOK, Exec, ExecStep, ReachCheckpoint, CheckStopped, CheckSuperseded, TaskRaises,
       Finalize, FinalizeFailed, UpdateStoppedRead, UpdateStoppedWrite, CallbackRead,
       CallbackWrite, ExecGoto
  <2>2. UNCHANGED worker /\ \A q \in Pods \ {p} : exec'[q] = exec[q]
    BY <1>3 DEF TypeOK, ExecStep, ReachCheckpoint, CheckStopped, CheckSuperseded, TaskRaises,
       Finalize, FinalizeFailed, UpdateStoppedRead, UpdateStoppedWrite, CallbackRead,
       CallbackWrite, Finish, ExecGoto
  <2> QED
    BY <1>1, <2>1, <2>2 DEF TypeOK, Finish, NewExec
<1>4. ASSUME NEW p \in Pods, Crash(p) PROVE Dropped
  BY <1>1, <1>4 DEF TypeOK, Crash, NewWorker, NewExec
<1>5. ASSUME UNCHANGED <<worker, exec>> PROVE Dropped
  BY <1>1, <1>5
<1> QED
  BY <1>2, <1>3, <1>4, <1>5 DEF Next, Request, Submit, ScheduleHarness, Insert, StopRead,
     StopWrite, ProgressTimeout, Age, LoseLock, vars

\* attempt_count never decreases.
LEMMA AttemptsGrow ==
  ASSUME TypeOK, OneTaskPerPod, AttemptHeldOnce, [Next]_vars, NEW j \in Jobs
  PROVE  row[j].attempt_count \in Nat /\ row'[j].attempt_count \in Nat
         /\ row'[j].attempt_count >= row[j].attempt_count
<1>1. row[j].attempt_count \in Nat
  BY DEF TypeOK, Row
<1>2. row'[j].attempt_count = row[j].attempt_count
      \/ row'[j].attempt_count = row[j].attempt_count + 1
  BY RowStep DEF RowMove, Unmoved, Ended, Submitted, Requeued, Taken, Published, Kept
<1> QED
  BY <1>1, <1>2

\* A thread with a ticket holds a job of the table.
LEMMA BusyJob ==
  ASSUME TypeOK, OneTaskPerPod, NEW t \in Threads, Busy(t)
  PROVE  Held(t).job \in Jobs /\ Held(t).attempt_count \in Nat
<1> PICK p \in Pods : t = <<p, "worker">> \/ t = <<p, "executor">>
  BY HeldThreads
<1>1. Held(t) \in {worker[p].ticket, exec[p].ticket} /\ Held(t).job # None
  <2>1. CASE t = <<p, "worker">>
    BY <2>1, HeldThreads DEF OneTaskPerPod
  <2>2. CASE t = <<p, "executor">>
    BY <2>2, HeldThreads DEF OneTaskPerPod
  <2> QED
    BY <2>1, <2>2
<1>2. worker[p].ticket \in Ticket /\ exec[p].ticket \in Ticket
  BY DEF TypeOK, Worker, Exec
<1> QED
  BY <1>1, <1>2 DEF Ticket

\* Fencing tokens stay unique: a new ticket has an attempt_count nobody holds.
LEMMA AttemptStep ==
  TypeOK /\ OneTaskPerPod /\ AttemptHeldOnce /\ [Next]_vars => AttemptHeldOnce'
<1> SUFFICES ASSUME TypeOK, OneTaskPerPod, AttemptHeldOnce, [Next]_vars PROVE AttemptHeldOnce'
  OBVIOUS
<1> DEFINE Given(t) == Held(t).attempt_count \in 1..row[Held(t).job].attempt_count
<1>1. \A t \in Threads : Busy(t) => Given(t)
  BY DEF AttemptHeldOnce
<1>2. \A t, u \in Threads : Busy(t) /\ Held(t) = Held(u) => t = u
  BY DEF AttemptHeldOnce
<1>3. ASSUME NEW t \in Threads, NEW u \in Threads, Busy(u), Held(t)' = Held(u)
      PROVE  Given(t)'
  BY <1>1, <1>3, BusyJob, AttemptsGrow
<1>4. CASE Dropped
  <2>1. \A t \in Threads : Busy(t)' => Busy(t) /\ Held(t)' = Held(t)
    BY <1>4 DEF Dropped, Busy
  <2>2. ASSUME NEW t \in Threads, NEW u \in Threads, Busy(t)', Held(t)' = Held(u)' PROVE t = u
    <3>1. Busy(u)'
      BY <2>2 DEF Busy
    <3> QED
      BY <1>2, <2>1, <2>2, <3>1
  <2> QED
    BY <1>3, <2>1, <2>2 DEF AttemptHeldOnce
<1>5. CASE \E p \in Pods, j \in Jobs : Claim(p, j)
  <2> PICK p \in Pods, j \in Jobs : Claim(p, j)
    BY <1>5
  <2> DEFINE new == [job |-> j, attempt_count |-> row[j].attempt_count + 1]
  <2>1. Held(<<p, "worker">>)' = new
    BY DEF Held, Claim, TypeOK, Worker
  <2>2. \A t \in Threads \ {<<p, "worker">>} : Held(t)' = Held(t)
    BY DEF Held, Threads, Claim, TypeOK
  <2>3. row'[j].attempt_count = row[j].attempt_count + 1
    BY ClaimType DEF Claim, TypeOK
  <2>4. \A t \in Threads : Busy(t) => Held(t) # new
    BY <1>1, AttemptsGrow
  <2>5. new # NoTicket
    BY JobsAssumption DEF NoTicket
  <2>6. Given(<<p, "worker">>)'
    BY <2>1, <2>3, AttemptsGrow
  <2>7. \A t \in Threads : Busy(t)' => Given(t)'
    BY <1>3, <2>2, <2>6 DEF Busy
  <2>8. ASSUME NEW t \in Threads, NEW u \in Threads, Busy(t)', Held(t)' = Held(u)' PROVE t = u
    <3>1. Busy(u)'
      BY <2>8 DEF Busy
    <3>2. CASE t # <<p, "worker">> /\ u # <<p, "worker">>
      BY <1>2, <2>2, <2>8, <3>2 DEF Busy
    <3>3. CASE t = <<p, "worker">> /\ u # <<p, "worker">>
      BY <2>1, <2>2, <2>4, <2>8, <3>1, <3>3 DEF Busy
    <3>4. CASE t # <<p, "worker">> /\ u = <<p, "worker">>
      BY <2>1, <2>2, <2>4, <2>8, <3>4 DEF Busy
    <3> QED
      BY <3>2, <3>3, <3>4
  <2> QED
    BY <2>7, <2>8 DEF AttemptHeldOnce
<1>6. CASE \E p \in Pods : SubmitTask(p)
  <2> PICK p \in Pods : SubmitTask(p)
    BY <1>6
  <2> DEFINE w == <<p, "worker">>
             e == <<p, "executor">>
  <2>1. w \in Threads /\ e \in Threads /\ w # e
    BY DEF Threads
  <2>2. Held(e)' = Held(w) /\ Held(w)' = NoTicket
    BY DEF Held, SubmitTask, TypeOK, Worker, Exec, NewExec, NewWorker
  <2>3. \A t \in Threads \ {w, e} : Held(t)' = Held(t)
    BY DEF Held, Threads, SubmitTask, TypeOK
  <2>4. ~Busy(e)
    BY HeldThreads DEF SubmitTask, OneTaskPerPod, Busy
  <2> DEFINE Before(t) == IF t = e THEN w ELSE t
  <2>5. \A t \in Threads : Busy(t)' =>
          t # w /\ Before(t) \in Threads /\ Busy(Before(t)) /\ Held(t)' = Held(Before(t))
    BY <2>1, <2>2, <2>3 DEF Busy
  <2>6. ASSUME NEW t \in Threads, NEW u \in Threads, Busy(t)', Held(t)' = Held(u)' PROVE t = u
    <3>1. Busy(u)'
      BY <2>6 DEF Busy
    <3>2. Before(t) = Before(u)
      BY <1>2, <2>5, <2>6, <3>1
    <3> QED
      BY <2>5, <2>6, <3>1, <3>2
  <2> QED
    BY <1>3, <2>5, <2>6 DEF AttemptHeldOnce
<1> QED
  BY <1>4, <1>5, <1>6, TicketStep

-----------------------------------------------------------------------------
(* What holds of every behaviour. *)

Inv == TypeOK /\ OneTaskPerPod /\ AttemptHeldOnce

\* The invariant holds at first.
LEMMA InvInit == Init => Inv
<1>1. Init => OneTaskPerPod
  BY DEF Init, OneTaskPerPod, Busy, Held, NewWorker, NewExec, NoTicket
<1>2. Init => AttemptHeldOnce
  BY DEF Init, AttemptHeldOnce, Busy, Held, Threads, NewWorker, NewExec
<1> QED
  BY <1>1, <1>2, InitType DEF Inv

\* The semaphore and the fencing tokens together are inductive: a slot is only
\* free when neither thread has a ticket, so a claim always gives a new one.
THEOREM Invariance == Spec => []Inv
<1>1. Inv /\ [Next]_vars => Inv'
  BY TypeStep, OneTaskStep, AttemptStep DEF Inv
<1> QED
  BY <1>1, InvInit, PTL DEF Spec

\* Type correctness: rows, threads, semaphores and loaded rows keep their shape.
THEOREM TypeCorrect == Spec => []TypeOK
BY Invariance, PTL DEF Inv

\* The semaphore keeps every pod to one claimed job, from the claim until the
\* done callback, whatever fails in between.
THEOREM OneTask == Spec => []OneTaskPerPod
BY Invariance, PTL DEF Inv

\* attempt_count is a fencing token: no two threads hold the same attempt.
THEOREM AttemptUnique == Spec => []AttemptHeldOnce
BY Invariance, PTL DEF Inv

\* The run recorded with a completed job is that of its newest attempt.
THEOREM CompletedNewest == Spec => []CompletedByNewestAttempt
<1>1. Init => CompletedByNewestAttempt
  BY DEF Init, CompletedByNewestAttempt
<1>2. Inv /\ CompletedByNewestAttempt /\ [Next]_vars => CompletedByNewestAttempt'
  <2> SUFFICES ASSUME Inv, CompletedByNewestAttempt, [Next]_vars, NEW j \in Jobs,
                      row'[j].status = "completed"
               PROVE  row'[j].job_runs = row'[j].attempt_count
    BY DEF CompletedByNewestAttempt
  <2>1. RowMove(j)
    BY RowStep DEF Inv
  <2>2. row[j].status = "completed" => row[j].job_runs = row[j].attempt_count
    BY DEF CompletedByNewestAttempt
  <2> QED
    BY <2>1, <2>2 DEF RowMove, Unmoved, Ended, Submitted, Requeued, Taken, Published, Kept
<1> QED
  BY <1>1, <1>2, Invariance, PTL DEF Spec

-----------------------------------------------------------------------------
(* The bound on attempts. *)

\* A step of a pod leaves the other pods' task manager threads alone.
LEMMA OwnWorker ==
  ASSUME TypeOK, [Next]_vars, NEW p \in Pods,
         ~WorkerStep(p), ~WorkerError(p), ~Crash(p)
  PROVE  worker'[p] = worker[p]
<1>1. ASSUME NEW q \in Pods, WorkerStep(q) \/ WorkerError(q)
      PROVE  worker' = [worker EXCEPT ![q] = worker'[q]]
  BY <1>1 DEF TypeOK, WorkerStep, WorkerError, RecoverRead, RecoverWrite, CleanupRead, CleanupWrite,
     Claim, NothingClaimed, SubmitTask, RequeueWrite, MaintenanceError, ClaimError, SubmitError,
     RequeueError, Goto
<1>2. ASSUME NEW q \in Pods, Crash(q) PROVE worker' = [worker EXCEPT ![q] = NewWorker]
  BY <1>2 DEF Crash
<1>3. ASSUME NEW q \in Pods, ExecStep(q) PROVE UNCHANGED worker
  BY <1>3 DEF ExecStep, ReachCheckpoint, CheckStopped, CheckSuperseded, TaskRaises, Finalize,
     FinalizeFailed, UpdateStoppedRead, UpdateStoppedWrite, CallbackRead, CallbackWrite
<1>4. ASSUME NEW j \in Jobs, Request(j) \/ ProgressTimeout(j) \/ Age(j) PROVE UNCHANGED worker
  BY <1>4 DEF Request, Submit, ScheduleHarness, Insert, StopRead, StopWrite, ProgressTimeout, Age
<1>5. CASE UNCHANGED vars \/ LoseLock
  BY <1>5 DEF vars, LoseLock
<1>6. CASE Next
  BY <1>1, <1>2, <1>3, <1>4, <1>5, <1>6 DEF Next, TypeOK
<1> QED
  BY <1>5, <1>6

Maintaining(p) == worker[p].pc \in {"recover", "cleanup", "cleaning"}

\* Maintenance begins by taking the advisory lock and ends by giving it back,
\* unless the lock was lost.
LEMMA MaintainerStep ==
  "lock" \notin FaultKinds /\ TypeOK /\ OneMaintainer /\ [Next]_vars => OneMaintainer'
<1> SUFFICES ASSUME "lock" \notin FaultKinds, TypeOK, OneMaintainer, [Next]_vars, NEW q \in Pods
             PROVE  Maintaining(q)' <=> leader' = q
  BY DEF OneMaintainer, Maintaining
<1>1. \A r \in Pods : Maintaining(r) <=> leader = r
  BY DEF OneMaintainer, Maintaining
<1>2. ASSUME NEW p \in Pods, WorkerStep(p) \/ WorkerError(p) PROVE Maintaining(q)' <=> leader' = q
  <2>1. CASE RecoverRead(p)
    BY <1>1, <2>1, JobsAssumption DEF RecoverRead, AcquireLeader, Maintaining, TypeOK, Worker
  <2>2. CASE RecoverWrite(p) \/ CleanupRead(p)
    BY <1>1, <2>2 DEF RecoverWrite, CleanupRead, Maintaining, TypeOK, Worker
  <2>7. ASSUME worker[p].pc \in {"cleanup", "cleaning"}, ReleaseLeader(p),
               worker' = [worker EXCEPT ![p].pc = "poll", ![p].loaded = NewWorker.loaded]
        PROVE  Maintaining(q)' <=> leader' = q
    <3>1. leader = p
      BY <1>1, <2>7 DEF Maintaining
    <3>2. leader' = None
      BY <2>7, <3>1 DEF ReleaseLeader
    <3>3. q # p => ~Maintaining(q) /\ worker'[q] = worker[q]
      BY <1>1, <2>7, <3>1 DEF TypeOK
    <3>4. ~Maintaining(p)'
      BY <2>7 DEF TypeOK, Worker, Maintaining
    <3> QED
      BY <3>2, <3>3, <3>4, JobsAssumption DEF Maintaining
  <2>8. CASE CleanupWrite(p)
    BY <2>7, <2>8 DEF CleanupWrite
  <2>3. CASE MaintenanceError(p)
    <3>1. CASE /\ worker[p].pc = "recover"
               /\ worker' = [worker EXCEPT ![p].pc = "cleanup", ![p].loaded = NewWorker.loaded]
               /\ UNCHANGED leader
      <4>1. \A r \in Pods : Maintaining(r)' <=> Maintaining(r)
        BY <3>1 DEF Maintaining, TypeOK, Worker
      <4> QED
        BY <1>1, <3>1, <4>1
    <3>2. CASE /\ worker[p].pc \in {"cleanup", "cleaning"}
               /\ worker' = [worker EXCEPT ![p].pc = "poll", ![p].loaded = NewWorker.loaded]
               /\ ReleaseLeader(p)
      BY <2>7, <3>2
    <3> QED
      BY <2>3, <3>1, <3>2 DEF MaintenanceError
  <2>4. CASE (\E j \in Jobs : Claim(p, j)) \/ NothingClaimed(p) \/ ClaimError(p)
    <3>1. /\ UNCHANGED leader /\ worker[p].pc \in {"loop", "poll"}
          /\ worker'[p].pc \in {"submit", "loop"} /\ \A r \in Pods \ {p} : worker'[r] = worker[r]
      BY <2>4 DEF Claim, NothingClaimed, ClaimError, Goto, TypeOK, Worker
    <3>2. \A r \in Pods : Maintaining(r)' <=> Maintaining(r)
      BY <3>1 DEF Maintaining
    <3> QED
      BY <1>1, <3>1, <3>2
  <2>5. CASE SubmitTask(p) \/ SubmitError(p)
    <3>1. /\ UNCHANGED leader /\ worker[p].pc = "submit"
          /\ worker'[p].pc \in {"loop", "requeue"} /\ \A r \in Pods \ {p} : worker'[r] = worker[r]
      BY <2>5 DEF SubmitTask, SubmitError, TypeOK, Worker
    <3>2. \A r \in Pods : Maintaining(r)' <=> Maintaining(r)
      BY <3>1 DEF Maintaining
    <3> QED
      BY <1>1, <3>1, <3>2
  <2>6. CASE RequeueWrite(p) \/ RequeueError(p)
    BY <1>1, <2>6 DEF RequeueWrite, RequeueError, NewWorker, Maintaining, TypeOK
  <2> QED
    BY <1>2, <2>1, <2>2, <2>3, <2>4, <2>5, <2>6, <2>8 DEF WorkerStep, WorkerError
<1>3. ASSUME NEW p \in Pods, Crash(p) PROVE Maintaining(q)' <=> leader' = q
  BY <1>1, <1>3, JobsAssumption DEF Crash, ReleaseLeader, NewWorker, Maintaining, TypeOK
<1>4. ASSUME UNCHANGED <<worker, leader>> PROVE Maintaining(q)' <=> leader' = q
  BY <1>1, <1>4 DEF Maintaining
<1> QED
  BY <1>2, <1>3, <1>4 DEF Next, Request, Submit, ScheduleHarness, Insert, StopRead,
     StopWrite, ProgressTimeout, Age, LoseLock, Fault,
     ExecStep, ReachCheckpoint, CheckStopped, CheckSuperseded, TaskRaises, Finalize,
     FinalizeFailed, UpdateStoppedRead, UpdateStoppedWrite, CallbackRead, CallbackWrite, vars

NoRequeue == \A p \in Pods : worker[p].pc # "requeue"

\* While executor.submit works, no thread requeues a job.
LEMMA NoRequeueStep ==
  "submit" \notin FaultKinds /\ TypeOK /\ NoRequeue /\ [Next]_vars => NoRequeue'
<1> SUFFICES ASSUME "submit" \notin FaultKinds, TypeOK, NoRequeue, [Next]_vars, NEW p \in Pods
             PROVE  worker'[p].pc # "requeue"
  BY DEF NoRequeue
<1>1. worker[p].pc # "requeue"
  BY DEF NoRequeue
<1>2. CASE WorkerStep(p)
  BY <1>1, <1>2 DEF TypeOK, Worker, NewWorker, WorkerStep, RecoverRead, RecoverWrite, CleanupRead,
     CleanupWrite, Claim, NothingClaimed, SubmitTask, RequeueWrite, Goto
<1>3. CASE WorkerError(p)
  BY <1>1, <1>3 DEF TypeOK, Worker, NewWorker, WorkerError, MaintenanceError, ClaimError,
     SubmitError, RequeueError, Fault, Goto
<1>4. CASE Crash(p)
  BY <1>4 DEF TypeOK, Crash, NewWorker
<1> QED
  BY <1>1, <1>2, <1>3, <1>4, OwnWorker

QueueInv == NoRequeue /\ OneMaintainer /\ LeaderView /\ AttemptsLeft /\ AttemptsBounded

\* What the maintenance leader has read of a running row stays true until it
\* writes.
LEMMA LeaderViewStep == Inv /\ QueueInv /\ [Next]_vars => LeaderView'
<1> SUFFICES ASSUME Inv, QueueInv, [Next]_vars, NEW p \in Pods, NEW j \in Jobs,
                    worker'[p].pc = "recover", worker'[p].loaded[j] # NotLoaded
             PROVE  /\ worker'[p].loaded[j].status = "running"
                    /\ worker'[p].loaded[j].attempt_count = row'[j].attempt_count
                    /\ row'[j].status \notin {"absent", "pending"}
  BY DEF LeaderView
<1> USE DEF Inv
<1>1. CASE RecoverRead(p)
  <2>1. worker'[p].loaded[j] = (IF IsStale(row[j]) THEN Load(j) ELSE NotLoaded) /\ row' = row
    BY <1>1 DEF RecoverRead, TypeOK, Worker
  <2> QED
    BY <2>1 DEF IsStale, Load
<1>2. CASE ~RecoverRead(p)
  <2>1. worker'[p] = worker[p]
    <3>1. ~Crash(p)
      BY DEF Crash, TypeOK, NewWorker
    <3>2. ~WorkerStep(p)
      BY <1>2 DEF TypeOK, Worker, NewWorker, WorkerStep, RecoverWrite, CleanupRead, CleanupWrite,
         Claim, NothingClaimed, SubmitTask, RequeueWrite, Goto
    <3>3. ~WorkerError(p)
      BY DEF TypeOK, Worker, NewWorker, WorkerError, MaintenanceError, ClaimError, SubmitError,
         RequeueError, Goto
    <3> QED
      BY <3>1, <3>2, <3>3, OwnWorker
  <2>2. /\ worker[p].loaded[j].status = "running"
        /\ worker[p].loaded[j].attempt_count = row[j].attempt_count
        /\ row[j].status \notin {"absent", "pending"}
    BY <2>1 DEF QueueInv, LeaderView
  <2>3. ~Requeued(j)
    <3>1. ASSUME NEW q \in Pods PROVE ~RequeueWrite(q)
      BY DEF QueueInv, NoRequeue, RequeueWrite
    <3>2. ASSUME NEW q \in Pods, RecoverWrite(q) PROVE FALSE
      <4>1. q = p
        BY <2>1, <3>2 DEF QueueInv, OneMaintainer, RecoverWrite
      <4> QED
        BY <3>2, <4>1 DEF RecoverWrite, TypeOK
    <3> QED
      BY <3>1, <3>2 DEF Requeued
  <2>4. RowMove(j)
    BY RowStep
  <2> QED
    BY <2>1, <2>2, <2>3, <2>4 DEF RowMove, Unmoved, Ended, Submitted, Taken, Published, Kept
<1> QED
  BY <1>1, <1>2

\* A pending job always has an attempt left, because maintenance fails the
\* others.
LEMMA AttemptsLeftStep ==
  Inv /\ QueueInv /\ [Next]_vars => AttemptsLeft' /\ AttemptsBounded'
<1> SUFFICES ASSUME Inv, QueueInv, [Next]_vars, NEW j \in Jobs
             PROVE  /\ row'[j].status = "pending" => row'[j].attempt_count < MaxJobAttempts
                    /\ row'[j].status = "absent" => row'[j].attempt_count = 0
                    /\ row'[j].attempt_count <= MaxJobAttempts
  BY DEF AttemptsLeft, AttemptsBounded
<1>1. /\ row[j].status = "pending" => row[j].attempt_count < MaxJobAttempts
      /\ row[j].status = "absent" => row[j].attempt_count = 0
      /\ row[j].attempt_count <= MaxJobAttempts
      /\ row[j].attempt_count \in Nat
  BY DEF Inv, TypeOK, Row, QueueInv, AttemptsLeft, AttemptsBounded
<1>2. Requeued(j) => row[j].attempt_count < MaxJobAttempts
  <2> SUFFICES ASSUME NEW p \in Pods, RecoverWrite(p), worker[p].loaded[j] # NotLoaded,
                      worker[p].loaded[j].attempt_count < MaxJobAttempts
               PROVE  row[j].attempt_count < MaxJobAttempts
    BY DEF Requeued, QueueInv, NoRequeue, RequeueWrite
  <2> QED
    BY DEF QueueInv, LeaderView, RecoverWrite
<1>3. RowMove(j)
  BY RowStep DEF Inv
<1> QED
  BY <1>1, <1>2, <1>3, BoundsAssumption
     DEF RowMove, Unmoved, Ended, Submitted, Requeued, Taken, Published, Kept

\* Only one pod at a time is in queue maintenance, whatever crashes, as long as
\* the connection that holds the lock does not drop.
THEOREM LockExclusive == "lock" \notin FaultKinds => (Spec => []OneMaintainer)
<1> SUFFICES ASSUME "lock" \notin FaultKinds PROVE Spec => []OneMaintainer
  OBVIOUS
<1>1. Init => OneMaintainer
  BY JobsAssumption DEF Init, OneMaintainer, NewWorker
<1>2. TypeOK /\ OneMaintainer /\ [Next]_vars => OneMaintainer'
  BY MaintainerStep
<1> QED
  BY <1>1, <1>2, TypeCorrect, PTL DEF Spec

\* Without failed submissions and lost locks, the invariant of the attempts holds at
\* first ...
LEMMA QueueInvInit ==
  "submit" \notin FaultKinds /\ "lock" \notin FaultKinds /\ Init => QueueInv
BY JobsAssumption, BoundsAssumption DEF Init, QueueInv, NoRequeue, OneMaintainer, LeaderView,
   AttemptsLeft, AttemptsBounded, NewWorker

\* ... and every step keeps it.
LEMMA QueueInvStep ==
  "submit" \notin FaultKinds /\ "lock" \notin FaultKinds /\ Inv /\ QueueInv /\ [Next]_vars => QueueInv'
BY NoRequeueStep, MaintainerStep, LeaderViewStep, AttemptsLeftStep DEF Inv, QueueInv

\* While executor.submit works and nobody loses the advisory lock, no job is ever
\* claimed more than MAX_JOB_ATTEMPTS times, although the reaper decides on rows
\* it read earlier: the lock keeps every other reaper out, and nothing else makes
\* a row pending.
THEOREM AttemptsBound ==
  FaultKinds \cap {"submit", "lock"} = {} => (Spec => []AttemptsBounded)
<1> SUFFICES ASSUME "submit" \notin FaultKinds, "lock" \notin FaultKinds
             PROVE  Spec => []AttemptsBounded
  OBVIOUS
<1>1. Spec => []QueueInv
  <2>1. Init => QueueInv
    BY QueueInvInit
  <2>2. Inv /\ QueueInv /\ [Next]_vars => QueueInv'
    BY QueueInvStep
  <2> QED
    BY <2>1, <2>2, Invariance, PTL DEF Spec
<1>2. QueueInv => AttemptsBounded
  BY DEF QueueInv
<1> QED
  BY <1>1, <1>2, PTL

\* Under the same assumption, what the maintenance leader has read of a running row
\* is still true when it decides: its attempt is the newest and nobody has requeued it.
THEOREM LeaderViewHolds ==
  FaultKinds \cap {"submit", "lock"} = {} => (Spec => []LeaderView)
<1> SUFFICES ASSUME "submit" \notin FaultKinds, "lock" \notin FaultKinds
             PROVE  Spec => []LeaderView
  OBVIOUS
<1>1. Spec => []QueueInv
  <2>1. Init => QueueInv
    BY QueueInvInit
  <2>2. Inv /\ QueueInv /\ [Next]_vars => QueueInv'
    BY QueueInvStep
  <2> QED
    BY <2>1, <2>2, Invariance, PTL DEF Spec
<1>2. QueueInv => LeaderView
  BY DEF QueueInv
<1> QED
  BY <1>1, <1>2, PTL

-----------------------------------------------------------------------------
(* The queue implements JobLifecycle. *)

\* Nobody has read, or works on, a job that was never submitted.
NothingOfAbsent ==
  \A j \in Jobs : row[j].status = "absent" =>
    /\ row[j].attempt_count = 0
    /\ stopping[j] = NotLoaded
    /\ \A p \in Pods : worker[p].loaded[j] = NotLoaded

\* A job somebody holds was submitted.
LEMMA HeldExists ==
  ASSUME Inv, NothingOfAbsent, NEW t \in Threads, Busy(t)
  PROVE  Held(t).job \in Jobs /\ row[Held(t).job].status # "absent"
<1>1. Held(t).job \in Jobs /\ Held(t).attempt_count \in 1..row[Held(t).job].attempt_count
  BY BusyJob DEF Inv, AttemptHeldOnce
<1>2. row[Held(t).job].attempt_count # 0
  BY <1>1 DEF Inv, TypeOK, Row
<1> QED
  BY <1>1, <1>2 DEF NothingOfAbsent

\* No step reads a row that does not exist.
LEMMA NothingOfAbsentStep == Inv /\ NothingOfAbsent /\ [Next]_vars => NothingOfAbsent'
<1> SUFFICES ASSUME Inv, NothingOfAbsent, [Next]_vars, NEW j \in Jobs, row'[j].status = "absent"
             PROVE  /\ row'[j].attempt_count = 0
                    /\ stopping'[j] = NotLoaded
                    /\ \A p \in Pods : worker'[p].loaded[j] = NotLoaded
  BY DEF NothingOfAbsent
<1> USE DEF Inv
<1>1. row[j].status = "absent" /\ row'[j].attempt_count = row[j].attempt_count
  BY RowStep DEF RowMove, Unmoved, Ended, Submitted, Requeued, Taken, Published, Kept
<1>2. /\ row[j].attempt_count = 0 /\ stopping[j] = NotLoaded
      /\ \A p \in Pods : worker[p].loaded[j] = NotLoaded
  BY <1>1 DEF NothingOfAbsent
<1>3. stopping'[j] = NotLoaded
  <2>1. stopping' = stopping \/ \E i \in Jobs : StopRead(i) \/ StopWrite(i)
    BY ZenonT(60) DEF Next, Request, Submit, ScheduleHarness, Insert, ProgressTimeout, Age, WorkerStep,
       WorkerError, RecoverRead, RecoverWrite, CleanupRead, CleanupWrite, Claim, NothingClaimed,
       SubmitTask, RequeueWrite, MaintenanceError, ClaimError, SubmitError, RequeueError, ExecStep,
       ReachCheckpoint, CheckStopped, CheckSuperseded, TaskRaises, Finalize, FinalizeFailed,
       UpdateStoppedRead, UpdateStoppedWrite, CallbackRead, CallbackWrite, Crash, LoseLock, vars
  <2> QED
    BY <1>1, <1>2, <2>1, SMTT(30) DEF StopRead, StopWrite, TypeOK
<1>4. ASSUME NEW p \in Pods PROVE worker'[p].loaded[j] = NotLoaded
  <2>1. CASE WorkerStep(p)
    <3>1. CASE RecoverRead(p)
      BY <1>1, <3>1 DEF RecoverRead, IsStale, TypeOK, Worker
    <3>2. CASE CleanupRead(p)
      BY <1>1, <3>2 DEF CleanupRead, TypeOK, Worker
    <3>3. CASE RecoverWrite(p) \/ CleanupWrite(p) \/ RequeueWrite(p)
      BY <3>3 DEF RecoverWrite, CleanupWrite, RequeueWrite, NewWorker, TypeOK, Worker
    <3>4. CASE (\E i \in Jobs : Claim(p, i)) \/ NothingClaimed(p) \/ SubmitTask(p)
      BY <1>2, <3>4 DEF Claim, NothingClaimed, SubmitTask, Goto, TypeOK, Worker
    <3> QED
      BY <2>1, <3>1, <3>2, <3>3, <3>4 DEF WorkerStep
  <2>2. CASE WorkerError(p)
    <3>1. CASE SubmitError(p)
      <4> DEFINE t == <<p, "worker">>
      <4>1. t \in Threads /\ Held(t) = worker[p].ticket /\ Busy(t)
        BY <3>1, HeldThreads DEF Threads, OneTaskPerPod, SubmitError
      <4>2. worker[p].ticket.job # j
        BY <1>1, <4>1, HeldExists
      <4> QED
        BY <1>2, <3>1, <4>2 DEF SubmitError, TypeOK, Worker
    <3>2. CASE MaintenanceError(p) \/ RequeueError(p)
      BY <3>2 DEF MaintenanceError, RequeueError, NewWorker, TypeOK, Worker
    <3>3. CASE ClaimError(p)
      BY <1>2, <3>3 DEF ClaimError, Goto, TypeOK, Worker
    <3> QED
      BY <2>2, <3>1, <3>2, <3>3 DEF WorkerError
  <2>3. CASE Crash(p)
    BY <2>3 DEF Crash, NewWorker, TypeOK
  <2>4. CASE ~WorkerStep(p) /\ ~WorkerError(p) /\ ~Crash(p)
    BY <1>2, <2>4, OwnWorker
  <2> QED
    BY <2>1, <2>2, <2>3, <2>4
<1> QED
  BY <1>1, <1>2, <1>3, <1>4

Tickets == {Held(t) : t \in {u \in Threads : Busy(u)}}

\* What Overwrite may do to a job.
Overwritten(j) ==
  /\ Kept(j)
  /\ \/ row'[j].status = row[j].status
     \/ row[j].status # "absent" /\ row'[j].status \in {"pending", "failed", "stopped"}

\* Tickets that are only dropped leave the others.
LEMMA DroppedTickets == Dropped => Tickets' \subseteq Tickets
<1> SUFFICES ASSUME Dropped, NEW k \in Tickets' PROVE k \in Tickets
  OBVIOUS
<1>1. PICK t \in Threads : Busy(t)' /\ k = Held(t)'
  BY DEF Tickets, Threads
<1>2. Held(t)' = Held(t) /\ Busy(t)
  BY <1>1 DEF Dropped, Busy
<1> QED
  BY <1>1, <1>2 DEF Tickets

\* A step that only drops tickets and writes over statuses is an Overwrite.
LEMMA OverwriteStep ==
  ASSUME Tickets' \subseteq Tickets, \A j \in Jobs : Overwritten(j)
  PROVE  Lifecycle!Overwrite
BY DEF Lifecycle!Overwrite, Tickets, Overwritten, Kept

\* Writing over the status of a row that was loaded.
LEMMA FlushOverwrites ==
  ASSUME TypeOK, NEW j \in Jobs, row[j].status # "absent", NEW old \in Loaded,
         NEW s \in {"pending", "failed", "stopped"}, row'[j] = Flush(row[j], old, s)
  PROVE  Overwritten(j)
<1>1. row[j] \in Row /\ s \in Status
  BY DEF TypeOK, Status, Terminal
<1> QED
  BY <1>1, FlushType DEF Overwritten, Kept

\* What a task manager thread does to rows, other than by claiming.
LEMMA WorkerOverwrites ==
  ASSUME Inv, NothingOfAbsent, NEW p \in Pods, WorkerStep(p) \/ WorkerError(p),
         ~(\E j \in Jobs : Claim(p, j)), ~ClaimError(p)
  PROVE  \A j \in Jobs : Overwritten(j)
<1> SUFFICES ASSUME NEW j \in Jobs PROVE Overwritten(j)
  OBVIOUS
<1> USE DEF Inv
<1>0. worker[p].loaded \in [Jobs -> Loaded]
  BY DEF TypeOK, Worker
<1> DEFINE old == worker[p].loaded[j]
<1>1. CASE UNCHANGED row
  BY <1>1 DEF Overwritten, Kept
<1>2. CASE RecoverWrite(p) \/ CleanupWrite(p)
  <2>1. CASE old = NotLoaded
    BY <1>2, <2>1 DEF RecoverWrite, CleanupWrite, Overwritten, Kept
  <2>2. CASE old # NotLoaded
    <3>1. row[j].status # "absent"
      BY <2>2 DEF NothingOfAbsent
    <3>2. \E s \in {"pending", "failed", "stopped"} : row'[j] = Flush(row[j], old, s)
      BY <1>2, <2>2 DEF RecoverWrite, CleanupWrite, Verdict
    <3> QED
      BY <1>0, <3>1, <3>2, FlushOverwrites
  <2> QED
    BY <2>1, <2>2
<1>3. CASE RequeueWrite(p)
  <2> DEFINE i == worker[p].ticket.job
             t == <<p, "worker">>
  <2>1. row' = [row EXCEPT ![i] = Flush(@, worker[p].loaded[i], "pending")]
    BY <1>3 DEF RequeueWrite
  <2>2. t \in Threads /\ Held(t) = worker[p].ticket /\ Busy(t)
    BY <1>3, HeldThreads DEF Threads, OneTaskPerPod, RequeueWrite
  <2>3. i \in Jobs /\ row[i].status # "absent"
    BY <2>2, HeldExists
  <2>4. CASE i = j
    BY <1>0, <2>1, <2>3, <2>4, FlushOverwrites DEF TypeOK
  <2>5. CASE i # j
    BY <2>1, <2>5 DEF TypeOK, Overwritten, Kept
  <2> QED
    BY <2>4, <2>5
<1> QED
  BY <1>1, <1>2, <1>3 DEF WorkerStep, WorkerError, RecoverRead, CleanupRead, NothingClaimed,
     SubmitTask, MaintenanceError, SubmitError, RequeueError

\* A task holds a job that was submitted, and a ticket for one of its attempts.
LEMMA TaskTicket ==
  ASSUME Inv, NothingOfAbsent, NEW p \in Pods, exec[p].pc # "idle"
  PROVE  /\ MyJob(p) \in Jobs /\ row[MyJob(p)].status # "absent"
         /\ exec[p].ticket \in Tickets
         /\ exec[p].ticket \in Ticket
<1> DEFINE t == <<p, "executor">>
<1>1. t \in Threads /\ Held(t) = exec[p].ticket /\ Busy(t)
  BY HeldThreads DEF Threads, Inv, OneTaskPerPod
<1> QED
  BY <1>1, HeldExists DEF MyJob, Tickets, Inv, TypeOK, Exec

\* The fenced write of a task's outcome is a Record, if the fence lets it through.
LEMMA RecordStep ==
  ASSUME Inv, NothingOfAbsent, NEW p \in Pods, exec[p].pc # "idle",
         NEW s \in {"completed", "failed"}, NEW run \in BOOLEAN,
         s = "completed" => run,
         FinalizeRow(p, s, IF run THEN exec[p].ticket.attempt_count ELSE 0),
         OwnsRow(p), Tickets' \in {Tickets, Tickets \ {exec[p].ticket}}
  PROVE  Lifecycle!Next
<1> DEFINE k == exec[p].ticket
           i == MyJob(p)
           n == IF run THEN k.attempt_count ELSE 0
<1>1. i \in Jobs /\ k \in Tickets /\ k \in Ticket /\ i = k.job
  BY TaskTicket DEF MyJob
<1>2. row[i].attempt_count = k.attempt_count /\ row[i].status # "stopped"
  BY DEF OwnsRow, Superseded
<1>3. row' = [row EXCEPT ![i] = Finalized(row[i], s, n)]
  BY DEF FinalizeRow
<1>4. k.attempt_count # 0
  <2>1. PICK t \in Threads : Busy(t) /\ Held(t) = k
    BY <1>1 DEF Tickets
  <2> QED
    BY <1>1, <2>1 DEF Inv, AttemptHeldOnce, TypeOK, Row
<1>5. /\ row'[i].status = s /\ row'[i].attempt_count = row[i].attempt_count
      /\ row'[i].job_runs = IF run THEN k.attempt_count ELSE row[i].job_runs
  BY <1>1, <1>3, <1>4 DEF Finalized, Inv, TypeOK
<1>6. \A j \in Jobs \ {i} : row'[j] = row[j]
  BY <1>3 DEF Inv, TypeOK
<1>7. Lifecycle!Record(k, s, run)
  BY <1>1, <1>2, <1>5, <1>6 DEF Lifecycle!Record, Tickets
<1> QED
  BY <1>1, <1>7 DEF Lifecycle!Next, Tickets

\* A claim, with or without the ticket, is a Claim.
LEMMA ClaimStep ==
  ASSUME Inv, NEW p \in Pods, NEW j \in Jobs, OldestPending(j),
         row' = [row EXCEPT ![j] = ClaimRow(@, p)],
         \/ Tickets' = Tickets
         \/ Tickets' = Tickets \cup {[job |-> j, attempt_count |-> row[j].attempt_count + 1]}
  PROVE  Lifecycle!Next
<1>1. row[j].status = "pending" /\ row[j] \in Row
  BY DEF OldestPending, Pending, Inv, TypeOK
<1>2. /\ row'[j].status = "running" /\ row'[j].attempt_count = row[j].attempt_count + 1
      /\ row'[j].job_runs = row[j].job_runs /\ \A i \in Jobs \ {j} : row'[i] = row[i]
  <2>1. row'[j] = ClaimRow(row[j], p) /\ \A i \in Jobs \ {j} : row'[i] = row[i]
    BY DEF Inv, TypeOK
  <2> QED
    BY <1>1, <2>1, ClaimType
<1>3. Lifecycle!Claim(j)
  <2>1. [i \in Jobs |-> row[i].status]' = [[i \in Jobs |-> row[i].status] EXCEPT ![j] = "running"]
    <3>1. \A i \in Jobs : row'[i].status = IF i = j THEN "running" ELSE row[i].status
      BY <1>2
    <3> QED
      BY <3>1
  <2>2. [i \in Jobs |-> row[i].attempt_count]'
          = [[i \in Jobs |-> row[i].attempt_count] EXCEPT ![j] = @ + 1]
    <3>1. \A i \in Jobs : row'[i].attempt_count =
                          IF i = j THEN row[j].attempt_count + 1 ELSE row[i].attempt_count
      BY <1>2
    <3> QED
      BY <3>1
  <2>3. [i \in Jobs |-> row[i].job_runs]' = [i \in Jobs |-> row[i].job_runs]
    BY <1>2
  <2>4. [i \in Jobs |-> row[i].attempt_count][j] = row[j].attempt_count
        /\ [i \in Jobs |-> row[i].status][j] = "pending"
    BY <1>1
  <2> QED
    BY <2>1, <2>2, <2>3, <2>4, Zenon DEF Lifecycle!Claim, Tickets
<1> QED
  BY <1>3 DEF Lifecycle!Next

\* The tickets after a task manager thread has claimed a job: one more.
LEMMA ClaimTickets ==
  ASSUME Inv, NEW p \in Pods, NEW j \in Jobs, Claim(p, j)
  PROVE  Tickets' = Tickets \cup {[job |-> j, attempt_count |-> row[j].attempt_count + 1]}
<1> DEFINE w == <<p, "worker">>
           new == [job |-> j, attempt_count |-> row[j].attempt_count + 1]
<1>1. w \in Threads /\ Held(w)' = new
  BY DEF Threads, Held, Claim, Inv, TypeOK, Worker
<1>2. \A t \in Threads \ {w} : Held(t)' = Held(t)
  BY DEF Held, Threads, Claim, Inv, TypeOK
<1>3. ~Busy(w) /\ new # NoTicket
  BY HeldThreads, JobsAssumption DEF Claim, Inv, OneTaskPerPod, NoTicket
<1>4. ASSUME NEW k \in Tickets PROVE k \in Tickets'
  <2>1. PICK t \in Threads : Busy(t) /\ k = Held(t)
    BY DEF Tickets
  <2>2. Held(t)' = k /\ Busy(t)'
    BY <1>2, <1>3, <2>1 DEF Busy
  <2> QED
    BY <2>2 DEF Tickets, Threads
<1>5. new \in Tickets'
  BY <1>1, <1>3 DEF Tickets, Threads, Busy
<1>6. ASSUME NEW k \in Tickets', k # new PROVE k \in Tickets
  <2>1. PICK t \in Threads : Busy(t)' /\ k = Held(t)'
    BY DEF Tickets, Threads
  <2>2. Held(t) = k /\ Busy(t)
    BY <1>1, <1>2, <1>6, <2>1 DEF Busy
  <2> QED
    BY <2>2 DEF Tickets
<1> QED
  BY <1>4, <1>5, <1>6

\* Passing a ticket to the executor changes nothing about the tickets.
LEMMA SubmitTickets ==
  ASSUME Inv, NEW p \in Pods, SubmitTask(p)
  PROVE  Tickets' \subseteq Tickets
<1> DEFINE w == <<p, "worker">>
           e == <<p, "executor">>
<1>1. w \in Threads /\ e \in Threads /\ Held(e)' = Held(w) /\ Held(w)' = NoTicket
  BY DEF Threads, Held, SubmitTask, Inv, TypeOK, Worker, Exec, NewExec, NewWorker
<1>2. \A t \in Threads \ {w, e} : Held(t)' = Held(t)
  BY DEF Held, Threads, SubmitTask, Inv, TypeOK
<1> SUFFICES ASSUME NEW k \in Tickets' PROVE k \in Tickets
  OBVIOUS
<1>3. PICK t \in Threads : Busy(t)' /\ k = Held(t)'
  BY DEF Tickets, Threads
<1>4. CASE t = e
  BY <1>1, <1>3, <1>4 DEF Tickets, Busy
<1>5. CASE t # e
  BY <1>1, <1>2, <1>3, <1>5 DEF Tickets, Busy
<1> QED
  BY <1>4, <1>5

\* When a task ends, its ticket is gone: nobody else holds the same attempt.
LEMMA FinishTickets ==
  ASSUME Inv, NothingOfAbsent, NEW p \in Pods, exec[p].pc # "idle", Finish(p), UNCHANGED worker
  PROVE  Tickets' = Tickets \ {exec[p].ticket}
<1> DEFINE e == <<p, "executor">>
<1>1. e \in Threads /\ Held(e) = exec[p].ticket /\ Busy(e) /\ Held(e)' = NoTicket
  BY HeldThreads DEF Threads, Held, Finish, NewExec, Inv, OneTaskPerPod, TypeOK
<1>2. \A t \in Threads \ {e} : Held(t)' = Held(t)
  BY DEF Held, Threads, Finish, Inv, TypeOK
<1>3. \A t \in Threads \ {e} : Held(t) # exec[p].ticket
  BY <1>1 DEF Inv, AttemptHeldOnce
<1>4. ASSUME NEW k \in Tickets, k # exec[p].ticket PROVE k \in Tickets'
  <2>1. PICK t \in Threads : Busy(t) /\ k = Held(t)
    BY DEF Tickets
  <2>2. Held(t)' = k /\ Busy(t)'
    BY <1>1, <1>2, <1>4, <2>1 DEF Busy
  <2> QED
    BY <2>2 DEF Tickets, Threads
<1>5. ASSUME NEW k \in Tickets' PROVE k \in Tickets /\ k # exec[p].ticket
  <2>1. PICK t \in Threads : Busy(t)' /\ k = Held(t)'
    BY DEF Tickets, Threads
  <2>2. t # e
    BY <1>1, <2>1 DEF Busy
  <2>3. Held(t) = k /\ Busy(t)
    BY <1>2, <2>1, <2>2 DEF Busy
  <2> QED
    BY <1>3, <2>2, <2>3 DEF Tickets
<1> QED
  BY <1>4, <1>5

\* Every step of a task is a Record or an Overwrite.
LEMMA ExecImplements ==
  ASSUME Inv, NothingOfAbsent, NEW p \in Pods, ExecStep(p)
  PROVE  Lifecycle!Next
<1> DEFINE k == exec[p].ticket
           i == MyJob(p)
<1>0. /\ exec[p].pc # "idle" /\ UNCHANGED worker
      /\ \/ Finish(p)
         \/ exec' = [exec EXCEPT ![p] = exec'[p]] /\ exec'[p].ticket = k
  BY DEF ExecStep, ReachCheckpoint, CheckStopped, CheckSuperseded, TaskRaises, Finalize,
     FinalizeFailed, UpdateStoppedRead, UpdateStoppedWrite, CallbackRead, CallbackWrite, ExecGoto,
     Inv, TypeOK, Exec
<1>1. i \in Jobs /\ row[i].status # "absent" /\ exec[p].loaded \in Loaded
  BY <1>0, TaskTicket DEF Inv, TypeOK, Exec
<1>2. Tickets' \in {Tickets, Tickets \ {k}}
  <2>1. CASE Finish(p)
    BY <1>0, <2>1, FinishTickets
  <2>2. CASE exec' = [exec EXCEPT ![p] = exec'[p]] /\ exec'[p].ticket = k
    <3>1. \A t \in Threads : Held(t)' = Held(t)
      BY <1>0, <2>2 DEF Threads, Held, Inv, TypeOK
    <3> QED
      BY <3>1 DEF Tickets, Threads, Busy
  <2> QED
    BY <1>0, <2>1, <2>2
<1>3. ASSUME \A j \in Jobs : Overwritten(j) PROVE Lifecycle!Next
  BY <1>2, <1>3, OverwriteStep DEF Lifecycle!Next
<1>4. ASSUME UNCHANGED row PROVE Lifecycle!Next
  BY <1>3, <1>4 DEF Overwritten, Kept
<1>5. ASSUME NEW s \in {"failed", "stopped"},
             row' = [row EXCEPT ![i] = Flush(@, exec[p].loaded, s)]
      PROVE  Lifecycle!Next
  <2>1. Overwritten(i)
    BY <1>1, <1>5, FlushOverwrites DEF Inv, TypeOK
  <2>2. \A j \in Jobs \ {i} : Overwritten(j)
    BY <1>5 DEF Inv, TypeOK, Overwritten, Kept
  <2> QED
    BY <1>3, <2>1, <2>2
<1>6. ASSUME NEW s \in {"completed", "failed"}, NEW run \in BOOLEAN, s = "completed" => run,
             FinalizeRow(p, s, IF run THEN k.attempt_count ELSE 0)
      PROVE  Lifecycle!Next
  <2>1. CASE OwnsRow(p)
    BY <1>0, <1>2, <1>6, <2>1, RecordStep
  <2>2. CASE ~OwnsRow(p)
    <3>1. UNCHANGED row
      BY <1>1, <1>6, <2>2 DEF FinalizeRow, Inv, TypeOK
    <3> QED
      BY <1>4, <3>1
  <2> QED
    BY <2>1, <2>2
<1>7. CASE ReachCheckpoint(p)
  <2>1. ASSUME NEW j \in Jobs, row' = [row EXCEPT ![i].last_progress_at = "fresh"]
        PROVE  Overwritten(j)
    BY <1>1, <2>1 DEF Inv, TypeOK, Row, Overwritten, Kept
  <2> QED
    BY <1>3, <1>4, <1>7, <2>1 DEF ReachCheckpoint
<1>8. CASE Finalize(p)
  <2>1. \/ UNCHANGED row
        \/ FinalizeRow(p, "completed", k.attempt_count)
        \/ FinalizeRow(p, "failed", k.attempt_count)
    BY <1>8 DEF Finalize
  <2> QED
    BY <1>4, <1>6, <2>1
<1>9. CASE FinalizeFailed(p)
  <2>1. UNCHANGED row \/ FinalizeRow(p, "failed", 0)
    BY <1>9 DEF FinalizeFailed
  <2> QED
    BY <1>4, <1>6, <2>1
<1>10. CASE UpdateStoppedWrite(p) \/ CallbackWrite(p)
  BY <1>4, <1>5, <1>10 DEF UpdateStoppedWrite, CallbackWrite
<1>11. CASE CheckStopped(p) \/ CheckSuperseded(p) \/ TaskRaises(p) \/ UpdateStoppedRead(p)
            \/ CallbackRead(p)
  BY <1>4, <1>11 DEF CheckStopped, CheckSuperseded, TaskRaises, UpdateStoppedRead, CallbackRead
<1> QED
  BY <1>7, <1>8, <1>9, <1>10, <1>11 DEF ExecStep

\* Every step of a task manager thread is a Claim or an Overwrite.
LEMMA WorkerImplements ==
  ASSUME Inv, NothingOfAbsent, NEW p \in Pods, WorkerStep(p) \/ WorkerError(p)
  PROVE  Lifecycle!Next
<1>1. CASE \E j \in Jobs : Claim(p, j)
  BY <1>1, ClaimStep, ClaimTickets DEF Claim
<1>2. CASE ClaimError(p)
  <2>1. \A t \in Threads : Held(t)' = Held(t)
    BY <1>2 DEF ClaimError, Goto, Threads, Held, Inv, TypeOK, Worker
  <2>2. Tickets' = Tickets
    BY <2>1 DEF Tickets, Threads, Busy
  <2>3. CASE UNCHANGED row
    BY <2>2, <2>3, OverwriteStep DEF Lifecycle!Next, Overwritten, Kept
  <2> QED
    BY <1>2, <2>2, <2>3, ClaimStep DEF ClaimError
<1>3. CASE ~(\E j \in Jobs : Claim(p, j)) /\ ~ClaimError(p)
  <2>1. \A j \in Jobs : Overwritten(j)
    BY <1>3, WorkerOverwrites
  <2>2. Tickets' \subseteq Tickets
    <3>1. CASE SubmitTask(p)
      BY <3>1, SubmitTickets
    <3>2. CASE ~SubmitTask(p)
      BY <1>3, <3>2, WorkerDrops, DroppedTickets DEF Inv
    <3> QED
      BY <3>1, <3>2
  <2> QED
    BY <2>1, <2>2, OverwriteStep DEF Lifecycle!Next
<1> QED
  BY <1>1, <1>2, <1>3

\* Every step of the queue is a step of the lifecycle, or a stutter.
LEMMA StepImplements ==
  Inv /\ NothingOfAbsent /\ [Next]_vars => [Lifecycle!Next]_(Lifecycle!vars)
<1> SUFFICES ASSUME Inv, NothingOfAbsent, [Next]_vars
             PROVE  Lifecycle!Next \/ UNCHANGED Lifecycle!vars
  OBVIOUS
<1>1. ASSUME NEW j \in Jobs, Insert(j) PROVE Lifecycle!Next
  <2>1. /\ row[j].status = "absent" /\ row[j] \in Row
        /\ row' = [row EXCEPT ![j] = [row[j] EXCEPT !.status = "pending"]]
    BY <1>1 DEF Insert, Inv, TypeOK
  <2>2. /\ row'[j].status = "pending" /\ row'[j].attempt_count = row[j].attempt_count
        /\ row'[j].job_runs = row[j].job_runs /\ \A i \in Jobs \ {j} : row'[i] = row[i]
    BY <2>1 DEF Inv, TypeOK, Row
  <2>3. \A t \in Threads : Held(t)' = Held(t)
    BY <1>1 DEF Insert, Threads, Held
  <2>4. Tickets' = Tickets
    BY <2>3 DEF Tickets, Threads, Busy
  <2>5. Lifecycle!Submit(j)
    <3>1. \A i \in Jobs : row'[i].status = IF i = j THEN "pending" ELSE row[i].status
      BY <2>2
    <3>2. \A i \in Jobs : /\ row'[i].attempt_count = row[i].attempt_count
                          /\ row'[i].job_runs = row[i].job_runs
      BY <2>2
    <3> QED
      BY <2>1, <2>4, <3>1, <3>2 DEF Lifecycle!Submit, Tickets
  <2> QED
    BY <2>5 DEF Lifecycle!Next
<1>2. ASSUME Dropped, \A j \in Jobs : Overwritten(j) PROVE Lifecycle!Next
  BY <1>2, DroppedTickets, OverwriteStep DEF Lifecycle!Next
<1>3. ASSUME UNCHANGED <<worker, exec>> PROVE Dropped
  BY <1>3 DEF Dropped, Threads, Held
<1>4. ASSUME NEW j \in Jobs, StopWrite(j) PROVE Lifecycle!Next
  <2>1. row[j].status # "absent" /\ stopping[j] \in Loaded
    BY <1>4 DEF StopWrite, NothingOfAbsent, Inv, TypeOK
  <2>2. Overwritten(j)
    BY <1>4, <2>1, FlushOverwrites DEF StopWrite, Inv, TypeOK
  <2>3. \A i \in Jobs \ {j} : Overwritten(i)
    BY <1>4 DEF StopWrite, Overwritten, Kept, Inv, TypeOK
  <2> QED
    BY <1>2, <1>3, <1>4, <2>2, <2>3 DEF StopWrite
<1>5. ASSUME NEW j \in Jobs, ProgressTimeout(j) PROVE Lifecycle!Next
  <2>1. \A i \in Jobs : Overwritten(i)
    BY <1>5 DEF ProgressTimeout, Overwritten, Kept, Inv, TypeOK, Row
  <2> QED
    BY <1>2, <1>3, <1>5, <2>1 DEF ProgressTimeout
<1>6. ASSUME UNCHANGED <<row, worker, exec>> PROVE Lifecycle!Next
  BY <1>2, <1>3, <1>6 DEF Overwritten, Kept
<1>7. ASSUME NEW p \in Pods, Crash(p) PROVE Lifecycle!Next
  <2>1. Dropped
    BY <1>7 DEF Crash, Dropped, Threads, Held, Inv, TypeOK, NewWorker, NewExec
  <2>2. \A i \in Jobs : Overwritten(i)
    BY <1>7 DEF Crash, Overwritten, Kept
  <2> QED
    BY <1>2, <2>1, <2>2
<1> QED
  BY <1>1, <1>4, <1>5, <1>6, <1>7, WorkerImplements, ExecImplements
     DEF Next, Request, Submit, ScheduleHarness, StopRead, Age, LoseLock, vars

\* The detailed queue, with its two-step writes, leases, reapers, crashes and lost
\* locks, implements the lifecycle of a job: attempts are numbered by the claims,
\* and only the holder of the newest ticket completes a job or records its run.
THEOREM Refinement == Spec => ImplementsLifecycle
<1>1. Init => Lifecycle!Init
  <2> SUFFICES ASSUME Init PROVE Lifecycle!Init
    OBVIOUS
  <2>1. \A t \in Threads : ~Busy(t)
    BY DEF Init, Threads, Busy, Held, NewWorker, NewExec
  <2> QED
    BY <2>1 DEF Init, Lifecycle!Init
<1>2. Init => NothingOfAbsent
  BY DEF Init, NothingOfAbsent, NewWorker
<1>3. Spec => []NothingOfAbsent
  BY <1>2, NothingOfAbsentStep, Invariance, PTL DEF Spec
<1>4. Spec => Lifecycle!Spec
  BY <1>1, <1>3, StepImplements, Invariance, PTL DEF Spec, Lifecycle!Spec
<1> QED
  BY <1>4 DEF ImplementsLifecycle

\* A stopped job does not become completed, whatever its worker, a newer attempt or a
\* late callback writes: the lifecycle has no such step.
THEOREM StopHolds == Spec => StoppedNotCompleted
<1>1. ASSUME Inv, NothingOfAbsent, [Next]_vars
      PROVE  [\A j \in Jobs : row[j].status = "stopped" => row'[j].status # "completed"]_vars
  <2>1. SUFFICES ASSUME NEW j \in Jobs, row[j].status = "stopped"
                 PROVE  row'[j].status # "completed"
    OBVIOUS
  <2> DEFINE old == [i \in Jobs |-> row[i].status]
             new == [i \in Jobs |-> row'[i].status]
  <2>2. old[j] = "stopped"
    BY <2>1
  <2>3. [Lifecycle!Next]_(Lifecycle!vars)
    BY <1>1, StepImplements
  <2>4. CASE UNCHANGED Lifecycle!vars
    <3>1. new = old
      BY <2>4 DEF Lifecycle!vars
    <3> QED
      BY <2>2, <3>1
  <2>5. ASSUME NEW i \in Jobs, Lifecycle!Submit(i) PROVE new[j] # "completed"
    BY <2>2, <2>5 DEF Lifecycle!Submit
  <2>6. ASSUME NEW i \in Jobs, Lifecycle!Claim(i) PROVE new[j] # "completed"
    BY <2>2, <2>6 DEF Lifecycle!Claim
  <2>7. ASSUME NEW t, NEW s, NEW run, Lifecycle!Record(t, s, run)
        PROVE  new[j] # "completed"
    BY <2>2, <2>7 DEF Lifecycle!Record
  <2>8. ASSUME Lifecycle!Overwrite PROVE new[j] # "completed"
    BY <2>2, <2>8 DEF Lifecycle!Overwrite
  <2>9. new[j] # "completed"
    BY <2>3, <2>4, <2>5, <2>6, <2>7, <2>8 DEF Lifecycle!Next
  <2> QED
    BY <2>9
<1>2. Spec => []NothingOfAbsent
  <2>1. Init => NothingOfAbsent
    BY DEF Init, NothingOfAbsent, NewWorker
  <2> QED
    BY <2>1, NothingOfAbsentStep, Invariance, PTL DEF Spec
<1> QED
  BY <1>1, <1>2, Invariance, PTL DEF Spec, StoppedNotCompleted
=============================================================================
