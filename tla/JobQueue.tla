------------------------------ MODULE JobQueue ------------------------------
(***************************************************************************)
(* The PostgreSQL-backed job queue: the processing_job table, one task     *)
(* manager thread and one executor thread per pod, the queue maintenance   *)
(* that one pod at a time runs, and the route that stops a job.            *)
(*                                                                         *)
(* A step is one database transaction, or the part of a handler between    *)
(* two of them.  The ORM reads a row in one statement and writes it in a   *)
(* later one, with no lock in between, so every handler that does this is  *)
(* two actions, and what it read is part of the state (the loaded row).    *)
(* Claiming (SELECT ... FOR UPDATE, then commit) and finalizing (a single  *)
(* conditional UPDATE) are atomic.                                         *)
(***************************************************************************)
EXTENDS Integers, FiniteSets

CONSTANTS
  Jobs,             \* job numbers, in the order of created_at
  HarnessJobs,      \* the jobs of pipeline "ontology-harness"; the rest are "ontology"
  Pods,             \* app instances, each with a task manager thread
  None,             \* SQL NULL
  MaxJobAttempts,   \* MAX_JOB_ATTEMPTS
  Checkpoints,      \* checkpoints of run_ontology_pipeline (six in the code)
  StoppableJobs,    \* the jobs users may press stop for
  AgingJobs,        \* the jobs that may become 24 hours old
  SlowJobs,         \* the jobs that may go PROGRESS_TIMEOUT without progress
  FaultKinds,       \* which of {"crash", "db", "submit", "lock"} may happen ...
  MaxFaults         \* ... and how often in all

ASSUME JobsAssumption == Jobs \subseteq Nat /\ None \notin Jobs \cup Pods
ASSUME SubsetsAssumption ==
  /\ HarnessJobs \subseteq Jobs /\ StoppableJobs \subseteq Jobs
  /\ AgingJobs \subseteq Jobs /\ SlowJobs \subseteq Jobs
ASSUME BoundsAssumption ==
  /\ MaxJobAttempts \in Nat \ {0}
  /\ Checkpoints \in Nat \ {0}
  /\ MaxFaults \in Nat

VARIABLES
  row,       \* the processing_job table
  aged,      \* the jobs created more than 24 hours ago
  leader,    \* the pod whose connection holds advisory lock 420021, or None
  worker,    \* per pod, its task manager thread
  slots,     \* per pod, the permits left in its semaphore
  exec,      \* per pod, what its executor thread runs
  stopping,  \* per job, the row a stop request has read and not yet written
  started,   \* history: how often the job was handed to an executor
  lost,      \* history: how often a pod lost the advisory lock while it led
  faults     \* how many faults have happened

vars == <<row, aged, leader, worker, slots, exec, stopping, started, lost, faults>>

-----------------------------------------------------------------------------
(* Types. *)

Terminal == {"completed", "failed", "stopped"}
Status == {"absent", "pending", "running"} \cup Terminal

\* last_progress_at: NULL, within PROGRESS_TIMEOUT of now, or older.
\* job_runs: the attempt whose output is recorded, 0 for NULL.
Row == [status: Status, attempt_count: Nat, claimed_by: Pods \cup {None},
        last_progress_at: {"null", "fresh", "stale"}, job_runs: Nat]

\* What an ORM session remembers of a row it has read; absent if it read none.
Loaded == [status: Status, attempt_count: Nat, claimed_by: Pods \cup {None}]
NotLoaded == [status |-> "absent", attempt_count |-> 0, claimed_by |-> None]

\* The claimed_job dictionary: a job, and the attempt_count that fences it.
Ticket == [job: Jobs \cup {None}, attempt_count: Nat]
NoTicket == [job |-> None, attempt_count |-> 0]

WorkerPC == {"loop", "recover", "cleanup", "cleaning", "poll", "submit", "requeue"}
Worker == [pc: WorkerPC, loaded: [Jobs -> Loaded], ticket: Ticket]
NewWorker == [pc |-> "loop", loaded |-> [j \in Jobs |-> NotLoaded], ticket |-> NoTicket]

ExecPC == {"idle", "working", "stopcheck", "supersedecheck", "finalizing", "failing",
           "stopread", "stopwrite", "callback", "callbackwrite"}
Exec == [pc: ExecPC, ticket: Ticket, checkpoint: 0..Checkpoints, loaded: Loaded]
NewExec == [pc |-> "idle", ticket |-> NoTicket, checkpoint |-> 0, loaded |-> NotLoaded]

ExecutorMaxWorkers == 1   \* EXECUTOR_MAX_WORKERS

TypeOK ==
  /\ row \in [Jobs -> Row]
  /\ aged \in SUBSET Jobs
  /\ leader \in Pods \cup {None}
  /\ worker \in [Pods -> Worker]
  /\ slots \in [Pods -> 0..ExecutorMaxWorkers]
  /\ exec \in [Pods -> Exec]
  /\ stopping \in [Jobs -> Loaded]
  /\ started \in [Jobs -> Nat]
  /\ lost \in Nat
  /\ faults \in 0..MaxFaults

Init ==
  /\ row = [j \in Jobs |-> [status |-> "absent", attempt_count |-> 0, claimed_by |-> None,
                            last_progress_at |-> "null", job_runs |-> 0]]
  /\ aged = {}
  /\ leader = None
  /\ worker = [p \in Pods |-> NewWorker]
  /\ slots = [p \in Pods |-> ExecutorMaxWorkers]
  /\ exec = [p \in Pods |-> NewExec]
  /\ stopping = [j \in Jobs |-> NotLoaded]
  /\ started = [j \in Jobs |-> 0]
  /\ lost = 0
  /\ faults = 0

-----------------------------------------------------------------------------
(* The database. *)

Load(j) == [status |-> row[j].status, attempt_count |-> row[j].attempt_count,
            claimed_by |-> row[j].claimed_by]

\* A session that loaded row r as old sets its status to s, clears the lease
\* and commits.  The UPDATE goes by primary key and names only the columns
\* whose value differs from the loaded one.
Flush(r, old, s) ==
  [r EXCEPT !.status = IF old.status = s THEN @ ELSE s,
            !.claimed_by = IF old.claimed_by = None THEN @ ELSE None]

\* One of the bounded number of faults of kind k happens.
Fault(k) ==
  /\ k \in FaultKinds
  /\ faults < MaxFaults
  /\ faults' = faults + 1

Goto(p, pc) == worker' = [worker EXCEPT ![p].pc = pc]

-----------------------------------------------------------------------------
(* Requests and time. *)

\* A row is inserted; jobs are numbered in the order of created_at.
Insert(j) ==
  /\ row[j].status = "absent"
  /\ \A i \in Jobs : i < j => row[i].status # "absent"
  /\ row' = [row EXCEPT ![j].status = "pending"]
  /\ UNCHANGED <<aged, leader, worker, slots, exec, stopping, started, lost, faults>>

\* POST /ontology/submit.
Submit(j) == j \notin HarnessJobs /\ Insert(j)

\* Every pod that starts inserts its deployment's harness job, unless it finds it;
\* the job's id is that of the deployment, so a second insert fails.
ScheduleHarness(j) == j \in HarnessJobs /\ Insert(j)

\* POST /ontology/jobs/<id>/stop reads the job ...
StopRead(j) ==
  /\ j \in StoppableJobs
  /\ stopping[j] = NotLoaded
  /\ row[j].status \in {"pending", "running"}
  /\ stopping' = [stopping EXCEPT ![j] = Load(j)]
  /\ UNCHANGED <<row, aged, leader, worker, slots, exec, started, lost, faults>>

\* ... and writes it.
StopWrite(j) ==
  /\ stopping[j] # NotLoaded
  /\ row' = [row EXCEPT ![j] = Flush(@, stopping[j], "stopped")]
  /\ stopping' = [stopping EXCEPT ![j] = NotLoaded]
  /\ UNCHANGED <<aged, leader, worker, slots, exec, started, lost, faults>>

\* PROGRESS_TIMEOUT passes since the row's last_progress_at.
ProgressTimeout(j) ==
  /\ j \in SlowJobs
  /\ row[j].status = "running" /\ row[j].last_progress_at = "fresh"
  /\ row' = [row EXCEPT ![j].last_progress_at = "stale"]
  /\ UNCHANGED <<aged, leader, worker, slots, exec, stopping, started, lost, faults>>

\* 24 hours pass since the row's created_at.
Age(j) ==
  /\ j \in AgingJobs \ aged
  /\ row[j].status # "absent"
  /\ aged' = aged \cup {j}
  /\ UNCHANGED <<row, leader, worker, slots, exec, stopping, started, lost, faults>>

-----------------------------------------------------------------------------
(* The task manager thread: maintenance. *)

IsStaleAny(r) == r.last_progress_at = "stale" \/ r.claimed_by = None  \* bug: any status
IsStaleNow(r) == r.status = "running"                                \* bug: no timeout
IsStaleUnleased(r) ==                                                \* bug: leased rows never are
  r.status = "running" /\ r.last_progress_at = "null" /\ r.claimed_by = None
IsStaleTimed(r) == r.status = "running" /\ r.last_progress_at = "stale"  \* bug: NULL never is

\* recover_stale_running_jobs selects the running rows without recent progress
\* (a row without last_progress_at counts by claimed_at, which is not set
\* without last_progress_at: such a row is stale when it has no lease).
IsStale(r) ==
  /\ r.status = "running"
  /\ \/ r.last_progress_at = "stale"
     \/ r.last_progress_at = "null" /\ r.claimed_by = None

\* The advisory lock of the maintenance leader: whoever asks for it while it is
\* taken goes without.
AcquireLeaderAnyway(p) == leader' = p                                \* bug: granted twice
AcquireLeader(p) == leader = None /\ leader' = p
ReleaseLeader(p) == leader' = IF leader = p THEN None ELSE leader

\* _try_run_maintenance takes the lock and reads the stale rows.
RecoverRead(p) ==
  /\ worker[p].pc = "loop"
  /\ AcquireLeader(p)
  /\ worker' = [worker EXCEPT ![p].pc = "recover",
                  ![p].loaded = [j \in Jobs |-> IF IsStale(row[j]) THEN Load(j) ELSE NotLoaded]]
  /\ UNCHANGED <<row, aged, slots, exec, stopping, started, lost, faults>>

VerdictOffByOne(old) == IF old.attempt_count > MaxJobAttempts THEN "failed" ELSE "pending"  \* bug

\* Its verdict on a row depends on the attempt_count it read.
Verdict(old) == IF old.attempt_count >= MaxJobAttempts THEN "failed" ELSE "pending"

RecoverWrite(p) ==
  /\ worker[p].pc = "recover"
  /\ row' = [j \in Jobs |-> LET old == worker[p].loaded[j] IN
               IF old = NotLoaded THEN row[j] ELSE Flush(row[j], old, Verdict(old))]
  /\ worker' = [worker EXCEPT ![p].pc = "cleanup", ![p].loaded = NewWorker.loaded]
  /\ UNCHANGED <<aged, leader, slots, exec, stopping, started, lost, faults>>

\* cleanup_stale_jobs reads the unfinished rows older than a day ...
CleanupRead(p) ==
  /\ worker[p].pc = "cleanup"
  /\ worker' = [worker EXCEPT ![p].pc = "cleaning",
                  ![p].loaded = [j \in Jobs |->
                     IF j \in aged /\ row[j].status \in {"pending", "running"}
                     THEN Load(j) ELSE NotLoaded]]
  /\ UNCHANGED <<row, aged, leader, slots, exec, stopping, started, lost, faults>>

\* ... and fails them; then the lock is released.
CleanupWrite(p) ==
  /\ worker[p].pc = "cleaning"
  /\ row' = [j \in Jobs |-> LET old == worker[p].loaded[j] IN
               IF old = NotLoaded THEN row[j] ELSE Flush(row[j], old, "failed")]
  /\ worker' = [worker EXCEPT ![p].pc = "poll", ![p].loaded = NewWorker.loaded]
  /\ ReleaseLeader(p)
  /\ UNCHANGED <<aged, slots, exec, stopping, started, lost, faults>>

\* A database error while recovering or cleaning up is logged and rolled back.
MaintenanceError(p) ==
  /\ Fault("db")
  /\ \/ /\ worker[p].pc = "recover"
        /\ worker' = [worker EXCEPT ![p].pc = "cleanup", ![p].loaded = NewWorker.loaded]
        /\ UNCHANGED leader
     \/ /\ worker[p].pc \in {"cleanup", "cleaning"}
        /\ worker' = [worker EXCEPT ![p].pc = "poll", ![p].loaded = NewWorker.loaded]
        /\ ReleaseLeader(p)
  /\ UNCHANGED <<row, aged, slots, exec, stopping, started, lost>>

\* The connection that holds the lock drops: PostgreSQL frees the lock, and its
\* pod, which does its maintenance on other connections, does not notice.
LoseLock ==
  /\ Fault("lock")
  /\ leader # None
  /\ leader' = None
  /\ lost' = lost + 1
  /\ UNCHANGED <<row, aged, worker, slots, exec, stopping, started>>

-----------------------------------------------------------------------------
(* The task manager thread: claiming. *)

Pending == {j \in Jobs : row[j].status = "pending"}
OldestPending(j) == j \in Pending /\ \A i \in Pending : j <= i

ClaimRowUncounted(r, p) ==                                           \* bug: attempt_count stays
  [status |-> "running", attempt_count |-> r.attempt_count, claimed_by |-> p,
   last_progress_at |-> "fresh", job_runs |-> r.job_runs]

\* The columns claim_next_pending_job sets.
ClaimRow(r, p) ==
  [status |-> "running", attempt_count |-> r.attempt_count + 1, claimed_by |-> p,
   last_progress_at |-> "fresh", job_runs |-> r.job_runs]

TakeSlotShared(p) == slots[p] > 0 /\ UNCHANGED slots                 \* bug: not taken
TakeSlot(p) == slots[p] > 0 /\ slots' = [slots EXCEPT ![p] = @ - 1]
ReleaseSlot(p) == slots' = [slots EXCEPT ![p] = @ + 1]

\* At the top of the loop maintenance may not be due, or another pod may lead;
\* the thread then polls at once.
Claim(p, j) ==
  /\ worker[p].pc \in {"loop", "poll"}
  /\ OldestPending(j)
  /\ TakeSlot(p)
  /\ row' = [row EXCEPT ![j] = ClaimRow(@, p)]
  /\ worker' = [worker EXCEPT ![p].pc = "submit",
                  ![p].ticket = [job |-> j, attempt_count |-> row[j].attempt_count + 1]]
  /\ UNCHANGED <<aged, leader, exec, stopping, started, lost, faults>>

\* The pool is full, or there is no pending job: sleep and go round again.
NothingClaimed(p) ==
  /\ worker[p].pc = "poll"
  /\ slots[p] = 0 \/ Pending = {}
  /\ Goto(p, "loop")
  /\ UNCHANGED <<row, aged, leader, slots, exec, stopping, started, lost, faults>>

\* A database error in the claim reaches the handlers at the end of the loop,
\* which do not release the slot; the claim may have been committed.
ClaimError(p) ==
  /\ Fault("db")
  /\ worker[p].pc \in {"loop", "poll"}
  /\ TakeSlot(p)
  /\ \/ UNCHANGED row
     \/ \E j \in Jobs : OldestPending(j) /\ row' = [row EXCEPT ![j] = ClaimRow(@, p)]
  /\ Goto(p, "loop")
  /\ UNCHANGED <<aged, leader, exec, stopping, started, lost>>

\* Checkpoint 0 is "execution-started", which the harness's task does not have.
FirstCheckpoint(j) == IF j \in HarnessJobs THEN 1 ELSE 0

\* executor.submit: the executor's one thread takes the task.
SubmitTask(p) ==
  /\ worker[p].pc = "submit"
  /\ exec' = [exec EXCEPT ![p] = [NewExec EXCEPT !.pc = "working", !.ticket = worker[p].ticket,
                                !.checkpoint = FirstCheckpoint(worker[p].ticket.job)]]
  /\ started' = [started EXCEPT ![worker[p].ticket.job] = @ + 1]
  /\ worker' = [worker EXCEPT ![p].pc = "loop", ![p].ticket = NoTicket]
  /\ UNCHANGED <<row, aged, leader, slots, stopping, lost, faults>>

\* executor.submit raises; requeue_claimed_job reads the row ...
SubmitError(p) ==
  /\ Fault("submit")
  /\ worker[p].pc = "submit"
  /\ worker' = [worker EXCEPT ![p].pc = "requeue",
                  ![p].loaded[worker[p].ticket.job] = Load(worker[p].ticket.job)]
  /\ UNCHANGED <<row, aged, leader, slots, exec, stopping, started, lost>>

RequeueWriteKeepingSlot(p) ==                                        \* bug: slot not released
  /\ worker[p].pc = "requeue"
  /\ LET j == worker[p].ticket.job IN
       row' = [row EXCEPT ![j] = Flush(@, worker[p].loaded[j], "pending")]
  /\ worker' = [worker EXCEPT ![p] = NewWorker]
  /\ UNCHANGED <<aged, leader, slots, exec, stopping, started, lost, faults>>

\* ... makes it pending again, whatever has become of it, and frees the slot.
RequeueWrite(p) ==
  /\ worker[p].pc = "requeue"
  /\ LET j == worker[p].ticket.job IN
       row' = [row EXCEPT ![j] = Flush(@, worker[p].loaded[j], "pending")]
  /\ worker' = [worker EXCEPT ![p] = NewWorker]
  /\ ReleaseSlot(p)
  /\ UNCHANGED <<aged, leader, exec, stopping, started, lost, faults>>

\* A database error while requeueing skips the release of the slot; with the
\* failed submission before it, it counts as one fault.
RequeueError(p) ==
  /\ "db" \in FaultKinds
  /\ worker[p].pc = "requeue"
  /\ worker' = [worker EXCEPT ![p] = NewWorker]
  /\ UNCHANGED <<row, aged, leader, slots, exec, stopping, started, lost, faults>>

-----------------------------------------------------------------------------
(* The executor thread: run_ontology_background_task and the harness's task. *)

MyJob(p) == exec[p].ticket.job
SupersededOffByOne(p) == row[MyJob(p)].attempt_count >= exec[p].ticket.attempt_count  \* bug
SupersededByPod(p) == row[MyJob(p)].claimed_by # p                   \* bug: fenced by claimed_by
Superseded(p) == row[MyJob(p)].attempt_count # exec[p].ticket.attempt_count

ExecGoto(p, pc) == exec' = [exec EXCEPT ![p].pc = pc]

\* The future is done and its callback releases the slot.
Finish(p) == exec' = [exec EXCEPT ![p] = NewExec] /\ ReleaseSlot(p)

\* A stage of the pipeline ends and _mark_job_progress records it (or fails to,
\* which is logged).  Nothing is checked at checkpoint 0.
ReachCheckpoint(p) ==
  /\ exec[p].pc = "working"
  /\ \/ row' = [row EXCEPT ![MyJob(p)].last_progress_at = "fresh"] /\ UNCHANGED faults
     \/ Fault("db") /\ UNCHANGED row
  /\ exec' = [exec EXCEPT ![p].pc = IF exec[p].checkpoint = 0 THEN "working" ELSE "stopcheck",
                          ![p].checkpoint = IF @ = 0 THEN 1 ELSE @]
  /\ UNCHANGED <<aged, leader, worker, slots, stopping, started, lost>>

\* _raise_if_job_stopped; a database error counts as not stopped.
CheckStopped(p) ==
  /\ exec[p].pc = "stopcheck"
  /\ \/ /\ row[MyJob(p)].status = "stopped"
        /\ ExecGoto(p, "stopread") /\ UNCHANGED faults
     \/ /\ (row[MyJob(p)].status # "stopped" /\ UNCHANGED faults) \/ Fault("db")
        /\ ExecGoto(p, "supersedecheck")
  /\ UNCHANGED <<row, aged, leader, worker, slots, stopping, started, lost>>

\* _raise_if_superseded; the task of a superseded attempt returns, one that is
\* not goes on.  A database error counts as not superseded.
CheckSuperseded(p) ==
  /\ exec[p].pc = "supersedecheck"
  /\ \/ /\ Superseded(p)
        /\ Finish(p) /\ UNCHANGED faults
     \/ /\ (~Superseded(p) /\ UNCHANGED faults) \/ Fault("db")
        /\ exec' = [exec EXCEPT
             ![p].pc = IF exec[p].checkpoint = Checkpoints THEN "finalizing" ELSE "working",
             ![p].checkpoint = IF @ = Checkpoints THEN @ ELSE @ + 1]
        /\ UNCHANGED slots
  /\ UNCHANGED <<row, aged, leader, worker, stopping, started, lost>>

\* The pipeline raises; for the harness, the comparison with the baseline may too.
TaskRaises(p) ==
  /\ \/ exec[p].pc = "working"
     \/ exec[p].pc = "finalizing" /\ MyJob(p) \in HarnessJobs
  /\ ExecGoto(p, "failing")
  /\ UNCHANGED <<row, aged, leader, worker, slots, stopping, started, lost, faults>>

OwnsRowAnyAttempt(p) == row[MyJob(p)].status # "stopped"             \* bug: no attempt_count
OwnsRowEvenStopped(p) == ~Superseded(p)                              \* bug: no stopped check

\* _finalize_job_status_if_owner: one UPDATE, whose WHERE is the fence.
OwnsRow(p) == ~Superseded(p) /\ row[MyJob(p)].status # "stopped"
Finalized(r, s, runs) ==
  [status |-> s, attempt_count |-> r.attempt_count, claimed_by |-> None,
   last_progress_at |-> r.last_progress_at, job_runs |-> IF runs = 0 THEN r.job_runs ELSE runs]
FinalizeRow(p, s, runs) ==
  row' = [row EXCEPT ![MyJob(p)] = IF OwnsRow(p) THEN Finalized(@, s, runs) ELSE @]

\* The task succeeded, or, for the harness, the report shows a regression.
Finalize(p) ==
  /\ exec[p].pc = "finalizing"
  /\ \/ \E s \in {"completed"} \cup (IF MyJob(p) \in HarnessJobs THEN {"failed"} ELSE {}) :
          FinalizeRow(p, s, exec[p].ticket.attempt_count) /\ UNCHANGED faults
     \/ Fault("db") /\ UNCHANGED row
  /\ Finish(p)
  /\ UNCHANGED <<aged, leader, worker, stopping, started, lost>>

\* The task raised: it writes failed through the fence and raises again.
FinalizeFailed(p) ==
  /\ exec[p].pc = "failing"
  /\ \/ FinalizeRow(p, "failed", 0) /\ UNCHANGED faults
     \/ Fault("db") /\ UNCHANGED row
  /\ ExecGoto(p, "callback")
  /\ UNCHANGED <<aged, leader, worker, slots, stopping, started, lost>>

\* A stopped task: _update_job_status reads the row ...
UpdateStoppedRead(p) ==
  /\ exec[p].pc = "stopread"
  /\ exec' = [exec EXCEPT ![p].pc = "stopwrite", ![p].loaded = Load(MyJob(p))]
  /\ UNCHANGED <<row, aged, leader, worker, slots, stopping, started, lost, faults>>

\* ... and writes stopped, without a fence.
UpdateStoppedWrite(p) ==
  /\ exec[p].pc = "stopwrite"
  /\ \/ row' = [row EXCEPT ![MyJob(p)] = Flush(@, exec[p].loaded, "stopped")] /\ UNCHANGED faults
     \/ Fault("db") /\ UNCHANGED row
  /\ Finish(p)
  /\ UNCHANGED <<aged, leader, worker, stopping, started, lost>>

CallbackReadReleasing(p) ==                                          \* bug: slot released twice
  /\ exec[p].pc = "callback"
  /\ \/ /\ row[MyJob(p)].status = "running"
        /\ exec' = [exec EXCEPT ![p].pc = "callbackwrite", ![p].loaded = Load(MyJob(p))]
        /\ ReleaseSlot(p) /\ UNCHANGED faults
     \/ /\ (row[MyJob(p)].status # "running" /\ UNCHANGED faults) \/ Fault("db")
        /\ Finish(p)
  /\ UNCHANGED <<row, aged, leader, worker, stopping, started, lost>>

\* The done callback of a task that raised: mark_job_failed_if_still_running
\* reads the row; its status decides, its attempt_count does not ...
CallbackRead(p) ==
  /\ exec[p].pc = "callback"
  /\ \/ /\ row[MyJob(p)].status = "running"
        /\ exec' = [exec EXCEPT ![p].pc = "callbackwrite", ![p].loaded = Load(MyJob(p))]
        /\ UNCHANGED <<slots, faults>>
     \/ /\ (row[MyJob(p)].status # "running" /\ UNCHANGED faults) \/ Fault("db")
        /\ Finish(p)
  /\ UNCHANGED <<row, aged, leader, worker, stopping, started, lost>>

\* ... and writes failed.
CallbackWrite(p) ==
  /\ exec[p].pc = "callbackwrite"
  /\ \/ row' = [row EXCEPT ![MyJob(p)] = Flush(@, exec[p].loaded, "failed")] /\ UNCHANGED faults
     \/ Fault("db") /\ UNCHANGED row
  /\ Finish(p)
  /\ UNCHANGED <<aged, leader, worker, stopping, started, lost>>

-----------------------------------------------------------------------------
\* A pod dies and is replaced: its threads, its semaphore and its database
\* connections (with the advisory lock) are gone, the table is not.
Crash(p) ==
  /\ Fault("crash")
  /\ worker' = [worker EXCEPT ![p] = NewWorker]
  /\ exec' = [exec EXCEPT ![p] = NewExec]
  /\ slots' = [slots EXCEPT ![p] = ExecutorMaxWorkers]
  /\ ReleaseLeader(p)
  /\ UNCHANGED <<row, aged, stopping, started, lost>>

WorkerStep(p) ==
  \/ RecoverRead(p) \/ RecoverWrite(p) \/ CleanupRead(p) \/ CleanupWrite(p)
  \/ \E j \in Jobs : Claim(p, j)
  \/ NothingClaimed(p) \/ SubmitTask(p) \/ RequeueWrite(p)

WorkerError(p) == MaintenanceError(p) \/ ClaimError(p) \/ SubmitError(p) \/ RequeueError(p)

ExecStep(p) ==
  \/ ReachCheckpoint(p) \/ CheckStopped(p) \/ CheckSuperseded(p) \/ TaskRaises(p)
  \/ Finalize(p) \/ FinalizeFailed(p) \/ UpdateStoppedRead(p) \/ UpdateStoppedWrite(p)
  \/ CallbackRead(p) \/ CallbackWrite(p)

Request(j) == Submit(j) \/ ScheduleHarness(j) \/ StopRead(j) \/ StopWrite(j)

Next ==
  \/ \E j \in Jobs : Request(j) \/ ProgressTimeout(j) \/ Age(j)
  \/ \E p \in Pods : WorkerStep(p) \/ WorkerError(p) \/ ExecStep(p) \/ Crash(p)
  \/ LoseLock

Spec == Init /\ [][Next]_vars

(* A thread that can go on goes on (every stage of a pipeline returns), and  *)
(* time passes.  Users, faults and crashes owe nothing.                      *)
Fairness ==
  /\ \A p \in Pods : WF_vars(WorkerStep(p)) /\ WF_vars(ExecStep(p))
  /\ \A j \in Jobs : WF_vars(ProgressTimeout(j))

FairSpec == Spec /\ Fairness

-----------------------------------------------------------------------------
(* Properties. *)

\* The threads that may hold a claimed job.
Threads == Pods \X {"worker", "executor"}
Held(t) == IF t[2] = "worker" THEN worker[t[1]].ticket ELSE exec[t[1]].ticket
Busy(t) == Held(t) # NoTicket
Current(j) == [job |-> j, attempt_count |-> row[j].attempt_count]

\* attempt_count is a fencing token (ADR 001): no two threads of any pods ever
\* hold the same attempt of a job, and none holds one the table has not given out.
AttemptHeldOnce ==
  /\ \A t, u \in Threads : Busy(t) /\ Held(t) = Held(u) => t = u
  /\ \A t \in Threads : Busy(t) => Held(t).attempt_count \in 1..row[Held(t).job].attempt_count

\* The semaphore keeps a pod to one claimed job, from the claim until the done
\* callback: whichever thread has it, the slot is taken and the other thread
\* has none.
OneTaskPerPod ==
  \A p \in Pods :
    /\ worker[p].pc \in {"submit", "requeue"} <=> Busy(<<p, "worker">>)
    /\ exec[p].pc # "idle" <=> Busy(<<p, "executor">>)
    /\ Busy(<<p, "worker">>) \/ Busy(<<p, "executor">>) => slots[p] = 0
    /\ ~(Busy(<<p, "worker">>) /\ Busy(<<p, "executor">>))
    /\ worker[p].ticket.job = None <=> ~Busy(<<p, "worker">>)
    /\ exec[p].ticket.job = None <=> ~Busy(<<p, "executor">>)

\* The run ID a completed job shows is the output of its newest attempt (ADR
\* 001: no stale attempt overwrites it), however late, lost or repeated the
\* other attempts' writes are.
CompletedByNewestAttempt ==
  \A j \in Jobs : row[j].status = "completed" => row[j].job_runs = row[j].attempt_count

\* While no pod crashes and the database answers, a running row is no orphan:
\* some thread holds its newest attempt.
RunningHasOwner ==
  \A j \in Jobs : row[j].status = "running" => \E t \in Threads : Held(t) = Current(j)

\* ... and claimed_by, while it is set, names that thread's pod.
LeaseNamesOwner ==
  \A j \in Jobs : row[j].status = "running" /\ row[j].claimed_by # None =>
    \E t \in Threads : Held(t) = Current(j) /\ t[1] = row[j].claimed_by

\* Two tasks of one job run at once only after a progress timeout: without one,
\* stops, ageing, failed submissions, crashes and database errors never let a
\* second pod take the job while the first still has it.
NoConcurrentRuns ==
  \A t, u \in Threads : Busy(t) /\ Busy(u) /\ Held(t).job = Held(u).job => t = u

\* attempt_count stays within MAX_JOB_ATTEMPTS while executor.submit works; the
\* check is made on a row read earlier, so this rests on the advisory lock.
AttemptsBounded == \A j \in Jobs : row[j].attempt_count <= MaxJobAttempts

\* Even when submissions fail and are requeued without a check, a job is handed
\* to an executor at most MAX_JOB_ATTEMPTS times, and once more for every time
\* two pods were in maintenance because a leader had lost the lock.
ExecutionsBounded == \A j \in Jobs : started[j] <= MaxJobAttempts + lost

\* "worker pool full (1 busy)": a pod without a free slot has a claimed job.
FullMeansBusy ==
  \A p \in Pods : slots[p] = 0 => Busy(<<p, "worker">>) \/ Busy(<<p, "executor">>)

\* A worker that finishes after a stop does not complete the stopped job.
StoppedNotCompleted ==
  [][\A j \in Jobs : row[j].status = "stopped" => row'[j].status # "completed"]_vars

\* The runbook's "Stopped: the job was manually terminated by a user": a stopped
\* job stays stopped.
StoppedIsFinal ==
  [][\A j \in Jobs : row[j].status = "stopped" => row'[j].status = "stopped"]_vars

\* ADR 001, "the system prevents stale attempts from writing final state": the
\* step in which the task of a superseded attempt ends leaves the status alone.
StaleAttemptWritesNoFinalState ==
  [][\A p \in Pods : Busy(<<p, "executor">>) /\ Superseded(p) /\ exec'[p].pc = "idle" =>
       row'[MyJob(p)].status = row[MyJob(p)].status]_vars

\* Every submitted job is in the end, and for good, completed, failed or stopped.
EveryJobSettles == \A j \in Jobs : <>[](row[j].status \in Terminal \cup {"absent"})

-----------------------------------------------------------------------------
(* Why the bound on attempts holds: what the maintenance leader has read of  *)
(* a running row cannot be pending again behind its back.                    *)

\* Only the holder of advisory lock 420021 is in maintenance, as long as nobody
\* loses it.
OneMaintainer ==
  \A p \in Pods : worker[p].pc \in {"recover", "cleanup", "cleaning"} <=> leader = p

LeaderView ==
  \A p \in Pods, j \in Jobs : worker[p].pc = "recover" /\ worker[p].loaded[j] # NotLoaded =>
    /\ worker[p].loaded[j].status = "running"
    /\ worker[p].loaded[j].attempt_count = row[j].attempt_count
    /\ row[j].status \notin {"absent", "pending"}

AttemptsLeft ==
  \A j \in Jobs :
    /\ row[j].status = "pending" => row[j].attempt_count < MaxJobAttempts
    /\ row[j].status = "absent" => row[j].attempt_count = 0

-----------------------------------------------------------------------------
(* The queue implements the lifecycle it promises. *)

Lifecycle == INSTANCE JobLifecycle WITH
  status <- [j \in Jobs |-> row[j].status],
  attempts <- [j \in Jobs |-> row[j].attempt_count],
  runs <- [j \in Jobs |-> row[j].job_runs],
  live <- {Held(t) : t \in {u \in Threads : Busy(u)}}

\* Two-step writes, dead pods, a lost lock, late callbacks and all: every step is
\* one the lifecycle allows.  In particular no step completes a job, or records
\* its run, but that of the task that holds the job's newest attempt.
ImplementsLifecycle == Lifecycle!Spec
=============================================================================
