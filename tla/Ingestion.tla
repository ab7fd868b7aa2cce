----------------------------- MODULE Ingestion ------------------------------
(***************************************************************************)
(* Ingestion jobs beside the job queue.  POST /ontology/ingest inserts a   *)
(* row into the queue's own table and hands the download to the executor   *)
(* directly, without a slot and without a claim.  The executor's thread    *)
(* runs its tasks in the order of submission; the ingestion task writes    *)
(* the row's status without a fence; and to the queue the row is like any  *)
(* other.                                                                  *)
(***************************************************************************)
EXTENDS JobQueue, Sequences

CONSTANTS
  IngestionJobs,   \* the jobs of pipeline "ingestion"
  Claimed          \* stands in an executor's queue for the task of exec[p]

ASSUME IngestionAssumption ==
  IngestionJobs \subseteq Jobs \ HarnessJobs /\ Claimed \notin Jobs

VARIABLES
  tasks,           \* per pod, the tasks its executor has not finished, the running one first
  ingest           \* per pod, how far its executor is with the ingestion it runs

allVars == <<vars, tasks, ingest>>

-----------------------------------------------------------------------------
IngestPC == {"start", "starting", "working", "ending"}
Ingest == [pc: IngestPC, loaded: Status, outcome: {"completed", "failed"}]
NewIngest == [pc |-> "start", loaded |-> "absent", outcome |-> "failed"]

IngestionTypeOK ==
  /\ TypeOK
  /\ tasks \in [Pods -> Seq(IngestionJobs \cup {Claimed})]
  /\ ingest \in [Pods -> Ingest]

IngestionInit ==
  /\ Init
  /\ tasks = [p \in Pods |-> <<>>]
  /\ ingest = [p \in Pods |-> NewIngest]

RunningAnyThread(p, t) == \E i \in DOMAIN tasks[p] : tasks[p][i] = t   \* bug: more threads
Running(p, t) == tasks[p] # <<>> /\ Head(tasks[p]) = t
Enqueue(p, t) == tasks' = [tasks EXCEPT ![p] = Append(@, t)]
Dequeue(p) == tasks' = [tasks EXCEPT ![p] = Tail(@)]
Enqueued(t) == \E p \in Pods : \E i \in 1..Len(tasks[p]) : tasks[p][i] = t

-----------------------------------------------------------------------------
(* The ingest route and the ingestion task. *)

\* ingest_content inserts a pending row and submits the task; if the insert
\* fails the task is submitted all the same, for a row that does not exist.
IngestContent(p, j) ==
  /\ j \in IngestionJobs /\ ~Enqueued(j)
  /\ row[j].status = "absent"
  /\ \A i \in Jobs : i < j => row[i].status # "absent"
  /\ \/ row' = [row EXCEPT ![j].status = "pending"] /\ UNCHANGED faults
     \/ Fault("db") /\ UNCHANGED row
  /\ Enqueue(p, j)
  /\ UNCHANGED <<aged, leader, worker, slots, exec, stopping, started, lost, ingest>>

\* The task reads its row to set it running, if there is one ...
StartRead(p, j) ==
  /\ Running(p, j) /\ ingest[p].pc = "start"
  /\ \/ /\ row[j].status # "absent"
        /\ ingest' = [ingest EXCEPT ![p].pc = "starting", ![p].loaded = row[j].status]
        /\ UNCHANGED faults
     \/ /\ (row[j].status = "absent" /\ UNCHANGED faults) \/ Fault("db")
        /\ ingest' = [ingest EXCEPT ![p].pc = "working"]
  /\ UNCHANGED <<row, aged, leader, worker, slots, exec, stopping, started, lost, tasks>>

SetStatusWholeRow(j, old, s) ==                                      \* bug: writes a new row
  row' = [row EXCEPT ![j].status = IF old = s THEN @ ELSE s, ![j].attempt_count = 0]

\* The UPDATE names status only if it differs from the loaded one.
SetStatus(j, old, s) == row' = [row EXCEPT ![j].status = IF old = s THEN @ ELSE s]

\* ... and writes it.
StartWrite(p, j) ==
  /\ Running(p, j) /\ ingest[p].pc = "starting"
  /\ \/ SetStatus(j, ingest[p].loaded, "running") /\ UNCHANGED faults
     \/ Fault("db") /\ UNCHANGED row
  /\ ingest' = [ingest EXCEPT ![p].pc = "working"]
  /\ UNCHANGED <<aged, leader, worker, slots, exec, stopping, started, lost, tasks>>

\* The download and the cleaning end well or badly; the task reads its row ...
EndRead(p, j) ==
  /\ Running(p, j) /\ ingest[p].pc = "working"
  /\ \/ /\ row[j].status # "absent"
        /\ \E s \in {"completed", "failed"} :
             ingest' = [ingest EXCEPT ![p].pc = "ending", ![p].loaded = row[j].status,
                                      ![p].outcome = s]
        /\ UNCHANGED <<tasks, faults>>
     \/ /\ (row[j].status = "absent" /\ UNCHANGED faults) \/ Fault("db")
        /\ ingest' = [ingest EXCEPT ![p] = NewIngest]
        /\ Dequeue(p)
  /\ UNCHANGED <<row, aged, leader, worker, slots, exec, stopping, started, lost>>

\* ... and writes the outcome, over whatever the row says by then.
EndWrite(p, j) ==
  /\ Running(p, j) /\ ingest[p].pc = "ending"
  /\ \/ SetStatus(j, ingest[p].loaded, ingest[p].outcome) /\ UNCHANGED faults
     \/ Fault("db") /\ UNCHANGED row
  /\ ingest' = [ingest EXCEPT ![p] = NewIngest]
  /\ Dequeue(p)
  /\ UNCHANGED <<aged, leader, worker, slots, exec, stopping, started, lost>>

IngestStep(p) ==
  \E j \in IngestionJobs : StartRead(p, j) \/ StartWrite(p, j) \/ EndRead(p, j) \/ EndWrite(p, j)

-----------------------------------------------------------------------------
(* The queue's steps beside them. *)

\* A claimed job's task goes to the end of the executor's queue.
QueueWorkerStep(p) ==
  /\ WorkerStep(p)
  /\ IF worker[p].pc = "submit" THEN Enqueue(p, Claimed) ELSE UNCHANGED tasks
  /\ UNCHANGED ingest

QueueWorkerError(p) == WorkerError(p) /\ UNCHANGED <<tasks, ingest>>

\* It runs when it has come to the front, and makes way when it is done.
QueueExecStep(p) ==
  /\ Running(p, Claimed)
  /\ ExecStep(p)
  /\ IF exec'[p].pc = "idle" THEN Dequeue(p) ELSE UNCHANGED tasks
  /\ UNCHANGED ingest

IngestionCrash(p) ==
  /\ Crash(p)
  /\ tasks' = [tasks EXCEPT ![p] = <<>>]
  /\ ingest' = [ingest EXCEPT ![p] = NewIngest]

QueueRequest(j) ==
  /\ (j \notin IngestionJobs /\ (Submit(j) \/ ScheduleHarness(j))) \/ StopRead(j) \/ StopWrite(j)
  /\ UNCHANGED <<tasks, ingest>>

TimePasses(j) == (ProgressTimeout(j) \/ Age(j)) /\ UNCHANGED <<tasks, ingest>>

\* Nobody loses the advisory lock here: that fault is among JobQueue's.
IngestionNext ==
  \/ \E j \in Jobs : QueueRequest(j) \/ TimePasses(j)
  \/ \E p \in Pods, j \in IngestionJobs : IngestContent(p, j)
  \/ \E p \in Pods : QueueWorkerStep(p) \/ QueueWorkerError(p) \/ QueueExecStep(p)
                     \/ IngestStep(p) \/ IngestionCrash(p)

IngestionSpec == IngestionInit /\ [][IngestionNext]_allVars

(* As in JobQueue: threads go on and time passes. *)
IngestionFairness ==
  /\ \A p \in Pods : /\ WF_allVars(QueueWorkerStep(p))
                     /\ WF_allVars(QueueExecStep(p) \/ IngestStep(p))
  /\ \A j \in Jobs : WF_allVars(ProgressTimeout(j) /\ UNCHANGED <<tasks, ingest>>)

IngestionFairSpec == IngestionSpec /\ IngestionFairness

-----------------------------------------------------------------------------
(* Properties. *)

\* The semaphore counts the tasks of claimed jobs only, yet the executor never
\* has two of them, and has one exactly while the queue's executor state says so;
\* an ingestion is under way only while it is the first task.
ExecutorQueue ==
  \A p \in Pods :
    LET claimed == {i \in 1..Len(tasks[p]) : tasks[p][i] = Claimed} IN
      /\ Cardinality(claimed) <= 1
      /\ claimed # {} <=> exec[p].pc # "idle"
      /\ ingest[p].pc # "start" => \E j \in IngestionJobs : Running(p, j)
=============================================================================
