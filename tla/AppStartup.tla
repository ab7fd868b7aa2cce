----------------------------- MODULE AppStartup -----------------------------
(***************************************************************************)
(* The start of a pod.  Its main thread calls create_flask_app, which      *)
(* prepares the database, schedules the deployment's harness job, starts a *)
(* task manager thread and only then caches the app.  The tasks that the   *)
(* manager hands to the executor call create_flask_app as well, whenever   *)
(* they want the database: before the app is cached such a call builds a   *)
(* second app and starts a second manager.                                 *)
(***************************************************************************)
EXTENDS Integers, FiniteSets

CONSTANTS
  Pods,
  Deployments,   \* deployment IDs; the harness job of a deployment has its ID
  None           \* of a pod that is down: no deployment

ASSUME StartupAssumption == None \notin Deployments

VARIABLES
  version,       \* per pod, the deployment it runs, or None
  call,          \* per pod and thread, how far its call of create_flask_app is
  cached,        \* per pod, whether _cached_app is set
  managers,      \* per pod, its task manager threads
  status         \* per deployment, the status of its harness job

startupVars == <<version, call, cached, managers>>

-----------------------------------------------------------------------------
Thread == {"main", "task"}     \* the executor has one thread
CallPC == {"out", "upgrade", "lookup", "insert", "manager", "cache"}
JobStatus == {"absent", "pending", "running", "completed", "failed", "stopped"}
NoCall == [t \in Thread |-> "out"]

ExecutorMaxWorkers == 1        \* EXECUTOR_MAX_WORKERS

ThreadsTypeOK ==
  /\ version \in [Pods -> Deployments \cup {None}]
  /\ call \in [Pods -> [Thread -> CallPC]]
  /\ cached \in [Pods -> BOOLEAN]
  /\ managers \in [Pods -> Nat]

StartupTypeOK == ThreadsTypeOK /\ status \in [Deployments -> JobStatus]

StartupInit ==
  /\ version = [p \in Pods |-> None]
  /\ call = [p \in Pods |-> NoCall]
  /\ cached = [p \in Pods |-> FALSE]
  /\ managers = [p \in Pods |-> 0]
  /\ status = [d \in Deployments |-> "absent"]

-----------------------------------------------------------------------------
Goes(p, t, pc) == call' = [call EXCEPT ![p][t] = pc]

\* The process of a pod ends, and all its threads with it.
Ends(p) ==
  /\ version' = [version EXCEPT ![p] = None]
  /\ call' = [call EXCEPT ![p] = NoCall]
  /\ cached' = [cached EXCEPT ![p] = FALSE]
  /\ managers' = [managers EXCEPT ![p] = 0]

\* A pod starts, or is replaced by one of another deployment: its main thread
\* calls create_flask_app.
StartPod(p, d) ==
  /\ version[p] = None
  /\ version' = [version EXCEPT ![p] = d]
  /\ Goes(p, "main", "upgrade")
  /\ UNCHANGED <<cached, managers, status>>

CallFromTaskUncached(p) ==                                           \* bug: cache not consulted
  /\ managers[p] > 0 /\ call[p]["task"] = "out"
  /\ Goes(p, "task", "upgrade")
  /\ UNCHANGED <<version, cached, managers, status>>

\* A task that a manager has handed out calls create_flask_app; with the app
\* cached the call returns at once.
CallFromTask(p) ==
  /\ managers[p] > 0 /\ call[p]["task"] = "out"
  /\ ~cached[p]
  /\ Goes(p, "task", "upgrade")
  /\ UNCHANGED <<version, cached, managers, status>>

\* What create_flask_app raises ends the pod if it comes from the main thread;
\* a task logs it and goes on.
Raises(p, t) ==
  /\ call[p][t] \in {"upgrade", "lookup", "insert"}
  /\ IF t = "main" THEN Ends(p)
     ELSE Goes(p, t, "out") /\ UNCHANGED <<version, cached, managers>>
  /\ UNCHANGED status

\* The schema is migrated, or the database is down, which is only logged.
Upgrade(p, t) ==
  /\ call[p][t] = "upgrade"
  /\ Goes(p, t, "lookup")
  /\ UNCHANGED <<version, cached, managers, status>>

\* schedule_ontology_harness looks its job up; it is skipped without the
\* harness's settings or a readable configuration.
LookUp(p, t) ==
  /\ call[p][t] = "lookup"
  /\ \/ status[version[p]] = "absent" /\ Goes(p, t, "insert")
     \/ Goes(p, t, "manager")
  /\ UNCHANGED <<version, cached, managers, status>>

InsertJobAnyway(p, t) ==                                             \* bug: merges instead of adding
  /\ call[p][t] = "insert"
  /\ status' = [status EXCEPT ![version[p]] = "pending"]
  /\ Goes(p, t, "manager")
  /\ UNCHANGED <<version, cached, managers>>

\* It inserts the job, unless another pod, or thread, has done so meanwhile.
InsertJob(p, t) ==
  /\ call[p][t] = "insert"
  /\ status' = [status EXCEPT ![version[p]] = IF @ = "absent" THEN "pending" ELSE @]
  /\ Goes(p, t, "manager")
  /\ UNCHANGED <<version, cached, managers>>

StartManager(p, t) ==
  /\ call[p][t] = "manager"
  /\ managers' = [managers EXCEPT ![p] = @ + 1]
  /\ Goes(p, t, "cache")
  /\ UNCHANGED <<version, cached, status>>

CacheApp(p, t) ==
  /\ call[p][t] = "cache"
  /\ cached' = [cached EXCEPT ![p] = TRUE]
  /\ Goes(p, t, "out")
  /\ UNCHANGED <<version, managers, status>>

StartupStep(p) ==
  \/ \E d \in Deployments : StartPod(p, d)
  \/ \E t \in Thread :
       Upgrade(p, t) \/ LookUp(p, t) \/ InsertJob(p, t) \/ StartManager(p, t)
       \/ CacheApp(p, t) \/ Raises(p, t)

-----------------------------------------------------------------------------
(* Properties. *)

\* However the threads of a pod interleave, and whatever fails at start-up, the
\* cache lets one call per thread through: a pod has at most one task manager
\* besides those that its executor's threads start.
ManagersBounded == \A p \in Pods : managers[p] <= 1 + ExecutorMaxWorkers

\* "multiple pods do not run the same check independently": a pod that schedules
\* the job of its deployment after another one has leaves that job as it is.
LateStartChangesNoJob ==
  [][\A p \in Pods, t \in Thread, d \in Deployments :
       call[p][t] # call'[p][t] /\ status[d] # "absent" => status'[d] = status[d]]_<<call, status>>
=============================================================================
