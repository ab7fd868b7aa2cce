--------------------------- MODULE HarnessProofs ----------------------------
(***************************************************************************)
(* Theorems about Harness, for any number of pods, deployments and         *)
(* attempts: how many task managers a pod may have, that jobs complete     *)
(* with runs that passed, that the metrics CSV tells the truth, that the   *)
(* lifecycle of a job is kept, and what its page offers.                   *)
(***************************************************************************)
EXTENDS Harness, ArtifactsProofs

\* The managers that a pod's main thread, and its executor's thread, may have
\* started: none while the call that starts one has not come that far, and none
\* that a task will start once the app is cached.
Beginning == {"upgrade", "lookup", "insert", "manager"}
MainShare(p) == IF call[p]["main"] \in Beginning THEN 0 ELSE 1
TaskShare(p) ==
  IF call[p]["task"] \in Beginning \/ (call[p]["task"] = "out" /\ ~cached[p]) THEN 0 ELSE 1

StartupInv ==
  /\ ThreadsTypeOK
  /\ \A p \in Pods : version[p] = None => call[p] = NoCall /\ ~cached[p] /\ managers[p] = 0
  /\ \A p \in Pods : managers[p] <= MainShare(p) + TaskShare(p)

LEMMA StartupInvInit == StartupInit => StartupInv
  BY StartupAssumption DEF StartupInit, StartupInv, ThreadsTypeOK, NoCall, Thread, CallPC, JobStatus,
     MainShare, TaskShare, Beginning

\* The thread that moves changes its own pod's part alone.
LEMMA GoesType ==
  ASSUME StartupInv, NEW p \in Pods, NEW t \in Thread, NEW pc \in CallPC, Goes(p, t, pc)
  PROVE  /\ call' \in [Pods -> [Thread -> CallPC]]
         /\ call'[p] = [call[p] EXCEPT ![t] = pc]
         /\ call'[p][t] = pc
         /\ \A u \in Thread \ {t} : call'[p][u] = call[p][u]
         /\ \A q \in Pods \ {p} : call'[q] = call[q]
  BY DEF StartupInv, ThreadsTypeOK, Goes

LEMMA EndsKeeps ==
  ASSUME StartupInv, NEW p \in Pods, Ends(p)
  PROVE  StartupInv'
  <1>1. ThreadsTypeOK'
    BY DEF StartupInv, ThreadsTypeOK, Ends, NoCall, Thread, CallPC
  <1>2. /\ version'[p] = None /\ call'[p] = NoCall /\ ~cached'[p] /\ managers'[p] = 0
        /\ \A q \in Pods \ {p} : /\ version'[q] = version[q] /\ call'[q] = call[q]
                                 /\ cached'[q] = cached[q] /\ managers'[q] = managers[q]
    BY DEF StartupInv, ThreadsTypeOK, Ends
  <1>3. call'[p]["main"] = "out" /\ call'[p]["task"] = "out"
    BY <1>2 DEF NoCall, Thread
  <1> QED
    BY <1>1, <1>2, <1>3 DEF StartupInv, MainShare, TaskShare, Beginning

\* Whatever else happens, these are the steps of the threads that start a pod.
PodStep(p) == StartupStep(p) \/ CallFromTask(p) \/ Ends(p)

LEMMA StartupInvStep ==
  ASSUME StartupInv, (\E p \in Pods : PodStep(p)) \/ UNCHANGED startupVars
  PROVE  StartupInv'
  <1> USE StartupAssumption
  <1>1. ASSUME NEW p \in Pods, NEW d \in Deployments, StartPod(p, d) PROVE StartupInv'
    <2>1. "main" \in Thread /\ "upgrade" \in CallPC
      BY DEF Thread, CallPC
    <2>2. /\ call' \in [Pods -> [Thread -> CallPC]]
          /\ call'[p]["main"] = "upgrade"
          /\ call'[p]["task"] = call[p]["task"]
          /\ \A q \in Pods \ {p} : call'[q] = call[q]
      BY <1>1, <2>1, GoesType DEF StartPod, Thread
    <2>3. /\ version'[p] = d /\ version' \in [Pods -> Deployments \cup {None}]
          /\ \A q \in Pods \ {p} : version'[q] = version[q]
      BY <1>1 DEF StartPod, StartupInv, ThreadsTypeOK
    <2>4. managers[p] = 0 /\ UNCHANGED <<cached, managers, status>>
      BY <1>1 DEF StartPod, StartupInv
    <2>5. managers'[p] <= MainShare(p)' + TaskShare(p)'
      <3>1. MainShare(p)' \in {0, 1} /\ TaskShare(p)' \in {0, 1}
        BY DEF MainShare, TaskShare
      <3> QED
        BY <2>4, <3>1
    <2>6. \A q \in Pods \ {p} : MainShare(q)' = MainShare(q) /\ TaskShare(q)' = TaskShare(q)
      BY <2>2, <2>4 DEF MainShare, TaskShare
    <2>7. ThreadsTypeOK'
      BY <2>2, <2>3, <2>4 DEF StartupInv, ThreadsTypeOK
    <2>8. version'[p] # None
      BY <2>3
    <2> QED
      BY <2>2, <2>3, <2>4, <2>5, <2>6, <2>7, <2>8 DEF StartupInv
  <1>2. ASSUME NEW p \in Pods, CallFromTask(p) PROVE StartupInv'
    <2>1. "task" \in Thread /\ "upgrade" \in CallPC
      BY DEF Thread, CallPC
    <2>2. /\ call' \in [Pods -> [Thread -> CallPC]]
          /\ call'[p]["task"] = "upgrade"
          /\ call'[p]["main"] = call[p]["main"]
          /\ \A q \in Pods \ {p} : call'[q] = call[q]
      BY <1>2, <2>1, GoesType DEF CallFromTask, Thread
    <2>3. /\ managers[p] > 0 /\ call[p]["task"] = "out" /\ ~cached[p]
          /\ UNCHANGED <<version, cached, managers, status>>
      BY <1>2 DEF CallFromTask
    <2>4. TaskShare(p) = 0 /\ TaskShare(p)' = 0 /\ MainShare(p)' = MainShare(p)
      BY <2>2, <2>3 DEF MainShare, TaskShare, Beginning
    <2>5. \A q \in Pods \ {p} : MainShare(q)' = MainShare(q) /\ TaskShare(q)' = TaskShare(q)
      BY <2>2, <2>3 DEF MainShare, TaskShare
    <2>6. version[p] # None
      BY <2>3 DEF StartupInv
    <2> QED
      BY <2>2, <2>3, <2>4, <2>5, <2>6 DEF StartupInv, ThreadsTypeOK
  <1>3. ASSUME NEW p \in Pods, NEW t \in Thread, NEW from \in CallPC, NEW pc \in CallPC,
               call[p][t] = from, Goes(p, t, pc), UNCHANGED <<version, managers>>,
               from \in {"upgrade", "lookup", "insert", "cache"},
               from = "cache" => cached' = [cached EXCEPT ![p] = TRUE] /\ pc = "out",
               from # "cache" => UNCHANGED cached,
               from # "cache" => pc \in Beginning \/ (t = "task" /\ pc = "out")
        PROVE StartupInv'
    <2>1. /\ call' \in [Pods -> [Thread -> CallPC]]
          /\ call'[p][t] = pc
          /\ \A u \in Thread \ {t} : call'[p][u] = call[p][u]
          /\ \A q \in Pods \ {p} : call'[q] = call[q]
      BY <1>3, GoesType, ZenonT(60)
    <2>2. /\ cached' \in [Pods -> BOOLEAN]
          /\ cached[p] => cached'[p]
          /\ from = "cache" => cached'[p]
          /\ \A q \in Pods \ {p} : cached'[q] = cached[q]
      BY <1>3 DEF StartupInv, ThreadsTypeOK
    <2>3. version[p] # None
      BY <1>3 DEF StartupInv, NoCall, Thread
    <2>4. t \in {"main", "task"} /\ "main" \in Thread /\ "task" \in Thread
      BY DEF Thread
    <2>5. MainShare(p) \in {0, 1} /\ TaskShare(p) \in {0, 1} /\ MainShare(p)' \in {0, 1} /\ TaskShare(p)' \in {0, 1}
      BY DEF MainShare, TaskShare
    <2>6. MainShare(p)' >= MainShare(p) /\ TaskShare(p)' >= TaskShare(p)
      BY <1>3, <2>1, <2>2, <2>4 DEF MainShare, TaskShare, Beginning
    <2>7. managers'[p] <= MainShare(p)' + TaskShare(p)'
      BY <1>3, <2>5, <2>6 DEF StartupInv, ThreadsTypeOK
    <2>8. \A q \in Pods \ {p} : MainShare(q)' = MainShare(q) /\ TaskShare(q)' = TaskShare(q)
      BY <2>1, <2>2 DEF MainShare, TaskShare
    <2> QED
      BY <1>3, <2>1, <2>2, <2>3, <2>7, <2>8 DEF StartupInv, ThreadsTypeOK
  <1>4. ASSUME NEW p \in Pods, NEW t \in Thread, Upgrade(p, t) PROVE StartupInv'
    BY <1>3, <1>4 DEF Upgrade, CallPC, Beginning, StartupInv, ThreadsTypeOK
  <1>5. ASSUME NEW p \in Pods, NEW t \in Thread, LookUp(p, t) PROVE StartupInv'
    BY <1>3, <1>5 DEF LookUp, CallPC, Beginning, StartupInv, ThreadsTypeOK
  <1>6. ASSUME NEW p \in Pods, NEW t \in Thread, InsertJob(p, t) PROVE StartupInv'
    BY <1>3, <1>6 DEF InsertJob, CallPC, Beginning
  <1>7. ASSUME NEW p \in Pods, NEW t \in Thread, CacheApp(p, t) PROVE StartupInv'
    BY <1>3, <1>7 DEF CacheApp, CallPC, StartupInv, ThreadsTypeOK
  <1>8. ASSUME NEW p \in Pods, NEW t \in Thread, Raises(p, t) PROVE StartupInv'
    <2>1. CASE t = "main"
      BY <1>8, <2>1, EndsKeeps DEF Raises
    <2>2. CASE t = "task"
      BY <1>3, <1>8, <2>2 DEF Raises, CallPC, StartupInv, ThreadsTypeOK
    <2> QED
      BY <2>1, <2>2 DEF Thread
  <1>9. ASSUME NEW p \in Pods, NEW t \in Thread, StartManager(p, t) PROVE StartupInv'
    <2>1. /\ call' \in [Pods -> [Thread -> CallPC]]
          /\ call'[p][t] = "cache"
          /\ \A u \in Thread \ {t} : call'[p][u] = call[p][u]
          /\ \A q \in Pods \ {p} : call'[q] = call[q]
      BY <1>9, GoesType DEF StartManager, CallPC
    <2>2. /\ managers' \in [Pods -> Nat] /\ managers'[p] = managers[p] + 1
          /\ \A q \in Pods \ {p} : managers'[q] = managers[q]
      BY <1>9 DEF StartManager, StartupInv, ThreadsTypeOK
    <2>3. version[p] # None
      BY <1>9 DEF StartManager, StartupInv, NoCall, Thread
    <2>4. UNCHANGED <<version, cached, status>>
      BY <1>9 DEF StartManager
    <2>5. t \in {"main", "task"} /\ "main" \in Thread /\ "task" \in Thread
      BY DEF Thread
    <2>6. ASSUME t = "main" PROVE managers'[p] <= MainShare(p)' + TaskShare(p)'
      <3>1. MainShare(p) = 0 /\ MainShare(p)' = 1 /\ TaskShare(p)' = TaskShare(p)
        BY <1>9, <2>1, <2>4, <2>5, <2>6 DEF StartManager, MainShare, TaskShare, Beginning
      <3>2. TaskShare(p) \in {0, 1}
        BY DEF TaskShare
      <3> QED
        BY <2>2, <3>1, <3>2 DEF StartupInv, ThreadsTypeOK
    <2>7. ASSUME t = "task" PROVE managers'[p] <= MainShare(p)' + TaskShare(p)'
      <3>1. TaskShare(p) = 0 /\ TaskShare(p)' = 1 /\ MainShare(p)' = MainShare(p)
        BY <1>9, <2>1, <2>4, <2>5, <2>7 DEF StartManager, MainShare, TaskShare, Beginning
      <3>2. MainShare(p) \in {0, 1}
        BY DEF MainShare
      <3> QED
        BY <2>2, <3>1, <3>2 DEF StartupInv, ThreadsTypeOK
    <2>8. managers'[p] <= MainShare(p)' + TaskShare(p)'
      BY <2>5, <2>6, <2>7
    <2>9. \A q \in Pods \ {p} : MainShare(q)' = MainShare(q) /\ TaskShare(q)' = TaskShare(q)
      BY <2>1, <2>4 DEF MainShare, TaskShare
    <2> QED
      BY <2>1, <2>2, <2>3, <2>4, <2>8, <2>9 DEF StartupInv, ThreadsTypeOK
  <1>10. ASSUME NEW p \in Pods, Ends(p) PROVE StartupInv'
    BY <1>10, EndsKeeps
  <1>11. ASSUME UNCHANGED startupVars PROVE StartupInv'
    BY <1>11 DEF StartupInv, ThreadsTypeOK, startupVars, MainShare, TaskShare
  <1> QED
    BY <1>1, <1>2, <1>4, <1>5, <1>6, <1>7, <1>8, <1>9, <1>10, <1>11 DEF PodStep, StartupStep

LEMMA StartupInvBound == StartupInv => ManagersBounded
  <1>1. \A p \in Pods : MainShare(p) \in {0, 1} /\ TaskShare(p) \in {0, 1}
    BY DEF MainShare, TaskShare
  <1> QED
    BY <1>1 DEF StartupInv, ThreadsTypeOK, ManagersBounded, ExecutorMaxWorkers

LEMMA HarnessPodSteps ==
  [HarnessNext]_harnessVars => (\E p \in Pods : PodStep(p)) \/ UNCHANGED startupVars
  BY DEF HarnessNext, harnessVars, Starts, Crash, TaskStep, Claim, Overwrite, Promote, Checkpoint,
     Abandon, FindStopped, WriteStopped, Generate, Compare, ReadCsv, WriteCsv, Finalize, Fail, PodStep

\* The one thread of its executor lets a pod have one task manager more than it
\* should, however the calls of create_flask_app overlap and fail, and whatever the
\* queue, its users and the tasks do meanwhile; it never lets it have two more.
THEOREM ManagersBound == HarnessSpec => []ManagersBounded
  <1>1. HarnessInit => StartupInv
    BY StartupInvInit DEF HarnessInit
  <1>2. StartupInv /\ [HarnessNext]_harnessVars => StartupInv'
    BY StartupInvStep, HarnessPodSteps
  <1> QED
    BY <1>1, <1>2, StartupInvBound, PTL DEF HarnessSpec
-----------------------------------------------------------------------------
(* The runs and their reports. *)

Tables == UNION {[S -> Report \cup {None}] : S \in SUBSET Runs}

RunTypes ==
  /\ attempts \in [Deployments -> 0..MaxAttempts]
  /\ runs \in [Deployments -> 0..MaxAttempts]
  /\ work \in [Pods -> Seq(Runs)]
  /\ task \in [Pods -> [pc: TaskPC, csv: Tables]]
  /\ report \in [Runs -> Report \cup {None}]
  /\ csv \in Tables
  /\ status \in [Deployments -> JobStatus]
  /\ baseline \in Baselines \cup {None}

\* Every run is in the executor of one pod, once, and was given out.
HeldOnce ==
  \A p, q \in Pods : \A i \in 1..Len(work[p]), k \in 1..Len(work[q]) :
    work[p][i] = work[q][k] => p = q /\ i = k
GivenOut ==
  /\ \A p \in Pods : \A i \in 1..Len(work[p]) : work[p][i].attempt_count <= attempts[work[p][i].job]
  /\ \A r \in Runs : report[r] # None => r.attempt_count <= attempts[r.job]

\* Of the runs in an executor the first has a report, once it has been compared.
Compared(p) == task[p].pc \in {"reading", "writing", "finalizing"}
ReportedIfCompared ==
  \A p \in Pods :
    /\ work[p] = <<>> => ~Compared(p)
    /\ \A i \in 1..Len(work[p]) : report[work[p][i]] # None <=> i = 1 /\ Compared(p)

\* A table of summaries, in S3 or in a task, has no other summaries than reports.
Truthful(table) == \A r \in DOMAIN table : table[r] # None => table[r] = report[r]
TablesTruthful == Truthful(csv) /\ \A p \in Pods : Truthful(task[p].csv)

CompletedRan == \A d \in Deployments : status[d] = "completed" => attempts[d] # 0

RunInv ==
  /\ RunTypes /\ HeldOnce /\ GivenOut /\ ReportedIfCompared /\ TablesTruthful
  /\ CompletedRan /\ CompletedRunPassed

LEMMA RunsType ==
  ASSUME NEW r \in Runs
  PROVE  r.job \in Deployments /\ r.attempt_count \in 1..MaxAttempts
  BY DEF Runs

LEMMA NewTaskType == NoRows \in Tables /\ NewTask \in [pc: TaskPC, csv: Tables]
  <1>1. {} \in SUBSET Runs /\ NoRows \in [{} -> Report \cup {None}]
    BY DEF NoRows
  <1>2. NoRows \in Tables
    BY <1>1 DEF Tables
  <1> QED
    BY <1>2 DEF NewTask, TaskPC

LEMMA RunInvInit == HarnessInit => RunInv
  <1> SUFFICES ASSUME HarnessInit PROVE RunInv
    OBVIOUS
  <1> USE DEF HarnessInit, StartupInit
  <1>1. RunTypes
    BY NewTaskType, HarnessAssumption DEF RunTypes, JobStatus
  <1>2. HeldOnce /\ GivenOut /\ CompletedRan /\ CompletedRunPassed
    BY DEF HeldOnce, GivenOut, CompletedRan, CompletedRunPassed
  <1>3. ReportedIfCompared
    BY DEF ReportedIfCompared, Compared, NewTask
  <1>4. TablesTruthful
    BY DEF TablesTruthful, Truthful, NewTask, NoRows
  <1> QED
    BY <1>1, <1>2, <1>3, <1>4 DEF RunInv

\* A running task's run is the first of its executor.
LEMMA RunningRun ==
  ASSUME RunTypes, NEW p \in Pods, work[p] # <<>>
  PROVE  /\ 1 \in 1..Len(work[p]) /\ Run(p) = work[p][1] /\ Run(p) \in Runs
         /\ Run(p).job \in Deployments
  <1>1. work[p] \in Seq(Runs)
    BY DEF RunTypes
  <1> QED
    BY <1>1, RunsType, HeadTailProperties DEF Run

Parts == HeldOnce /\ GivenOut /\ ReportedIfCompared /\ TablesTruthful

\* A task goes on with its run: neither the executors nor the reports change.
LEMMA GoesOn ==
  ASSUME RunInv, NEW p \in Pods, UNCHANGED <<work, attempts, report>>,
         \A q \in Pods \ {p} : task'[q] = task[q],
         Compared(p)' <=> Compared(p), Truthful(csv)', Truthful(task[p].csv)'
  PROVE  Parts'
  <1>1. HeldOnce' /\ GivenOut'
    BY DEF RunInv, HeldOnce, GivenOut
  <1>2. \A q \in Pods : Compared(q)' <=> Compared(q)
    BY DEF Compared
  <1>3. ReportedIfCompared'
    BY <1>2 DEF RunInv, ReportedIfCompared
  <1>4. \A q \in Pods : Truthful(task[q].csv)'
    BY DEF RunInv, TablesTruthful, Truthful
  <1> QED
    BY <1>1, <1>3, <1>4 DEF Parts, TablesTruthful

\* A task ends: its run leaves the executor, the next one has no report.
LEMMA Ended ==
  ASSUME RunInv, NEW p \in Pods, work[p] # <<>>, Finish(p), UNCHANGED <<attempts, report, csv>>
  PROVE  Parts' /\ work' \in [Pods -> Seq(Runs)] /\ task' \in [Pods -> [pc: TaskPC, csv: Tables]]
  <1>1. /\ work \in [Pods -> Seq(Runs)] /\ work[p] \in Seq(Runs)
        /\ task \in [Pods -> [pc: TaskPC, csv: Tables]]
    BY DEF RunInv, RunTypes
  <1>2. /\ Tail(work[p]) \in Seq(Runs) /\ Len(Tail(work[p])) = Len(work[p]) - 1
        /\ \A i \in 1..Len(Tail(work[p])) : Tail(work[p])[i] = work[p][i + 1]
        /\ Len(work[p]) \in Nat
    BY <1>1, HeadTailProperties
  <1>3. /\ work'[p] = Tail(work[p]) /\ \A q \in Pods \ {p} : work'[q] = work[q]
        /\ task'[p] = NewTask /\ \A q \in Pods \ {p} : task'[q] = task[q]
        /\ work' \in [Pods -> Seq(Runs)]
    BY <1>1, <1>2 DEF Finish
  <1>4. task' \in [Pods -> [pc: TaskPC, csv: Tables]]
    BY <1>1, NewTaskType DEF Finish
  <1> DEFINE Was(q, i) == IF q = p THEN i + 1 ELSE i
  <1>5. ASSUME NEW q \in Pods, NEW i \in 1..Len(work'[q])
        PROVE  Was(q, i) \in 1..Len(work[q]) /\ work'[q][i] = work[q][Was(q, i)]
    BY <1>2, <1>3
  <1>6. HeldOnce'
    <2> SUFFICES ASSUME NEW q \in Pods, NEW s \in Pods, NEW i \in 1..Len(work'[q]),
                        NEW k \in 1..Len(work'[s]), work'[q][i] = work'[s][k]
                 PROVE  q = s /\ i = k
      BY DEF HeldOnce
    <2>1. q = s /\ Was(q, i) = Was(s, k)
      <3> HIDE DEF Was
      <3>1. /\ Was(q, i) \in 1..Len(work[q]) /\ work'[q][i] = work[q][Was(q, i)]
            /\ Was(s, k) \in 1..Len(work[s]) /\ work'[s][k] = work[s][Was(s, k)]
        BY <1>5
      <3>2. work[q][Was(q, i)] = work[s][Was(s, k)]
        BY <3>1
      <3> QED
        BY <3>1, <3>2 DEF RunInv, HeldOnce
    <2> QED
      BY <2>1
  <1>7. GivenOut'
    <2> HIDE DEF Was
    <2> QED
      BY <1>5 DEF RunInv, GivenOut
  <1>8. ~Compared(p)' /\ \A q \in Pods \ {p} : Compared(q)' <=> Compared(q)
    BY <1>3 DEF Compared, NewTask
  <1>9. ReportedIfCompared'
    <2>1. ASSUME NEW i \in 1..Len(work'[p]) PROVE report[work'[p][i]] = None
      BY <1>2, <1>3 DEF RunInv, ReportedIfCompared
    <2> QED
      BY <1>3, <1>8, <2>1 DEF RunInv, ReportedIfCompared
  <1>10. TablesTruthful'
    <2>1. Truthful(task[p].csv)'
      BY <1>3 DEF Truthful, NewTask, NoRows
    <2> QED
      BY <1>3, <2>1 DEF RunInv, TablesTruthful, Truthful
  <1> QED
    BY <1>3, <1>4, <1>6, <1>7, <1>9, <1>10 DEF Parts

\* A pod dies: its runs are in no executor.
LEMMA Crashed ==
  ASSUME RunInv, NEW p \in Pods, Crash(p)
  PROVE  Parts' /\ work' \in [Pods -> Seq(Runs)] /\ task' \in [Pods -> [pc: TaskPC, csv: Tables]]
  <1>1. /\ work \in [Pods -> Seq(Runs)] /\ task \in [Pods -> [pc: TaskPC, csv: Tables]]
        /\ UNCHANGED <<attempts, report, csv>>
    BY DEF RunInv, RunTypes, Crash, s3Vars
  <1>2. /\ work'[p] = <<>> /\ \A q \in Pods \ {p} : work'[q] = work[q]
        /\ task'[p] = NewTask /\ \A q \in Pods \ {p} : task'[q] = task[q]
    BY <1>1 DEF Crash
  <1>3. /\ work' \in [Pods -> Seq(Runs)] /\ task' \in [Pods -> [pc: TaskPC, csv: Tables]]
    BY <1>1, NewTaskType DEF Crash
  <1>4. Len(work'[p]) = 0
    BY <1>2
  <1>4a. ASSUME NEW q \in Pods, NEW i \in 1..Len(work'[q])
        PROVE  q # p /\ work'[q] = work[q]
    BY <1>2, <1>4
  <1>5. HeldOnce' /\ GivenOut'
    <2>1. HeldOnce'
      BY <1>4a DEF RunInv, HeldOnce
    <2>2. GivenOut'
      BY <1>1, <1>4a DEF RunInv, GivenOut
    <2> QED
      BY <2>1, <2>2
  <1>6. ~Compared(p)' /\ \A q \in Pods \ {p} : Compared(q)' <=> Compared(q)
    BY <1>2 DEF Compared, NewTask
  <1>7. ReportedIfCompared'
    BY <1>1, <1>2, <1>4, <1>6 DEF RunInv, ReportedIfCompared
  <1>8. TablesTruthful'
    <2>1. Truthful(task[p].csv)'
      BY <1>2 DEF Truthful, NewTask, NoRows
    <2> QED
      BY <1>1, <1>2, <2>1 DEF RunInv, TablesTruthful, Truthful
  <1> QED
    BY <1>3, <1>5, <1>7, <1>8 DEF Parts

\* A job is claimed: its new run was never in an executor and has no report.
LEMMA Claimed ==
  ASSUME RunInv, NEW p \in Pods, NEW j \in Deployments, Claim(p, j)
  PROVE  Parts' /\ RunTypes'
  <1> DEFINE r == [job |-> j, attempt_count |-> attempts[j] + 1]
  <1>1. /\ work \in [Pods -> Seq(Runs)] /\ work[p] \in Seq(Runs)
        /\ attempts \in [Deployments -> 0..MaxAttempts]
        /\ UNCHANGED <<runs, task, report, csv, baseline>>
        /\ work' = [work EXCEPT ![p] = Append(work[p], r)]
        /\ attempts' = [attempts EXCEPT ![j] = attempts[j] + 1]
        /\ attempts[j] < MaxAttempts
    BY DEF RunInv, RunTypes, Claim, s3Vars
  <1>2. r \in Runs /\ r.job = j /\ r.attempt_count = attempts[j] + 1
    BY <1>1, HarnessAssumption DEF Runs
  <1> HIDE DEF r
  <1>3. /\ Append(work[p], r) \in Seq(Runs) /\ Len(Append(work[p], r)) = Len(work[p]) + 1
        /\ \A i \in 1..Len(work[p]) : Append(work[p], r)[i] = work[p][i]
        /\ Append(work[p], r)[Len(work[p]) + 1] = r /\ Len(work[p]) \in Nat
    BY <1>1, <1>2, AppendProperties
  <1>4. /\ work'[p] = Append(work[p], r) /\ \A q \in Pods \ {p} : work'[q] = work[q]
        /\ work' \in [Pods -> Seq(Runs)]
    BY <1>1, <1>3
  <1>5. /\ attempts'[j] = attempts[j] + 1 /\ \A d \in Deployments \ {j} : attempts'[d] = attempts[d]
        /\ attempts' \in [Deployments -> 0..MaxAttempts]
        /\ \A d \in Deployments : attempts[d] \in Nat /\ attempts'[d] \in Nat /\ attempts[d] <= attempts'[d]
    BY <1>1, HarnessAssumption
  <1>6. ASSUME NEW q \in Pods, NEW i \in 1..Len(work'[q])
        PROVE  \/ i \in 1..Len(work[q]) /\ work'[q][i] = work[q][i]
               \/ q = p /\ i = Len(work[p]) + 1 /\ work'[q][i] = r
    BY <1>3, <1>4
  <1>7. ASSUME NEW q \in Pods, NEW i \in 1..Len(work[q])
        PROVE  work[q][i] # r /\ work[q][i] \in Runs
    <2>1. work[q][i] \in Runs
      BY <1>1
    <2>2. work[q][i].attempt_count <= attempts[work[q][i].job]
      BY DEF RunInv, GivenOut
    <2> QED
      BY <1>2, <1>5, <2>1, <2>2
  <1>8. report[r] = None
    BY <1>2, <1>5 DEF RunInv, GivenOut
  <1>9. HeldOnce'
    BY <1>6, <1>7, SMTT(30) DEF RunInv, HeldOnce
  <1>10. GivenOut'
    <2>1. ASSUME NEW q \in Runs, q.attempt_count <= attempts[q.job]
          PROVE  q.attempt_count <= attempts'[q.job]
      BY <1>5, <2>1, RunsType
    <2>2. ASSUME NEW q \in Pods, NEW i \in 1..Len(work'[q])
          PROVE  work'[q][i].attempt_count <= attempts'[work'[q][i].job]
      <3>1. CASE i \in 1..Len(work[q]) /\ work'[q][i] = work[q][i]
        BY <1>7, <2>1, <3>1 DEF RunInv, GivenOut
      <3>2. CASE work'[q][i] = r
        BY <1>2, <1>5, <3>2
      <3> QED
        BY <1>6, <3>1, <3>2
    <2> QED
      BY <1>1, <2>1, <2>2 DEF RunInv, GivenOut
  <1>11. ReportedIfCompared'
    <2>1. \A q \in Pods : Compared(q)' <=> Compared(q)
      BY <1>1 DEF Compared
    <2>2. ASSUME NEW q \in Pods, NEW i \in 1..Len(work'[q])
          PROVE  report[work'[q][i]] # None <=> i = 1 /\ Compared(q)
      <3>1. CASE i \in 1..Len(work[q]) /\ work'[q][i] = work[q][i]
        BY <3>1 DEF RunInv, ReportedIfCompared
      <3>2. CASE q = p /\ i = Len(work[p]) + 1 /\ work'[q][i] = r
        <4>1. i = 1 => work[p] = <<>>
          BY <1>1, <1>3, <3>2, EmptySeq
        <4> QED
          BY <1>8, <3>2, <4>1 DEF RunInv, ReportedIfCompared
      <3> QED
        BY <1>6, <3>1, <3>2
    <2>3. \A q \in Pods : work'[q] = <<>> => work[q] = <<>>
      BY <1>1, <1>2, <1>4, AppendProperties
    <2> QED
      BY <1>1, <2>1, <2>2, <2>3 DEF RunInv, ReportedIfCompared
  <1>12. TablesTruthful'
    BY <1>1 DEF RunInv, TablesTruthful, Truthful
  <1>13. status' \in [Deployments -> JobStatus]
    BY DEF RunInv, RunTypes, Claim, JobStatus
  <1> QED
    BY <1>1, <1>4, <1>5, <1>9, <1>10, <1>11, <1>12, <1>13 DEF Parts, RunInv, RunTypes

\* A run is compared: it had no report, so no table has a summary of it.
LEMMA ComparedRun ==
  ASSUME RunInv, NEW p \in Pods, NEW passed \in BOOLEAN, Compare(p, passed)
  PROVE  /\ Parts' /\ RunTypes'
         /\ \A r \in Runs : report[r] # None => report'[r] = report[r]
  <1> DEFINE verdict == [passed |-> passed, baseline |-> baseline]
  <1>1. /\ UNCHANGED <<work, attempts, csv, status, runs, baseline>> /\ work[p] # <<>>
        /\ task[p].pc = "comparing"
        /\ report' = [report EXCEPT ![Run(p)] = verdict] /\ baseline # None
        /\ task' = [task EXCEPT ![p].pc = "reading"]
    BY DEF Compare, Running, TaskGoes
  <1>2. RunTypes
    BY DEF RunInv
  <1>3. 1 \in 1..Len(work[p]) /\ Run(p) = work[p][1] /\ Run(p) \in Runs
    BY <1>1, <1>2, RunningRun
  <1>4. verdict \in Report
    BY <1>1, <1>2 DEF RunTypes, Report
  <1> HIDE DEF verdict
  <1>5. verdict # None
    BY <1>4, HarnessAssumption
  <1>6. ~Compared(p) /\ report[Run(p)] = None
    BY <1>1, <1>3 DEF Compared, RunInv, ReportedIfCompared
  <1>7. /\ report' \in [Runs -> Report \cup {None}] /\ report'[Run(p)] = verdict
        /\ \A r \in Runs \ {Run(p)} : report'[r] = report[r]
    BY <1>1, <1>2, <1>3, <1>4 DEF RunTypes
  <1>8. /\ task' \in [Pods -> [pc: TaskPC, csv: Tables]]
        /\ task'[p].pc = "reading" /\ task'[p].csv = task[p].csv
        /\ \A q \in Pods \ {p} : task'[q] = task[q]
    BY <1>1, <1>2 DEF RunTypes, TaskPC
  <1>9. HeldOnce'
    BY <1>1 DEF RunInv, HeldOnce
  <1>10. GivenOut'
    BY <1>1, <1>3, <1>7 DEF RunInv, GivenOut
  <1>11. ReportedIfCompared'
    <2>1. Compared(p)' /\ \A q \in Pods \ {p} : Compared(q)' <=> Compared(q)
      BY <1>8 DEF Compared
    <2>2. ASSUME NEW q \in Pods, NEW i \in 1..Len(work[q])
          PROVE  report'[work[q][i]] # None <=> i = 1 /\ Compared(q)'
      <3>1. work[q][i] \in Runs
        BY <1>2 DEF RunTypes
      <3>2. CASE q = p /\ i = 1
        BY <1>3, <1>5, <1>7, <2>1, <3>2
      <3>3. CASE ~(q = p /\ i = 1)
        <4>1. work[q][i] # Run(p)
          BY <1>3, <3>3 DEF RunInv, HeldOnce
        <4>2. report'[work[q][i]] = report[work[q][i]]
          BY <1>7, <3>1, <4>1
        <4> QED
          BY <1>6, <2>1, <3>3, <4>2 DEF RunInv, ReportedIfCompared
      <3> QED
        BY <3>2, <3>3
    <2> QED
      BY <1>1, <2>1, <2>2 DEF RunInv, ReportedIfCompared
  <1>12. ASSUME NEW table \in Tables, \A r \in DOMAIN table : table[r] # None => table[r] = report[r]
         PROVE  \A r \in DOMAIN table : table[r] # None => table[r] = report'[r]
    <2>1. DOMAIN table \subseteq Runs
      BY DEF Tables
    <2> QED
      BY <1>6, <1>7, <1>12, <2>1
  <1>13. TablesTruthful'
    <2>1. Truthful(csv)'
      BY <1>1, <1>2, <1>12 DEF RunInv, TablesTruthful, Truthful, RunTypes
    <2>2. ASSUME NEW q \in Pods PROVE Truthful(task[q].csv)'
      <3>1. task'[q].csv = task[q].csv /\ task[q].csv \in Tables
        BY <1>2, <1>8 DEF RunTypes
      <3>2. \A r \in DOMAIN task[q].csv : task[q].csv[r] # None => task[q].csv[r] = report[r]
        BY DEF RunInv, TablesTruthful, Truthful
      <3> QED
        BY <1>12, <3>1, <3>2 DEF Truthful
    <2> QED
      BY <2>1, <2>2 DEF TablesTruthful
  <1> QED
    BY <1>1, <1>2, <1>6, <1>7, <1>8, <1>9, <1>10, <1>11, <1>13 DEF Parts, RunTypes

\* A row of the CSV is written: with a summary that is the run's report.
LEMMA WrittenRow ==
  ASSUME RunInv, NEW p \in Pods, WriteCsv(p)
  PROVE  Parts' /\ RunTypes'
  <1>1. /\ UNCHANGED <<work, attempts, report, status, runs, baseline>> /\ work[p] # <<>>
        /\ task[p].pc = "writing"
        /\ task' = [task EXCEPT ![p] = [pc |-> "finalizing", csv |-> NoRows]]
        /\ csv' \in {csv, Summarised(task[p].csv, Run(p))}
    BY DEF WriteCsv, Running
  <1>2. RunTypes
    BY DEF RunInv
  <1>3. 1 \in 1..Len(work[p]) /\ Run(p) = work[p][1] /\ Run(p) \in Runs
    BY <1>1, <1>2, RunningRun
  <1>4. Compared(p) /\ report[Run(p)] # None /\ report[Run(p)] \in Report \cup {None}
    BY <1>1, <1>2, <1>3 DEF Compared, RunInv, ReportedIfCompared, RunTypes
  <1>5. task[p].csv \in Tables
    BY <1>2 DEF RunTypes
  <1>6. PICK S \in SUBSET Runs : task[p].csv \in [S -> Report \cup {None}]
    BY <1>5 DEF Tables
  <1>7. Summarised(task[p].csv, Run(p)) \in [S -> Report \cup {None}]
    BY <1>4, <1>6 DEF Summarised
  <1>8. csv' \in Tables
    BY <1>1, <1>2, <1>7 DEF Tables, RunTypes
  <1>9. Truthful(csv)'
    <2>1. CASE csv' = csv
      BY <1>1, <2>1 DEF RunInv, TablesTruthful, Truthful
    <2>2. CASE csv' = Summarised(task[p].csv, Run(p))
      BY <1>1, <1>6, <2>2 DEF RunInv, TablesTruthful, Truthful, Summarised
    <2> QED
      BY <1>1, <2>1, <2>2
  <1>10. /\ task'[p] = [pc |-> "finalizing", csv |-> NoRows] /\ \A q \in Pods \ {p} : task'[q] = task[q]
         /\ task' \in [Pods -> [pc: TaskPC, csv: Tables]]
    BY <1>1, <1>2, NewTaskType DEF RunTypes, TaskPC
  <1>11. Truthful(task[p].csv)' /\ Compared(p)'
    BY <1>10 DEF Truthful, NoRows, Compared
  <1> QED
    BY <1>1, <1>2, <1>4, <1>8, <1>9, <1>10, <1>11, GoesOn DEF RunTypes

\* The task goes on with its run: what it has read, and what it has generated, is
\* as truthful as the CSV was.
LEMMA WentOn ==
  ASSUME RunInv, NEW p \in Pods, FindStopped(p) \/ Generate(p) \/ ReadCsv(p)
  PROVE  Parts' /\ RunTypes'
  <1>1. /\ UNCHANGED <<work, attempts, report, status, runs, baseline>> /\ work[p] # <<>>
    BY DEF FindStopped, Generate, ReadCsv, Running, s3Vars
  <1>2. RunTypes /\ Truthful(csv) /\ Truthful(task[p].csv)
    BY DEF RunInv, TablesTruthful
  <1>3. Run(p) \in Runs
    BY <1>1, <1>2, RunningRun
  <1>4. CASE FindStopped(p) \/ (ReadCsv(p) /\ TaskGoes(p, "finalizing"))
    <2>1. PICK pc \in TaskPC : /\ task' = [task EXCEPT ![p].pc = pc] /\ csv' = csv
                               /\ Compared(p) <=> pc \in {"reading", "writing", "finalizing"}
      BY <1>4 DEF FindStopped, ReadCsv, TaskGoes, TaskPC, Compared, Running, s3Vars
    <2>2. /\ task'[p].pc = pc /\ task'[p].csv = task[p].csv /\ \A q \in Pods \ {p} : task'[q] = task[q]
          /\ task' \in [Pods -> [pc: TaskPC, csv: Tables]]
      BY <1>2, <2>1 DEF RunTypes
    <2>3. (Compared(p)' <=> Compared(p)) /\ Truthful(csv)' /\ Truthful(task[p].csv)'
      BY <1>1, <1>2, <2>1, <2>2 DEF Compared, Truthful
    <2> QED
      BY <1>1, <1>2, <2>1, <2>2, <2>3, GoesOn DEF RunTypes
  <1>5. CASE ReadCsv(p) /\ task' = [task EXCEPT ![p] = [pc |-> "writing", csv |-> csv]]
    <2>1. /\ task'[p] = [pc |-> "writing", csv |-> csv] /\ \A q \in Pods \ {p} : task'[q] = task[q]
          /\ task' \in [Pods -> [pc: TaskPC, csv: Tables]] /\ csv' = csv /\ task[p].pc = "reading"
      BY <1>2, <1>5 DEF RunTypes, TaskPC, ReadCsv, Running, s3Vars
    <2>2. Compared(p)' /\ Compared(p) /\ Truthful(csv)' /\ Truthful(task[p].csv)'
      BY <1>1, <1>2, <2>1 DEF Compared, Truthful
    <2> QED
      BY <1>1, <1>2, <2>1, <2>2, GoesOn DEF RunTypes
  <1>6. CASE Generate(p)
    <2>1. /\ task' = [task EXCEPT ![p].pc = "comparing"] /\ task[p].pc = "generating"
          /\ csv' \in {csv, [r \in DOMAIN csv \cup {Run(p)} |-> IF r \in DOMAIN csv THEN csv[r] ELSE None]}
      BY <1>6 DEF Generate, TaskGoes, Running
    <2>2. PICK S \in SUBSET Runs : csv \in [S -> Report \cup {None}]
      BY <1>2 DEF RunTypes, Tables
    <2>3. /\ S \cup {Run(p)} \in SUBSET Runs
          /\ [r \in DOMAIN csv \cup {Run(p)} |-> IF r \in DOMAIN csv THEN csv[r] ELSE None]
               \in [S \cup {Run(p)} -> Report \cup {None}]
      BY <1>3, <2>2
    <2>4. csv' \in Tables
      BY <1>2, <2>1, <2>3 DEF Tables, RunTypes
    <2>5. Truthful(csv)'
      BY <1>1, <1>2, <2>1 DEF Truthful
    <2>6. /\ task'[p].pc = "comparing" /\ task'[p].csv = task[p].csv /\ \A q \in Pods \ {p} : task'[q] = task[q]
          /\ task' \in [Pods -> [pc: TaskPC, csv: Tables]]
      BY <1>2, <2>1 DEF RunTypes, TaskPC
    <2>7. ~Compared(p)' /\ ~Compared(p) /\ Truthful(task[p].csv)'
      BY <1>1, <1>2, <2>1, <2>6 DEF Compared, Truthful
    <2> QED
      BY <1>1, <1>2, <2>4, <2>5, <2>6, <2>7, GoesOn DEF RunTypes
  <1> QED
    BY <1>4, <1>5, <1>6 DEF ReadCsv

\* A step that neither claims a job, nor finalizes one, nor changes a report, a
\* job's attempts or its run, completes none.
LEMMA CompletesNone ==
  ASSUME RunInv, UNCHANGED <<attempts, runs>>,
         \A r \in Runs : report[r] # None => report'[r] = report[r],
         \A d \in Deployments : status'[d] = "completed" => status[d] = "completed"
  PROVE  CompletedRan' /\ CompletedRunPassed'
  <1>0. CompletedRan'
    BY DEF RunInv, CompletedRan
  <1> SUFFICES ASSUME NEW d \in Deployments, status'[d] = "completed"
               PROVE  LET r == [job |-> d, attempt_count |-> attempts[d]]
                      IN runs[d] = attempts[d] /\ report'[r] # None /\ report'[r].passed
    BY <1>0 DEF CompletedRunPassed
  <1> DEFINE r == [job |-> d, attempt_count |-> attempts[d]]
  <1>1. runs[d] = attempts[d] /\ report[r] # None /\ report[r].passed
    BY DEF RunInv, CompletedRunPassed
  <1>2. r \in Runs
    <2>1. report \in [Runs -> Report \cup {None}] /\ attempts[d] \in 0..MaxAttempts
      BY DEF RunInv, RunTypes
    <2>2. attempts[d] # 0
      BY DEF RunInv, CompletedRan
    <2> QED
      BY <2>1, <2>2, HarnessAssumption DEF Runs
  <1> QED
    BY <1>1, <1>2

\* Nothing of the runs changes but, perhaps, statuses that complete no job.
LEMMA StatusOnly ==
  ASSUME RunInv, UNCHANGED <<attempts, runs, work, task, report, csv>>,
         status' \in [Deployments -> JobStatus], baseline' \in Baselines \cup {None},
         \A d \in Deployments : status'[d] = "completed" => status[d] = "completed"
  PROVE  RunInv'
  <1>1. RunTypes'
    BY DEF RunInv, RunTypes
  <1>2. HeldOnce' /\ GivenOut'
    BY DEF RunInv, HeldOnce, GivenOut
  <1>3. ReportedIfCompared'
    BY DEF RunInv, ReportedIfCompared, Compared
  <1>4. TablesTruthful'
    BY DEF RunInv, TablesTruthful, Truthful
  <1> QED
    BY <1>1, <1>2, <1>3, <1>4, CompletesNone DEF RunInv

\* The outcome is recorded with its run, or not at all; a run that is recorded as
\* completed has passed.
LEMMA Finalized ==
  ASSUME RunInv, NEW p \in Pods, Finalize(p)
  PROVE  RunInv'
  <1> DEFINE r == Run(p)  j == r.job
  <1>1. /\ work[p] # <<>> /\ task[p].pc = "finalizing" /\ Finish(p)
        /\ UNCHANGED <<attempts, report, csv, baseline>>
        /\ Record(p, Outcome(r), r.attempt_count)
    BY DEF Finalize, Running, s3Vars
  <1>2. RunTypes
    BY DEF RunInv
  <1>3. 1 \in 1..Len(work[p]) /\ r = work[p][1] /\ r \in Runs /\ j \in Deployments
    BY <1>1, <1>2, RunningRun
  <1>4. report[r] # None /\ report[r] \in Report
    BY <1>1, <1>2, <1>3 DEF RunInv, ReportedIfCompared, Compared, RunTypes
  <1>5. Outcome(r) \in {"completed", "failed"} /\ (Outcome(r) = "completed" => report[r].passed)
    BY <1>4 DEF Outcome, Report
  <1>6. r.attempt_count \in 1..MaxAttempts /\ r = [job |-> j, attempt_count |-> r.attempt_count]
    BY <1>3 DEF Runs
  <1> HIDE DEF r, j
  <1>7. Parts' /\ work' \in [Pods -> Seq(Runs)] /\ task' \in [Pods -> [pc: TaskPC, csv: Tables]]
    BY <1>1, Ended
  <1>8. CASE UNCHANGED <<status, runs>>
    <2>1. CompletedRan' /\ CompletedRunPassed'
      BY <1>1, <1>8, CompletesNone
    <2> QED
      BY <1>1, <1>2, <1>7, <1>8, <2>1 DEF RunInv, RunTypes, Parts
  <1>9. CASE /\ OwnsRow(r)
             /\ status' = [status EXCEPT ![j] = Outcome(r)]
             /\ runs' = [runs EXCEPT ![j] = r.attempt_count]
    <2>1. /\ status' \in [Deployments -> JobStatus] /\ status'[j] = Outcome(r)
          /\ \A d \in Deployments \ {j} : status'[d] = status[d] /\ runs'[d] = runs[d]
          /\ runs' \in [Deployments -> 0..MaxAttempts] /\ runs'[j] = r.attempt_count
      BY <1>2, <1>3, <1>5, <1>6, <1>9, HarnessAssumption DEF RunTypes, JobStatus
    <2>2. attempts[j] = r.attempt_count
      BY <1>9 DEF OwnsRow, Superseded, j
    <2>3. CompletedRan'
      BY <1>1, <1>3, <1>6, <2>1, <2>2 DEF RunInv, CompletedRan
    <2>4. CompletedRunPassed'
      <3> SUFFICES ASSUME NEW d \in Deployments, status'[d] = "completed"
                   PROVE  /\ runs'[d] = attempts[d]
                          /\ report[[job |-> d, attempt_count |-> attempts[d]]] # None
                          /\ report[[job |-> d, attempt_count |-> attempts[d]]].passed
        BY <1>1 DEF CompletedRunPassed
      <3>1. CASE d = j
        BY <1>4, <1>5, <1>6, <2>1, <2>2, <3>1
      <3>2. CASE d # j
        BY <2>1, <3>2 DEF RunInv, CompletedRunPassed
      <3> QED
        BY <3>1, <3>2
    <2> QED
      BY <1>1, <1>2, <1>7, <2>1, <2>3, <2>4 DEF RunInv, RunTypes, Parts
  <1> QED
    BY <1>1, <1>8, <1>9 DEF Record, r, j

\* A task that ends without completing its job.
LEMMA EndedOnly ==
  ASSUME RunInv, NEW p \in Pods, Abandon(p) \/ WriteStopped(p) \/ Fail(p)
  PROVE  RunInv'
  <1>1. /\ work[p] # <<>> /\ Finish(p) /\ UNCHANGED <<attempts, report, csv, baseline>>
    BY DEF Abandon, WriteStopped, Fail, Running, s3Vars
  <1>2. RunTypes
    BY DEF RunInv
  <1>3. Run(p).job \in Deployments
    BY <1>1, <1>2, RunningRun
  <1>4. /\ status' \in [Deployments -> JobStatus] /\ runs' = runs
        /\ \A d \in Deployments : status'[d] = "completed" => status[d] = "completed"
    <2>1. CASE Abandon(p)
      BY <1>2, <2>1 DEF Abandon, RunTypes
    <2>2. CASE WriteStopped(p)
      BY <1>2, <1>3, <2>2 DEF WriteStopped, RunTypes, JobStatus
    <2>3. CASE Fail(p)
      <3>1. Record(p, "failed", runs[Run(p).job])
        BY <2>3 DEF Fail
      <3>2. CASE UNCHANGED <<status, runs>>
        BY <1>2, <3>2 DEF RunTypes
      <3>3. CASE /\ status' = [status EXCEPT ![Run(p).job] = "failed"]
                 /\ runs' = [runs EXCEPT ![Run(p).job] = runs[Run(p).job]]
        BY <1>2, <1>3, <3>3 DEF RunTypes, JobStatus
      <3> QED
        BY <3>1, <3>2, <3>3 DEF Record
    <2> QED
      BY <2>1, <2>2, <2>3
  <1>5. Parts' /\ work' \in [Pods -> Seq(Runs)] /\ task' \in [Pods -> [pc: TaskPC, csv: Tables]]
    BY <1>1, Ended
  <1>6. CompletedRan' /\ CompletedRunPassed'
    BY <1>1, <1>4, CompletesNone
  <1> QED
    BY <1>1, <1>2, <1>4, <1>5, <1>6 DEF RunInv, RunTypes, Parts

LEMMA RunInvStep == RunInv /\ [HarnessNext]_harnessVars => RunInv'
  <1> SUFFICES ASSUME RunInv, [HarnessNext]_harnessVars PROVE RunInv'
    OBVIOUS
  <1>1. RunTypes
    BY DEF RunInv
  <1>2. ASSUME NEW p \in Pods, Starts(p) PROVE RunInv'
    <2>1. UNCHANGED <<attempts, runs, work, task, report, csv, baseline>>
      BY <1>2 DEF Starts, queueVars, s3Vars
    <2>2. /\ status' \in [Deployments -> JobStatus]
          /\ \A d \in Deployments : status'[d] = "completed" => status[d] = "completed"
      <3>1. StartupStep(p)
        BY <1>2 DEF Starts
      <3>2. CASE UNCHANGED status
        BY <1>1, <3>2 DEF RunTypes
      <3>3. CASE \E t \in Thread : InsertJob(p, t)
        BY <1>1, <3>3 DEF InsertJob, RunTypes, JobStatus
      <3> QED
        BY <3>1, <3>2, <3>3 DEF StartupStep, StartPod, Upgrade, LookUp, StartManager, CacheApp, Raises
    <2> QED
      BY <1>1, <2>1, <2>2, StatusOnly DEF RunTypes
  <1>3. ASSUME NEW p \in Pods, Crash(p) PROVE RunInv'
    <2>1. UNCHANGED <<status, attempts, runs, report, csv, baseline>>
      BY <1>3 DEF Crash, s3Vars
    <2>2. Parts' /\ work' \in [Pods -> Seq(Runs)] /\ task' \in [Pods -> [pc: TaskPC, csv: Tables]]
      BY <1>3, Crashed
    <2>3. CompletedRan' /\ CompletedRunPassed'
      BY <2>1, CompletesNone
    <2> QED
      BY <1>1, <2>1, <2>2, <2>3 DEF RunInv, RunTypes, Parts
  <1>4. ASSUME NEW p \in Pods, NEW j \in Deployments, Claim(p, j) PROVE RunInv'
    <2>1. Parts' /\ RunTypes'
      BY <1>4, Claimed
    <2>2. /\ status' = [status EXCEPT ![j] = "running"] /\ attempts' = [attempts EXCEPT ![j] = @ + 1]
          /\ UNCHANGED <<runs, report>>
      BY <1>4 DEF Claim, s3Vars
    <2>3. \A d \in Deployments : status'[d] = "completed" =>
            status[d] = "completed" /\ attempts'[d] = attempts[d]
      BY <1>1, <2>2 DEF RunTypes
    <2>4. CompletedRan' /\ CompletedRunPassed'
      BY <2>2, <2>3 DEF RunInv, CompletedRan, CompletedRunPassed
    <2> QED
      BY <2>1, <2>4 DEF RunInv, Parts
  <1>5. ASSUME NEW p \in Pods, Checkpoint(p) PROVE RunInv'
    BY <1>1, <1>5, StatusOnly DEF Checkpoint, CallFromTask, queueVars, s3Vars, RunTypes
  <1>6. ASSUME NEW p \in Pods, Abandon(p) \/ WriteStopped(p) \/ Fail(p) PROVE RunInv'
    BY <1>6, EndedOnly
  <1>7. ASSUME NEW p \in Pods, FindStopped(p) \/ Generate(p) \/ ReadCsv(p) PROVE RunInv'
    <2>1. Parts' /\ RunTypes'
      BY <1>7, WentOn
    <2>2. UNCHANGED <<attempts, runs, report, status>>
      BY <1>7 DEF FindStopped, Generate, ReadCsv, s3Vars
    <2>3. CompletedRan' /\ CompletedRunPassed'
      BY <2>2, CompletesNone
    <2> QED
      BY <2>1, <2>3 DEF RunInv, Parts
  <1>8. ASSUME NEW p \in Pods, WriteCsv(p) PROVE RunInv'
    <2>1. Parts' /\ RunTypes'
      BY <1>8, WrittenRow
    <2>2. UNCHANGED <<attempts, runs, report, status>>
      BY <1>8 DEF WriteCsv
    <2>3. CompletedRan' /\ CompletedRunPassed'
      BY <2>2, CompletesNone
    <2> QED
      BY <2>1, <2>3 DEF RunInv, Parts
  <1>9. ASSUME NEW p \in Pods, NEW passed \in BOOLEAN, Compare(p, passed) PROVE RunInv'
    <2>1. /\ Parts' /\ RunTypes'
          /\ \A r \in Runs : report[r] # None => report'[r] = report[r]
      BY <1>9, ComparedRun
    <2>2. UNCHANGED <<attempts, runs, status>>
      BY <1>9 DEF Compare
    <2>3. CompletedRan' /\ CompletedRunPassed'
      BY <2>1, <2>2, CompletesNone
    <2> QED
      BY <2>1, <2>3 DEF RunInv, Parts
  <1>10. ASSUME NEW p \in Pods, Finalize(p) PROVE RunInv'
    BY <1>10, Finalized
  <1>11. ASSUME NEW j \in Deployments, NEW s \in {"pending", "failed", "stopped"}, Overwrite(j, s)
         PROVE  RunInv'
    <2>1. UNCHANGED <<attempts, runs, work, task, report, csv, baseline>>
      BY <1>11 DEF Overwrite, queueVars, s3Vars
    <2>2. /\ status' \in [Deployments -> JobStatus]
          /\ \A d \in Deployments : status'[d] = "completed" => status[d] = "completed"
      BY <1>1, <1>11 DEF Overwrite, RunTypes, JobStatus
    <2> QED
      BY <1>1, <2>1, <2>2, StatusOnly DEF RunTypes
  <1>12. ASSUME NEW b \in Baselines, Promote(b) PROVE RunInv'
    BY <1>1, <1>12, StatusOnly DEF Promote, queueVars, RunTypes
  <1>13. ASSUME UNCHANGED harnessVars PROVE RunInv'
    BY <1>1, <1>13, StatusOnly DEF harnessVars, queueVars, s3Vars, RunTypes
  <1> QED
    BY <1>2, <1>3, <1>4, <1>5, <1>6, <1>7, <1>8, <1>9, <1>10, <1>11, <1>12, <1>13
       DEF HarnessNext, TaskStep

LEMMA RunInvariance == HarnessSpec => []RunInv
  BY RunInvInit, RunInvStep, PTL DEF HarnessSpec

\* A job completes only with a run that passed, and that run is the one of its
\* newest attempt, for any number of pods, jobs, attempts and interventions.
THEOREM CompletedPassed == HarnessSpec => []CompletedRunPassed
  BY RunInvariance, PTL DEF RunInv

\* However the runs of any number of pods read and write the CSV over each other, a
\* summary in a run's row is that of the run's report.
THEOREM SummariesTruthful == HarnessSpec => []SummaryMatchesReport
  <1>1. RunInv => SummaryMatchesReport
    BY DEF RunInv, TablesTruthful, Truthful, SummaryMatchesReport
  <1> QED
    BY <1>1, RunInvariance, PTL
-----------------------------------------------------------------------------
(* The lifecycle of a job. *)

\* A job that was never put into the queue was never claimed.
Submitted == \A d \in Deployments : status[d] = "absent" => attempts[d] = 0

LEMMA SubmittedStep == RunInv /\ Submitted /\ [HarnessNext]_harnessVars => Submitted'
  <1> SUFFICES ASSUME RunInv, Submitted, [HarnessNext]_harnessVars, NEW d \in Deployments,
                      status'[d] = "absent"
               PROVE  attempts'[d] = 0
    BY DEF Submitted
  <1> USE DEF RunInv, RunTypes, Submitted
  <1>1. ASSUME NEW p \in Pods, StartupStep(p), UNCHANGED attempts PROVE attempts'[d] = 0
    BY <1>1 DEF StartupStep, StartPod, Upgrade, LookUp, InsertJob, StartManager, CacheApp, Raises
  <1>2. ASSUME NEW p \in Pods, NEW j \in Deployments, Claim(p, j) PROVE attempts'[d] = 0
    BY <1>2 DEF Claim
  <1>3. ASSUME NEW p \in Pods, Finalize(p) \/ Fail(p) PROVE attempts'[d] = 0
    <2>1. CASE Finalize(p)
      BY <2>1 DEF Finalize, Record, Outcome
    <2>2. CASE Fail(p)
      BY <2>2 DEF Fail, Record
    <2> QED
      BY <1>3, <2>1, <2>2
  <1>4. ASSUME NEW p \in Pods, WriteStopped(p) PROVE attempts'[d] = 0
    BY <1>4 DEF WriteStopped
  <1>5. ASSUME NEW j \in Deployments, NEW s \in {"pending", "failed", "stopped"}, Overwrite(j, s)
        PROVE  attempts'[d] = 0
    BY <1>5 DEF Overwrite, queueVars
  <1>6. ASSUME UNCHANGED <<status, attempts>> PROVE attempts'[d] = 0
    BY <1>6
  <1> QED
    BY <1>1, <1>2, <1>3, <1>4, <1>5, <1>6 DEF HarnessNext, Starts, Crash, TaskStep, Checkpoint,
       CallFromTask, Abandon, FindStopped, Generate, Compare, ReadCsv, WriteCsv, Promote,
       harnessVars, queueVars

\* The runs in the executors, the lifecycle's live tickets.
Live == UNION {Range(work[p]) : p \in Pods}

LEMMA LiveRun ==
  ASSUME RunTypes
  PROVE  \A r : r \in Live <=> \E p \in Pods : \E i \in 1..Len(work[p]) : r = work[p][i]
  <1>1. \A p \in Pods : DOMAIN work[p] = 1..Len(work[p])
    BY DEF RunTypes
  <1> QED
    BY <1>1 DEF Live, Range

\* A task that ends leaves the others' runs, and no other holds its own.
LEMMA EndedLive ==
  ASSUME RunInv, RunInv', NEW p \in Pods, work[p] # <<>>, Finish(p)
  PROVE  Live' = Live \ {Run(p)}
  <1>1. work \in [Pods -> Seq(Runs)] /\ work[p] \in Seq(Runs) /\ RunTypes /\ RunTypes'
    BY DEF RunInv, RunTypes
  <1>2. /\ Len(Tail(work[p])) = Len(work[p]) - 1 /\ Len(work[p]) \in Nat
        /\ \A i \in 1..Len(Tail(work[p])) : Tail(work[p])[i] = work[p][i + 1]
    BY <1>1, HeadTailProperties
  <1>3. work'[p] = Tail(work[p]) /\ \A q \in Pods \ {p} : work'[q] = work[q]
    BY <1>1 DEF Finish
  <1>4. 1 \in 1..Len(work[p]) /\ Run(p) = work[p][1]
    BY <1>1, RunningRun
  <1>5. \A r : r \in Live' <=> \E q \in Pods : \E i \in 1..Len(work'[q]) : r = work'[q][i]
    <2>1. \A q \in Pods : DOMAIN work'[q] = 1..Len(work'[q])
      BY <1>1 DEF RunTypes
    <2> QED
      BY <2>1 DEF Live, Range
  <1>6. ASSUME NEW r \in Live' PROVE r \in Live /\ r # Run(p)
    <2>0. PICK q \in Pods : \E i \in 1..Len(work'[q]) : r = work'[q][i]
      BY <1>5
    <2>1. PICK i \in 1..Len(work'[q]) : r = work'[q][i]
      BY <2>0
    <2>2. CASE q = p
      <3>0. i \in 1..Len(Tail(work[p])) /\ r = Tail(work[p])[i]
        BY <1>3, <2>1, <2>2
      <3>1. i + 1 \in 1..Len(work[p]) /\ r = work[p][i + 1] /\ i + 1 # 1
        BY <1>2, <3>0
      <3>2. r # Run(p)
        <4>1. PICK k \in 1..Len(work[p]) : k = i + 1
          BY <3>1
        <4>2. work[p][k] = work[p][1] => k = 1
          BY <1>4, <4>1 DEF RunInv, HeldOnce
        <4> QED
          BY <1>4, <3>1, <4>1, <4>2
      <3> QED
        BY <1>1, <3>1, <3>2, LiveRun
    <2>3. CASE q # p
      <3>1. i \in 1..Len(work[q]) /\ r = work[q][i]
        BY <1>3, <2>1, <2>3
      <3>2. r # Run(p)
        BY <1>4, <2>3, <3>1 DEF RunInv, HeldOnce
      <3> QED
        BY <1>1, <3>1, <3>2, LiveRun
    <2> QED
      BY <2>2, <2>3
  <1>7. ASSUME NEW r \in Live, r # Run(p) PROVE r \in Live'
    <2>0. PICK q \in Pods : \E i \in 1..Len(work[q]) : r = work[q][i]
      BY <1>1, LiveRun
    <2>1. PICK i \in 1..Len(work[q]) : r = work[q][i]
      BY <2>0
    <2>2. CASE q = p
      <3>1. i - 1 \in 1..Len(work'[p]) /\ r = work'[p][i - 1]
        BY <1>2, <1>3, <1>4, <1>7, <2>1, <2>2
      <3> QED
        BY <1>5, <3>1
    <2>3. CASE q # p
      BY <1>3, <1>5, <2>1, <2>3
    <2> QED
      BY <2>2, <2>3
  <1> QED
    BY <1>6, <1>7

\* The holder of the newest ticket records an outcome.
LEMMA RecordImplements ==
  ASSUME RunInv, RunInv', NEW p \in Pods, work[p] # <<>>, Finish(p), UNCHANGED attempts,
         NEW s \in {"completed", "failed"}, NEW run \in BOOLEAN, OwnsRow(Run(p)), s = "completed" => run,
         status' = [status EXCEPT ![Run(p).job] = s],
         runs' = IF run THEN [runs EXCEPT ![Run(p).job] = Run(p).attempt_count] ELSE runs
  PROVE  Lifecycle!Next
  <1>1. RunTypes
    BY DEF RunInv
  <1>2. 1 \in 1..Len(work[p]) /\ Run(p) = work[p][1]
    BY <1>1, RunningRun
  <1>3. Run(p) \in Live
    BY <1>1, <1>2, LiveRun
  <1>4. Live' = Live \ {Run(p)}
    BY EndedLive
  <1>5. Lifecycle!Record(Run(p), s, run)
    BY <1>3, <1>4 DEF Lifecycle!Record, Live, OwnsRow, Superseded
  <1> QED
    BY <1>3, <1>5 DEF Lifecycle!Next, Live

\* Whatever writes over statuses and drops tickets is an Overwrite.
LEMMA OverwriteImplements ==
  ASSUME RunInv', Live' \subseteq Live, UNCHANGED <<attempts, runs>>,
         \A d \in Deployments : \/ status'[d] = status[d]
                                \/ status[d] # "absent" /\ status'[d] \in {"pending", "failed", "stopped"}
  PROVE  Lifecycle!Next
  <1>1. DOMAIN status' = Deployments
    BY DEF RunInv, RunTypes
  <1> QED
    BY <1>1 DEF Lifecycle!Next, Lifecycle!Overwrite, Live

LEMMA HarnessImplements ==
  RunInv /\ RunInv' /\ Submitted /\ [HarnessNext]_harnessVars => [Lifecycle!Next]_(Lifecycle!vars)
  <1> SUFFICES ASSUME RunInv, RunInv', Submitted, [HarnessNext]_harnessVars
               PROVE  Lifecycle!Next
    OBVIOUS
  <1>1. RunTypes
    BY DEF RunInv
  <1>2. ASSUME UNCHANGED work PROVE Live' = Live
    BY <1>2 DEF Live
  <1>3. ASSUME UNCHANGED <<status, attempts, runs, work>> PROVE Lifecycle!Next
    BY <1>2, <1>3, OverwriteImplements
  <1>4. ASSUME NEW p \in Pods, Starts(p) PROVE Lifecycle!Next
    <2>1. UNCHANGED <<attempts, runs, work>>
      BY <1>4 DEF Starts, queueVars
    <2>2. CASE UNCHANGED status
      BY <1>3, <2>1, <2>2
    <2>3. CASE \E t \in Thread : InsertJob(p, t)
      <3>1. status' = [status EXCEPT ![version[p]] = IF @ = "absent" THEN "pending" ELSE @]
        BY <2>3 DEF InsertJob
      <3>2. CASE version[p] \in Deployments /\ status[version[p]] = "absent"
        <4>1. status' = [status EXCEPT ![version[p]] = "pending"]
          BY <3>1, <3>2
        <4>2. Lifecycle!Submit(version[p])
          BY <1>2, <2>1, <3>2, <4>1 DEF Lifecycle!Submit, Live
        <4> QED
          BY <3>2, <4>2 DEF Lifecycle!Next
      <3>3. CASE ~(version[p] \in Deployments /\ status[version[p]] = "absent")
        <4>1. status' = status
          BY <1>1, <3>1, <3>3 DEF RunTypes
        <4> QED
          BY <1>3, <2>1, <4>1
      <3> QED
        BY <3>2, <3>3
    <2> QED
      BY <1>4, <2>2, <2>3 DEF Starts, StartupStep, StartPod, Upgrade, LookUp, StartManager, CacheApp, Raises
  <1>5. ASSUME NEW p \in Pods, Crash(p) PROVE Lifecycle!Next
    <2>1. UNCHANGED <<status, attempts, runs>> /\ work' = [work EXCEPT ![p] = <<>>]
      BY <1>5 DEF Crash
    <2>2. work \in [Pods -> Seq(Runs)]
      BY <1>1 DEF RunTypes
    <2>3. \A q \in Pods : Range(work'[q]) \subseteq Range(work[q])
      <3>1. work'[p] = <<>> /\ DOMAIN <<>> = {} /\ \A q \in Pods \ {p} : work'[q] = work[q]
        BY <2>1, <2>2
      <3> QED
        BY <3>1 DEF Range
    <2>4. Live' \subseteq Live
      BY <2>3 DEF Live
    <2> QED
      BY <2>1, <2>4, OverwriteImplements
  <1>6. ASSUME NEW p \in Pods, NEW j \in Deployments, Claim(p, j) PROVE Lifecycle!Next
    <2> DEFINE r == [job |-> j, attempt_count |-> attempts[j] + 1]
    <2>1. /\ status[j] = "pending" /\ status' = [status EXCEPT ![j] = "running"]
          /\ attempts' = [attempts EXCEPT ![j] = @ + 1] /\ UNCHANGED runs
          /\ work' = [work EXCEPT ![p] = Append(work[p], r)] /\ attempts[j] < MaxAttempts
      BY <1>6 DEF Claim
    <2>2. /\ work \in [Pods -> Seq(Runs)] /\ work[p] \in Seq(Runs) /\ r \in Runs
      <3>1. work \in [Pods -> Seq(Runs)] /\ attempts \in [Deployments -> 0..MaxAttempts]
        BY <1>1 DEF RunTypes
      <3>2. r \in Runs
        BY <2>1, <3>1, HarnessAssumption DEF Runs
      <3> QED
        BY <3>1, <3>2
    <2> HIDE DEF r
    <2>3. Range(Append(work[p], r)) = Range(work[p]) \cup {r}
      <3>1. /\ Append(work[p], r) \in Seq(Runs) /\ Len(Append(work[p], r)) = Len(work[p]) + 1
            /\ \A i \in 1..Len(work[p]) : Append(work[p], r)[i] = work[p][i]
            /\ Append(work[p], r)[Len(work[p]) + 1] = r /\ Len(work[p]) \in Nat
        BY <2>2, AppendProperties
      <3>2. DOMAIN Append(work[p], r) = 1..(Len(work[p]) + 1) /\ DOMAIN work[p] = 1..Len(work[p])
        BY <2>2, <3>1, LenProperties
      <3> QED
        BY <3>1, <3>2 DEF Range
    <2>4. work'[p] = Append(work[p], r) /\ \A q \in Pods \ {p} : work'[q] = work[q]
      BY <2>1, <2>2
    <2>5. Live' = Live \cup {r}
      BY <2>3, <2>4 DEF Live
    <2>6. Lifecycle!Claim(j)
      BY <2>1, <2>5 DEF Lifecycle!Claim, Live, r
    <2> QED
      BY <2>6 DEF Lifecycle!Next
  <1>7. ASSUME NEW p \in Pods, work[p] # <<>>, Finish(p), UNCHANGED <<attempts, runs>>,
               \/ UNCHANGED status
               \/ status' = [status EXCEPT ![Run(p).job] = "stopped"]
        PROVE  Lifecycle!Next
    <2>1. 1 \in 1..Len(work[p]) /\ Run(p) = work[p][1] /\ Run(p) \in Runs /\ Run(p).job \in Deployments
      BY <1>1, <1>7, RunningRun
    <2>2. Run(p).attempt_count \in 1..MaxAttempts /\ Run(p).attempt_count <= attempts[Run(p).job]
      BY <2>1, RunsType DEF RunInv, GivenOut
    <2>3. status[Run(p).job] # "absent"
      BY <1>1, <2>1, <2>2 DEF Submitted, RunTypes
    <2>4. Live' \subseteq Live
      BY <1>7, EndedLive
    <2> QED
      BY <1>1, <1>7, <2>1, <2>3, <2>4, OverwriteImplements DEF RunTypes
  <1>8. ASSUME NEW p \in Pods, Abandon(p) \/ WriteStopped(p) PROVE Lifecycle!Next
    BY <1>7, <1>8 DEF Abandon, WriteStopped, Running
  <1>9. ASSUME NEW p \in Pods, Fail(p) PROVE Lifecycle!Next
    <2>1. /\ work[p] # <<>> /\ Finish(p) /\ UNCHANGED attempts
          /\ Record(p, "failed", runs[Run(p).job])
      BY <1>9 DEF Fail, Running
    <2>2. CASE UNCHANGED <<status, runs>>
      BY <1>7, <2>1, <2>2
    <2>3. CASE /\ OwnsRow(Run(p)) /\ status' = [status EXCEPT ![Run(p).job] = "failed"]
               /\ runs' = [runs EXCEPT ![Run(p).job] = runs[Run(p).job]]
      <3>1. runs' = IF FALSE THEN [runs EXCEPT ![Run(p).job] = Run(p).attempt_count] ELSE runs
        BY <1>1, <2>3 DEF RunTypes
      <3>2. "failed" \in {"completed", "failed"} /\ FALSE \in BOOLEAN /\ ("failed" = "completed" => FALSE)
        OBVIOUS
      <3> QED
        BY <2>1, <2>3, <3>1, <3>2, RecordImplements
    <2> QED
      BY <2>1, <2>2, <2>3 DEF Record
  <1>10. ASSUME NEW p \in Pods, Finalize(p) PROVE Lifecycle!Next
    <2>1. /\ work[p] # <<>> /\ Finish(p) /\ UNCHANGED attempts
          /\ Record(p, Outcome(Run(p)), Run(p).attempt_count)
      BY <1>10 DEF Finalize, Running
    <2>2. CASE UNCHANGED <<status, runs>>
      BY <1>7, <2>1, <2>2
    <2>3. CASE /\ OwnsRow(Run(p)) /\ status' = [status EXCEPT ![Run(p).job] = Outcome(Run(p))]
               /\ runs' = [runs EXCEPT ![Run(p).job] = Run(p).attempt_count]
      <3>1. Outcome(Run(p)) \in {"completed", "failed"} /\ TRUE \in BOOLEAN
        BY DEF Outcome
      <3>2. runs' = IF TRUE THEN [runs EXCEPT ![Run(p).job] = Run(p).attempt_count] ELSE runs
        BY <2>3
      <3> QED
        BY <2>1, <2>3, <3>1, <3>2, RecordImplements
    <2> QED
      BY <2>1, <2>2, <2>3 DEF Record
  <1>11. ASSUME NEW j \in Deployments, NEW s \in {"pending", "failed", "stopped"}, Overwrite(j, s)
         PROVE  Lifecycle!Next
    BY <1>1, <1>2, <1>11, OverwriteImplements DEF Overwrite, queueVars, RunTypes
  <1>12. ASSUME NEW p \in Pods, NEW passed \in BOOLEAN, \/ Checkpoint(p) \/ FindStopped(p) \/ Generate(p)
                                \/ Compare(p, passed) \/ ReadCsv(p) \/ WriteCsv(p)
         PROVE  Lifecycle!Next
    BY <1>3, <1>12 DEF Checkpoint, CallFromTask, FindStopped, Generate, Compare, ReadCsv, WriteCsv, queueVars
  <1>13. ASSUME NEW b \in Baselines, Promote(b) PROVE Lifecycle!Next
    BY <1>3, <1>13 DEF Promote, queueVars
  <1>14. ASSUME UNCHANGED harnessVars PROVE Lifecycle!Next
    BY <1>3, <1>14 DEF harnessVars, queueVars
  <1> QED
    BY <1>4, <1>5, <1>6, <1>8, <1>9, <1>10, <1>11, <1>12, <1>13, <1>14 DEF HarnessNext, TaskStep

\* Pods that start, manage their jobs with one manager or two, run them and crash
\* keep the lifecycle that the queue promises, whatever their number.
THEOREM HarnessRefinement == HarnessSpec => KeepsLifecycle
  <1>1. HarnessInit => Lifecycle!Init /\ Submitted
    <2> SUFFICES ASSUME HarnessInit PROVE Lifecycle!Init /\ Submitted
      OBVIOUS
    <2>1. \A p \in Pods : work[p] = <<>> /\ DOMAIN <<>> = {}
      BY DEF HarnessInit
    <2>2. \A p \in Pods : Range(work[p]) = {}
      BY <2>1 DEF Range
    <2> QED
      BY <2>2 DEF HarnessInit, StartupInit, Submitted, Lifecycle!Init
  <1>2. HarnessSpec => []Submitted
    BY <1>1, SubmittedStep, RunInvariance, PTL DEF HarnessSpec
  <1>3. HarnessSpec => Lifecycle!Spec
    BY <1>1, <1>2, HarnessImplements, RunInvariance, PTL DEF HarnessSpec, Lifecycle!Spec
  <1> QED
    BY <1>3 DEF KeepsLifecycle
-----------------------------------------------------------------------------
(* A late start, and the types. *)

\* While a pod's main thread has not started its manager the pod has none, and
\* none of its executor's threads calls create_flask_app; it never has more claimed
\* jobs than managers.
Young(p) ==
  call[p]["main"] \in Beginning => managers[p] = 0 /\ call[p]["task"] = "out" /\ ~cached[p]
WorkInv == \A p \in Pods : Young(p) /\ Len(work[p]) <= managers[p]

\* Every row, read or written, is of a run that was generated, and so is every
\* report; the run that is recorded with a job has a report.
PastGenerating(p) == task[p].pc \notin {"generating", "stopping"}
FilesInv ==
  /\ generated \subseteq Runs /\ overwrites \in 0..MaxOverwrites
  /\ DOMAIN csv \subseteq generated /\ \A p \in Pods : DOMAIN task[p].csv \subseteq generated
  /\ \A p \in Pods : IF work[p] = <<>> THEN task[p] = NewTask
                     ELSE PastGenerating(p) => Run(p) \in generated
  /\ \A r \in Runs : report[r] # None => r \in generated
  /\ \A d \in Deployments : runs[d] # 0 => report[[job |-> d, attempt_count |-> runs[d]]] # None

LEMMA WorkInvInit == HarnessInit => WorkInv
  <1> SUFFICES ASSUME HarnessInit, NEW p \in Pods PROVE Young(p) /\ Len(work[p]) <= managers[p]
    BY DEF WorkInv
  <1>1. work[p] = <<>> /\ managers[p] = 0 /\ call[p] = NoCall
    BY DEF HarnessInit, StartupInit
  <1>2. Len(work[p]) = 0
    BY <1>1
  <1> QED
    BY <1>1, <1>2 DEF Young, Beginning, NoCall, Thread

\* The steps of create_flask_app: a manager is there before the call ends, and an
\* error in the main thread comes while there is none.
LEMMA StartsWork ==
  ASSUME StartupInv, WorkInv, NEW p \in Pods, StartupStep(p), UNCHANGED work
  PROVE  WorkInv'
  <1>1. /\ call \in [Pods -> [Thread -> CallPC]] /\ cached \in [Pods -> BOOLEAN]
        /\ managers \in [Pods -> Nat]
    BY DEF StartupInv, ThreadsTypeOK
  <1>2. "main" \in Thread /\ "task" \in Thread /\ \A t \in Thread : t \in {"main", "task"}
    BY DEF Thread
  <1>3. \A q \in Pods : Young(q) /\ Len(work'[q]) <= managers[q]
    BY DEF WorkInv
  <1>4. ASSUME NEW d \in Deployments, StartPod(p, d) PROVE WorkInv'
    <2>1. managers[p] = 0 /\ ~cached[p] /\ call[p] = NoCall
      BY <1>4 DEF StartPod, StartupInv
    <2>2. /\ call'[p]["task"] = "out" /\ \A q \in Pods \ {p} : call'[q] = call[q]
      BY <1>1, <1>2, <1>4, <2>1 DEF StartPod, Goes, NoCall
    <2> QED
      BY <1>3, <1>4, <2>1, <2>2 DEF StartPod, WorkInv, Young
  <1>5. ASSUME NEW t \in Thread, NEW pc \in CallPC, Goes(p, t, pc), UNCHANGED <<cached, managers>>,
               call[p][t] \in Beginning, t = "main" => pc \in Beginning
        PROVE  WorkInv'
    <2>1. /\ call'[p][t] = pc /\ \A u \in Thread \ {t} : call'[p][u] = call[p][u]
          /\ \A q \in Pods \ {p} : call'[q] = call[q]
      BY <1>1, <1>5 DEF Goes
    <2>2. Young(p)'
      <3>1. CASE t = "main"
        BY <1>2, <1>3, <1>5, <2>1, <3>1 DEF Young, Beginning
      <3>2. CASE t = "task"
        BY <1>2, <1>3, <1>5, <2>1, <3>2 DEF Young, Beginning
      <3> QED
        BY <1>2, <3>1, <3>2
    <2> QED
      BY <1>3, <1>5, <2>1, <2>2 DEF WorkInv, Young
  <1>6. ASSUME NEW t \in Thread, Upgrade(p, t) \/ LookUp(p, t) \/ InsertJob(p, t) PROVE WorkInv'
    BY <1>5, <1>6 DEF Upgrade, LookUp, InsertJob, CallPC, Beginning
  <1>7. ASSUME NEW t \in Thread, Raises(p, t) PROVE WorkInv'
    <2>1. CASE t = "main"
      <3>1. managers[p] = 0
        BY <1>3, <1>7, <2>1 DEF Raises, Young, Beginning
      <3>2. /\ managers'[p] = 0 /\ ~cached'[p] /\ call'[p] = NoCall
            /\ \A q \in Pods \ {p} : UNCHANGED <<managers[q], cached[q], call[q]>>
        BY <1>1, <1>7, <2>1 DEF Raises, Ends
      <3>3. Young(p)'
        BY <1>2, <3>2 DEF Young, NoCall
      <3> QED
        BY <1>3, <3>1, <3>2, <3>3 DEF WorkInv, Young
    <2>2. CASE t = "task"
      BY <1>5, <1>7, <2>2 DEF Raises, CallPC, Beginning
    <2> QED
      BY <1>2, <2>1, <2>2
  <1>8. ASSUME NEW t \in Thread, StartManager(p, t) PROVE WorkInv'
    <2>1. /\ managers'[p] = managers[p] + 1 /\ \A q \in Pods \ {p} : managers'[q] = managers[q]
          /\ call'[p][t] = "cache" /\ \A u \in Thread \ {t} : call'[p][u] = call[p][u]
          /\ \A q \in Pods \ {p} : call'[q] = call[q]
          /\ cached' = cached
      BY <1>1, <1>8 DEF StartManager, Goes
    <2>2. call'[p]["main"] \notin Beginning
      <3>1. CASE t = "main"
        BY <2>1, <3>1 DEF Beginning
      <3>2. CASE t = "task"
        BY <1>2, <1>3, <1>8, <2>1, <3>2 DEF StartManager, Young, Beginning
      <3> QED
        BY <1>2, <3>1, <3>2
    <2>3. Len(work'[p]) <= managers'[p]
      <3>1. Len(work'[p]) <= managers[p] /\ managers[p] \in Nat
        BY <1>1, <1>3
      <3> QED
        BY <2>1, <3>1
    <2> QED
      BY <1>3, <2>1, <2>2, <2>3 DEF WorkInv, Young
  <1>9. ASSUME NEW t \in Thread, CacheApp(p, t) PROVE WorkInv'
    <2>1. /\ call'[p][t] = "out" /\ \A u \in Thread \ {t} : call'[p][u] = call[p][u]
          /\ \A q \in Pods \ {p} : UNCHANGED <<call[q], cached[q]>>
          /\ managers' = managers
      BY <1>1, <1>9 DEF CacheApp, Goes
    <2>2. call'[p]["main"] \notin Beginning
      <3>1. CASE t = "main"
        BY <2>1, <3>1 DEF Beginning
      <3>2. CASE t = "task"
        BY <1>2, <1>3, <1>9, <2>1, <3>2 DEF CacheApp, Young, Beginning
      <3> QED
        BY <1>2, <3>1, <3>2
    <2> QED
      BY <1>3, <2>1, <2>2 DEF WorkInv, Young
  <1> QED
    BY <1>4, <1>6, <1>7, <1>8, <1>9 DEF StartupStep

LEMMA WorkInvStep == StartupInv /\ RunInv /\ WorkInv /\ [HarnessNext]_harnessVars => WorkInv'
  <1> SUFFICES ASSUME StartupInv, RunInv, WorkInv, [HarnessNext]_harnessVars PROVE WorkInv'
    OBVIOUS
  <1>1. /\ call \in [Pods -> [Thread -> CallPC]] /\ cached \in [Pods -> BOOLEAN]
        /\ managers \in [Pods -> Nat] /\ work \in [Pods -> Seq(Runs)]
    BY DEF StartupInv, ThreadsTypeOK, RunInv, RunTypes
  <1>2. "main" \in Thread /\ "task" \in Thread
    BY DEF Thread
  <1>3. \A q \in Pods : Young(q) /\ Len(work[q]) <= managers[q]
    BY DEF WorkInv
  <1>4. ASSUME NEW p \in Pods, Starts(p) PROVE WorkInv'
    BY <1>4, StartsWork DEF Starts, queueVars
  <1>5. ASSUME NEW p \in Pods, Crash(p) PROVE WorkInv'
    <2>1. /\ managers'[p] = 0 /\ ~cached'[p] /\ call'[p] = NoCall /\ work'[p] = <<>>
          /\ \A q \in Pods \ {p} : UNCHANGED <<managers[q], cached[q], call[q], work[q]>>
      BY <1>1, <1>5 DEF Crash, Ends
    <2>2. Young(p)' /\ Len(work'[p]) = 0
      BY <1>2, <2>1 DEF Young, NoCall
    <2> QED
      BY <1>3, <2>1, <2>2 DEF WorkInv, Young
  <1>6. ASSUME NEW p \in Pods, Checkpoint(p) PROVE WorkInv'
    <2>1. /\ managers[p] > 0 /\ UNCHANGED <<managers, cached, work>>
          /\ call'[p]["main"] = call[p]["main"] /\ \A q \in Pods \ {p} : call'[q] = call[q]
      BY <1>1, <1>2, <1>6 DEF Checkpoint, CallFromTask, Goes, queueVars
    <2>2. Young(p)'
      BY <1>1, <1>3, <2>1 DEF Young
    <2> QED
      BY <1>3, <2>1, <2>2 DEF WorkInv, Young
  <1>7. ASSUME NEW p \in Pods, NEW j \in Deployments, Claim(p, j) PROVE WorkInv'
    <2>1. /\ UNCHANGED startupVars /\ \A q \in Pods \ {p} : work'[q] = work[q]
          /\ Len(work'[p]) = Len(work[p]) + 1 /\ Len(work[p]) < managers[p]
      BY <1>1, <1>7 DEF Claim, ExecutorMaxWorkers
    <2>2. Len(work[p]) \in Nat /\ managers[p] \in Nat
      BY <1>1
    <2> QED
      BY <1>3, <2>1, <2>2 DEF WorkInv, Young, startupVars
  <1>8. ASSUME NEW p \in Pods, work[p] # <<>>, Finish(p), UNCHANGED startupVars PROVE WorkInv'
    <2>1. /\ Len(work'[p]) = Len(work[p]) - 1 /\ \A q \in Pods \ {p} : work'[q] = work[q]
      BY <1>1, <1>8 DEF Finish
    <2>2. Len(work[p]) \in Nat /\ managers[p] \in Nat
      BY <1>1
    <2> QED
      BY <1>3, <1>8, <2>1, <2>2 DEF WorkInv, Young, startupVars
  <1>9. ASSUME UNCHANGED <<startupVars, work>> PROVE WorkInv'
    BY <1>3, <1>9 DEF WorkInv, Young, startupVars
  <1>10. ASSUME NEW p \in Pods, Abandon(p) \/ WriteStopped(p) \/ Finalize(p) \/ Fail(p) PROVE WorkInv'
    BY <1>8, <1>10 DEF Abandon, WriteStopped, Finalize, Fail, Running
  <1>11. ASSUME NEW p \in Pods, \/ FindStopped(p) \/ Generate(p) \/ \E passed \in BOOLEAN : Compare(p, passed)
                                \/ ReadCsv(p) \/ WriteCsv(p)
         PROVE  WorkInv'
    BY <1>9, <1>11 DEF FindStopped, Generate, Compare, ReadCsv, WriteCsv
  <1>12. ASSUME \/ \E j \in Deployments, s \in {"pending", "failed", "stopped"} : Overwrite(j, s)
                \/ \E b \in Baselines : Promote(b)
                \/ UNCHANGED harnessVars
         PROVE  WorkInv'
    BY <1>9, <1>12 DEF Overwrite, Promote, harnessVars, queueVars
  <1> QED
    BY <1>4, <1>5, <1>6, <1>7, <1>10, <1>11, <1>12 DEF HarnessNext, TaskStep

LEMMA FilesInvInit == HarnessInit => FilesInv
  BY HarnessAssumption DEF HarnessInit, FilesInv, NoRows, NewTask

\* Nothing that FilesInv is about changes but a pod's task, its work or both.
LEMMA FilesKept ==
  ASSUME FilesInv, NEW p \in Pods, \A q \in Pods \ {p} : UNCHANGED <<task[q], work[q]>>,
         UNCHANGED <<csv, generated, report, runs>>, overwrites' \in 0..MaxOverwrites,
         DOMAIN task'[p].csv \subseteq generated,
         IF work'[p] = <<>> THEN task'[p] = NewTask
         ELSE task'[p].pc \notin {"generating", "stopping"} => Run(p)' \in generated
  PROVE  FilesInv'
  BY DEF FilesInv, PastGenerating, Run

LEMMA FilesFinish ==
  ASSUME RunTypes, FilesInv, NEW p \in Pods, Finish(p),
         UNCHANGED <<csv, generated, report, runs, overwrites>>
  PROVE  FilesInv'
  <1>1. /\ task'[p] = NewTask /\ \A q \in Pods \ {p} : UNCHANGED <<task[q], work[q]>>
    BY DEF RunTypes, Finish
  <1>2. task'[p].pc = "generating" /\ DOMAIN task'[p].csv = {}
    BY <1>1 DEF NewTask, NoRows
  <1> QED
    BY <1>1, <1>2, FilesKept DEF FilesInv

LEMMA FilesInvStep == RunInv /\ FilesInv /\ [HarnessNext]_harnessVars => FilesInv'
  <1> SUFFICES ASSUME RunInv, FilesInv, [HarnessNext]_harnessVars PROVE FilesInv'
    OBVIOUS
  <1>1. RunTypes /\ task \in [Pods -> [pc: TaskPC, csv: Tables]] /\ work \in [Pods -> Seq(Runs)]
    BY DEF RunInv, RunTypes
  <1>2. ASSUME NEW p \in Pods, Starts(p) PROVE FilesInv'
    BY <1>2 DEF Starts, queueVars, s3Vars, FilesInv, PastGenerating, Run
  <1>3. ASSUME NEW p \in Pods, Crash(p) PROVE FilesInv'
    <2>1. /\ task'[p] = NewTask /\ work'[p] = <<>>
          /\ \A q \in Pods \ {p} : UNCHANGED <<task[q], work[q]>>
      BY <1>1, <1>3 DEF Crash
    <2>2. DOMAIN task'[p].csv = {}
      BY <2>1 DEF NewTask, NoRows
    <2> QED
      BY <1>3, <2>1, <2>2, FilesKept DEF Crash, s3Vars, FilesInv
  <1>4. ASSUME NEW p \in Pods, NEW j \in Deployments, Claim(p, j) PROVE FilesInv'
    <2> DEFINE r == [job |-> j, attempt_count |-> attempts[j] + 1]
    <2>1. r \in Runs
      BY <1>1, <1>4, HarnessAssumption DEF Claim, RunTypes, Runs
    <2>2. /\ work' = [work EXCEPT ![p] = Append(@, r)]
          /\ UNCHANGED <<csv, generated, report, runs, overwrites, task>>
      BY <1>4 DEF Claim, s3Vars
    <2> HIDE DEF r
    <2>3. /\ work'[p] = Append(work[p], r) /\ work[p] \in Seq(Runs)
          /\ \A q \in Pods \ {p} : work'[q] = work[q]
      BY <1>1, <2>2
    <2>4. work'[p] # <<>> /\ (work[p] # <<>> => Head(work'[p]) = Head(work[p]))
      BY <2>1, <2>3
    <2>5. PastGenerating(p) => Run(p)' \in generated
      <3>1. CASE work[p] = <<>>
        BY <3>1 DEF FilesInv, PastGenerating, NewTask
      <3>2. CASE work[p] # <<>>
        BY <2>4, <3>2 DEF FilesInv, Run
      <3> QED
        BY <3>1, <3>2
    <2> QED
      BY <2>2, <2>3, <2>4, <2>5, FilesKept DEF FilesInv, PastGenerating
  <1>5. ASSUME NEW p \in Pods, Checkpoint(p) PROVE FilesInv'
    BY <1>5 DEF Checkpoint, queueVars, s3Vars, FilesInv, PastGenerating, Run
  <1>6. ASSUME NEW p \in Pods, Abandon(p) \/ WriteStopped(p) PROVE FilesInv'
    BY <1>1, <1>6, FilesFinish DEF Abandon, WriteStopped, s3Vars
  <1>7. ASSUME NEW p \in Pods, FindStopped(p) PROVE FilesInv'
    <2>1. /\ task'[p] = [task[p] EXCEPT !.pc = "stopping"] /\ work[p] # <<>>
          /\ \A q \in Pods \ {p} : task'[q] = task[q]
      BY <1>1, <1>7 DEF FindStopped, TaskGoes, Running
    <2>2. task'[p].pc = "stopping" /\ task'[p].csv = task[p].csv
      BY <1>1, <2>1
    <2> QED
      BY <1>7, <2>1, <2>2, FilesKept DEF FindStopped, s3Vars, FilesInv
  <1>8. ASSUME NEW p \in Pods, Generate(p) PROVE FilesInv'
    <2>1. /\ generated' = generated \cup {Run(p)} /\ work[p] # <<>> /\ UNCHANGED <<work, report, runs, overwrites>>
          /\ task'[p] = [task[p] EXCEPT !.pc = "comparing"] /\ \A q \in Pods \ {p} : task'[q] = task[q]
      BY <1>1, <1>8 DEF Generate, TaskGoes, Running
    <2>2. Run(p) \in Runs
      BY <1>1, <2>1, RunningRun
    <2>3. DOMAIN csv' \subseteq DOMAIN csv \cup {Run(p)}
      BY <1>8 DEF Generate
    <2>4. task'[p].csv = task[p].csv
      BY <1>1, <2>1
    <2>5. Run(p)' = Run(p) /\ \A q \in Pods \ {p} : Run(q)' = Run(q)
      BY <2>1 DEF Run
    <2>6. ASSUME NEW q \in Pods
          PROVE  IF work'[q] = <<>> THEN task'[q] = NewTask
                 ELSE PastGenerating(q)' => Run(q)' \in generated'
      BY <2>1, <2>5 DEF FilesInv, PastGenerating
    <2>7. \A q \in Pods : DOMAIN task'[q].csv \subseteq generated'
      BY <2>1, <2>4 DEF FilesInv
    <2> QED
      BY <2>1, <2>2, <2>3, <2>6, <2>7 DEF FilesInv
  <1>9. ASSUME NEW p \in Pods, NEW passed \in BOOLEAN, Compare(p, passed) PROVE FilesInv'
    <2>1. /\ UNCHANGED <<work, generated, csv, runs, overwrites, baseline>> /\ work[p] # <<>>
          /\ task'[p] = [task[p] EXCEPT !.pc = "reading"] /\ \A q \in Pods \ {p} : task'[q] = task[q]
          /\ task[p].pc = "comparing" /\ baseline # None
      BY <1>1, <1>9 DEF Compare, TaskGoes, Running
    <2>2. task'[p].csv = task[p].csv
      BY <1>1, <2>1
    <2>3. Run(p) \in generated
      BY <2>1 DEF FilesInv, PastGenerating
    <2>4. /\ Run(p) \in Runs /\ report'[Run(p)] # None
          /\ \A r \in Runs \ {Run(p)} : report'[r] = report[r]
      <3>1. Run(p) \in Runs
        BY <1>1, <2>1, RunningRun
      <3>2. [passed |-> passed, baseline |-> baseline] \in Report
        BY <1>1, <2>1 DEF RunTypes, Report
      <3> QED
        BY <1>1, <1>9, <3>1, <3>2, HarnessAssumption DEF Compare, RunTypes
    <2>5. ASSUME NEW q \in Pods
          PROVE  IF work'[q] = <<>> THEN task'[q] = NewTask
                 ELSE PastGenerating(q)' => Run(q)' \in generated'
      BY <2>1, <2>3 DEF FilesInv, PastGenerating, Run
    <2>6. ASSUME NEW d \in Deployments, runs[d] # 0
          PROVE  report'[[job |-> d, attempt_count |-> runs[d]]] # None
      <3>1. [job |-> d, attempt_count |-> runs[d]] \in Runs
        <4>1. runs[d] \in 0..MaxAttempts /\ MaxAttempts \in Nat
          BY <1>1, HarnessAssumption DEF RunTypes
        <4> QED
          BY <2>6, <4>1 DEF Runs
      <3> QED
        BY <2>4, <2>6, <3>1 DEF FilesInv
    <2>7. \A q \in Pods : DOMAIN task'[q].csv \subseteq generated'
      BY <2>1, <2>2 DEF FilesInv
    <2> QED
      BY <2>1, <2>3, <2>4, <2>5, <2>6, <2>7 DEF FilesInv
  <1>10. ASSUME NEW p \in Pods, ReadCsv(p) PROVE FilesInv'
    <2>1. /\ UNCHANGED <<work, generated, csv, report, runs, overwrites>> /\ work[p] # <<>>
          /\ task[p].pc = "reading" /\ \A q \in Pods \ {p} : task'[q] = task[q]
          /\ \/ task'[p] = [pc |-> "writing", csv |-> csv]
             \/ task'[p] = [task[p] EXCEPT !.pc = "finalizing"]
      BY <1>1, <1>10 DEF ReadCsv, TaskGoes, Running, s3Vars
    <2>2. DOMAIN task'[p].csv \subseteq generated
      <3>1. \/ task'[p].csv = csv
            \/ task'[p].csv = task[p].csv
        BY <1>1, <2>1
      <3> QED
        BY <3>1 DEF FilesInv
    <2>3. Run(p) \in generated /\ Run(p)' = Run(p)
      BY <2>1 DEF FilesInv, PastGenerating, Run
    <2> QED
      BY <2>1, <2>2, <2>3, FilesKept DEF FilesInv
  <1>11. ASSUME NEW p \in Pods, WriteCsv(p) PROVE FilesInv'
    <2>1. /\ UNCHANGED <<work, generated, report, runs, overwrites>> /\ work[p] # <<>>
          /\ task[p].pc = "writing" /\ \A q \in Pods \ {p} : task'[q] = task[q]
          /\ task'[p] = [pc |-> "finalizing", csv |-> NoRows]
          /\ csv' = csv \/ csv' = Summarised(task[p].csv, Run(p))
      BY <1>1, <1>11 DEF WriteCsv, Running
    <2>2. DOMAIN csv' \subseteq generated
      BY <2>1 DEF FilesInv, Summarised
    <2>3. Run(p) \in generated /\ Run(p)' = Run(p)
      BY <2>1 DEF FilesInv, PastGenerating, Run
    <2>4. DOMAIN task'[p].csv = {}
      BY <2>1 DEF NoRows
    <2>5. \A q \in Pods : Run(q)' = Run(q)
      BY <2>1 DEF Run
    <2>6. ASSUME NEW q \in Pods
          PROVE  IF work'[q] = <<>> THEN task'[q] = NewTask
                 ELSE PastGenerating(q)' => Run(q)' \in generated'
      BY <2>1, <2>3, <2>5 DEF FilesInv, PastGenerating
    <2> QED
      BY <2>1, <2>2, <2>4, <2>6 DEF FilesInv
  <1>12. ASSUME NEW p \in Pods, Finalize(p) PROVE FilesInv'
    <2> DEFINE r == Run(p)
    <2>1. /\ work[p] # <<>> /\ task[p].pc = "finalizing" /\ Finish(p)
          /\ UNCHANGED <<report, csv, generated, overwrites>>
          /\ \/ UNCHANGED runs
             \/ runs' = [runs EXCEPT ![r.job] = r.attempt_count]
      BY <1>12 DEF Finalize, Running, s3Vars, Record
    <2>2. r \in Runs /\ r.job \in Deployments /\ report[r] # None
      <3>1. 1 \in 1..Len(work[p]) /\ r = work[p][1] /\ r \in Runs /\ r.job \in Deployments
        BY <1>1, <2>1, RunningRun
      <3> QED
        BY <2>1, <3>1 DEF RunInv, ReportedIfCompared, Compared
    <2>3. r = [job |-> r.job, attempt_count |-> r.attempt_count]
      BY <2>2 DEF Runs
    <2>4. /\ task'[p] = NewTask /\ \A q \in Pods \ {p} : UNCHANGED <<task[q], work[q]>>
      BY <1>1, <2>1 DEF Finish
    <2>5. task'[p].pc = "generating" /\ DOMAIN task'[p].csv = {}
      BY <2>4 DEF NewTask, NoRows
    <2> HIDE DEF r
    <2>6. ASSUME NEW d \in Deployments, runs'[d] # 0
          PROVE  report[[job |-> d, attempt_count |-> runs'[d]]] # None
      <3>1. runs \in [Deployments -> 0..MaxAttempts]
        BY <1>1 DEF RunTypes
      <3>2. CASE UNCHANGED runs
        BY <2>6, <3>2 DEF FilesInv
      <3>3. CASE runs' = [runs EXCEPT ![r.job] = r.attempt_count] /\ d = r.job
        BY <2>2, <2>3, <3>1, <3>3
      <3>4. CASE runs' = [runs EXCEPT ![r.job] = r.attempt_count] /\ d # r.job
        BY <2>2, <2>6, <3>1, <3>4 DEF FilesInv
      <3> QED
        BY <2>1, <3>2, <3>3, <3>4
    <2>7. ASSUME NEW q \in Pods
          PROVE  IF work'[q] = <<>> THEN task'[q] = NewTask
                 ELSE PastGenerating(q)' => Run(q)' \in generated'
      BY <2>1, <2>4, <2>5 DEF FilesInv, PastGenerating, Run
    <2> QED
      BY <2>1, <2>4, <2>5, <2>6, <2>7 DEF FilesInv
  <1>13. ASSUME NEW p \in Pods, Fail(p) PROVE FilesInv'
    <2>1. /\ work[p] # <<>> /\ Finish(p) /\ UNCHANGED <<report, csv, generated, overwrites>>
          /\ \/ UNCHANGED runs
             \/ runs' = [runs EXCEPT ![Run(p).job] = runs[Run(p).job]]
      BY <1>13 DEF Fail, Running, s3Vars, Record
    <2>2. runs' = runs
      BY <1>1, <2>1 DEF RunTypes
    <2> QED
      BY <1>1, <2>1, <2>2, FilesFinish
  <1>14. ASSUME NEW j \in Deployments, NEW s \in {"pending", "failed", "stopped"}, Overwrite(j, s)
         PROVE  FilesInv'
    <2>1. overwrites' \in 0..MaxOverwrites
      BY <1>14, HarnessAssumption DEF Overwrite, FilesInv
    <2> QED
      BY <1>14, <2>1 DEF Overwrite, queueVars, s3Vars, FilesInv, PastGenerating, Run
  <1>15. ASSUME \/ \E b \in Baselines : Promote(b)
                \/ UNCHANGED harnessVars
         PROVE  FilesInv'
    BY <1>15 DEF Promote, harnessVars, queueVars, s3Vars, FilesInv, PastGenerating, Run
  <1> QED
    BY <1>2, <1>3, <1>4, <1>5, <1>6, <1>7, <1>8, <1>9, <1>10, <1>11, <1>12, <1>13, <1>14, <1>15
       DEF HarnessNext, TaskStep

LEMMA HarnessInvariance == HarnessSpec => [](StartupInv /\ RunInv /\ WorkInv /\ FilesInv)
  <1>1. HarnessInit => StartupInv /\ RunInv /\ WorkInv /\ FilesInv
    BY StartupInvInit, RunInvInit, WorkInvInit, FilesInvInit DEF HarnessInit
  <1>2. StartupInv /\ RunInv /\ WorkInv /\ FilesInv /\ [HarnessNext]_harnessVars
          => StartupInv' /\ RunInv' /\ WorkInv' /\ FilesInv'
    BY StartupInvStep, HarnessPodSteps, RunInvStep, WorkInvStep, FilesInvStep
  <1> QED
    BY <1>1, <1>2, PTL DEF HarnessSpec

\* Every variable keeps its shape: above all, a pod has no more claimed jobs than
\* managers, which is what may exceed its one thread, and every row of the CSV,
\* in S3 or read by a task, is of a run that was generated.
THEOREM HarnessTypes == HarnessSpec => []HarnessTypeOK
  <1>1. StartupInv /\ RunInv /\ WorkInv /\ FilesInv => HarnessTypeOK
    <2> SUFFICES ASSUME StartupInv, RunInv, WorkInv, FilesInv PROVE HarnessTypeOK
      OBVIOUS
    <2>1. RunTypes
      BY DEF RunInv
    <2>2. \A table \in Tables : Range(table) \subseteq Report \cup {None}
      BY DEF Tables, Range
    <2>3. \A p \in Pods : task[p].pc \in TaskPC /\ task[p].csv \in Tables
      BY <2>1 DEF RunTypes
    <2>4. StartupTypeOK
      BY <2>1 DEF StartupInv, StartupTypeOK, RunTypes
    <2> QED
      BY <2>1, <2>2, <2>3, <2>4 DEF RunTypes, WorkInv, FilesInv, HarnessTypeOK
  <1> QED
    BY <1>1, HarnessInvariance, PTL

\* Whichever pod, or thread of a pod, comes late to its deployment's job leaves the
\* job as it is, whatever has become of it.
THEOREM LateStarts == HarnessSpec => LateStartChangesNoJob
  <1> DEFINE Late == \A p \in Pods, t \in Thread, d \in Deployments :
                call[p][t] # call'[p][t] /\ status[d] # "absent" => status'[d] = status[d]
  <1>1. RunInv /\ [HarnessNext]_harnessVars => [Late]_<<call, status>>
    <2> SUFFICES ASSUME RunInv, [HarnessNext]_harnessVars, NEW p \in Pods, NEW t \in Thread,
                        NEW d \in Deployments, call[p][t] # call'[p][t], status[d] # "absent"
                 PROVE  status'[d] = status[d]
      OBVIOUS
    <2>1. status \in [Deployments -> JobStatus]
      BY DEF RunInv, RunTypes
    <2>2. \E q \in Pods : Starts(q) \/ Crash(q) \/ Checkpoint(q)
      BY DEF HarnessNext, harnessVars, startupVars, TaskStep, Claim, Overwrite, Promote, Abandon,
         FindStopped, WriteStopped, Generate, Compare, ReadCsv, WriteCsv, Finalize, Fail
    <2>3. PICK q \in Pods : UNCHANGED status \/ \E u \in Thread : InsertJob(q, u)
      BY <2>2 DEF Starts, StartupStep, StartPod, Upgrade, LookUp, StartManager, CacheApp, Raises,
         Crash, Checkpoint, CallFromTask
    <2> QED
      BY <2>1, <2>3 DEF InsertJob
  <1> QED
    BY <1>1, RunInvariance, PTL DEF HarnessSpec, LateStartChangesNoJob
-----------------------------------------------------------------------------
(* The pages of the jobs. *)

FolderIn(folder, r) == RunIn(folder, r, <<>>).path

\* The folder of a run is that of the output and a path of one part; the objects of
\* the run are those below it.
LEMMA RunFolder ==
  ASSUME NEW r \in Runs, NEW folder \in Places
  PROVE  /\ folder.path \o <<"/">> \in Keys /\ RunName[r] \o <<"/">> \in Keys
         /\ FolderIn(folder, r) = (folder.path \o <<"/">>) \o (RunName[r] \o <<"/">>)
         /\ FolderIn(folder, r) = folder.path \o <<"/">> \o RunName[r] \o <<"/">>
         /\ FolderIn(folder, r) \in Keys
         /\ RunIn(folder, r, <<>>) = Place(folder.bucket, FolderIn(folder, r))
  <1>1. folder.path \in Keys /\ RunName[r] \in Keys /\ <<"/">> \in Keys /\ <<>> \in Keys
    BY PathsAssumption, Literals, EmptySeq DEF Keys, Places
  <1>2. folder.path \o <<"/">> \in Keys /\ RunName[r] \o <<"/">> \in Keys
    BY <1>1, PrefixOfConcat
  <1>3. folder.path \o <<"/">> \o RunName[r] \in Keys
    BY <1>1, <1>2, PrefixOfConcat
  <1>4. folder.path \o <<"/">> \o RunName[r] \o <<"/">> \in Keys
    BY <1>1, <1>3, PrefixOfConcat
  <1>5. FolderIn(folder, r) = folder.path \o <<"/">> \o RunName[r] \o <<"/">>
    BY <1>4, ConcatEmptySeq DEF FolderIn, RunIn, Place, Keys
  <1>6. FolderIn(folder, r) = (folder.path \o <<"/">>) \o (RunName[r] \o <<"/">>)
    <2> DEFINE output == folder.path \o <<"/">>
               name == RunName[r]
    <2>1. output \in Seq(Tokens) /\ name \in Seq(Tokens) /\ <<"/">> \in Seq(Tokens)
      BY <1>1, <1>2 DEF Keys
    <2>2. FolderIn(folder, r) = (output \o name) \o <<"/">>
      BY <1>5
    <2> HIDE DEF output, name
    <2>3. FolderIn(folder, r) = output \o (name \o <<"/">>)
      BY <2>1, <2>2, ConcatAssociative
    <2> QED
      BY <2>3 DEF output, name
  <1>7. RunIn(folder, r, <<>>) = Place(folder.bucket, FolderIn(folder, r))
    BY DEF RunIn, FolderIn, Place
  <1> QED
    BY <1>2, <1>4, <1>5, <1>6, <1>7

LEMMA RunFile ==
  ASSUME NEW r \in Runs, NEW folder \in Places, NEW file \in Keys, file # <<>>
  PROVE  LET o == RunIn(folder, r, file)
         IN /\ o \in Places /\ o.bucket = folder.bucket /\ o.path = FolderIn(folder, r) \o file
            /\ o.path # <<>> /\ Last(o.path) = Last(file)
            /\ IsPrefix(FolderIn(folder, r), o.path) /\ RemovePrefix(FolderIn(folder, r), o.path) = file
  <1>1. RunIn(folder, r, file) = Place(folder.bucket, FolderIn(folder, r) \o file) /\ FolderIn(folder, r) \in Keys
    BY RunFolder DEF RunIn
  <1>2. /\ FolderIn(folder, r) \o file \in Keys /\ IsPrefix(FolderIn(folder, r), FolderIn(folder, r) \o file)
        /\ FolderIn(folder, r) \o file # <<>> /\ Last(FolderIn(folder, r) \o file) = Last(file)
        /\ RemovePrefix(FolderIn(folder, r), FolderIn(folder, r) \o file) = file
    BY <1>1, PrefixOfConcat, LastOfConcat, RestOfConcat
  <1> QED
    BY <1>1, <1>2 DEF Place, Places

\* The names of runs are no prefixes of each other, once they are folders.
LEMMA FoldersApart ==
  ASSUME NEW r \in Runs, NEW s \in Runs, NEW folder \in Places,
         IsPrefix(FolderIn(folder, r), FolderIn(folder, s))
  PROVE  r = s
  <1>1. IsPrefix(RunName[r] \o <<"/">>, RunName[s] \o <<"/">>)
    BY RunFolder, PrefixCancelled
  <1>2. RunName[r] = RunName[s]
    BY <1>1, PathsAssumption, OnePart
  <1> QED
    BY <1>2, HarnessAssumption

LEMMA FilesOfRunsKeys ==
  /\ \A file \in RunFiles \cup {ReportFile} : file \in Keys /\ file # <<>>
  /\ <<"/", "input">> \in Keys /\ <<"/", "input">> # <<>>
  BY PlacesAssumption DEF RunFiles, ReportFile, Keys

\* What the runs have written is part of what they may write, which makes a store.
LEMMA StoreIsStore ==
  ASSUME FilesInv, NEW paths \in PathSettings
  PROVE  IsStore(Store(paths))
  <1> DEFINE all == OtherObjects \cup {MetricsCsv(paths)}
                    \cup {RunObject(paths, r, file) : r \in Runs, file \in RunFiles \cup {ReportFile}}
  <1>1. Store(paths) \subseteq all
    BY DEF Store, FilesInv
  <1>2. IsStore(all)
    BY PathsAssumption
  <1> HIDE DEF all
  <1> QED
    BY <1>1, <1>2 DEF IsStore

\* A path is one that is set, or the default.
LEMMA PreparedPath ==
  ASSUME NEW settings \in Settings, NEW default
  PROVE  \/ Configured(settings) = {} /\ Prepared(settings, default) = default
         \/ \E i \in Configured(settings) : Prepared(settings, default) = settings[i] /\ settings[i] \in Places
  <1>1. CASE Configured(settings) = {}
    BY <1>1 DEF Prepared
  <1>2. CASE Configured(settings) # {}
    <2>1. \E i \in Configured(settings) : \A k \in Configured(settings) : i <= k
      <3>1. Configured(settings) \subseteq 1..3 /\ 1..3 = {1, 2, 3}
        BY DEF Configured
      <3>2. CASE 1 \in Configured(settings)
        BY <3>1, <3>2
      <3>3. CASE 1 \notin Configured(settings) /\ 2 \in Configured(settings)
        BY <3>1, <3>3
      <3>4. CASE Configured(settings) = {3}
        BY <3>4
      <3> QED
        BY <1>2, <3>1, <3>2, <3>3, <3>4
    <2>2. Min(Configured(settings)) \in Configured(settings)
      BY <2>1 DEF Min
    <2>3. \A i \in Configured(settings) : settings[i] \in Places
      BY DEF Configured, Settings
    <2> QED
      BY <1>2, <2>2, <2>3 DEF Prepared
  <1> QED
    BY <1>1, <1>2

LEMMA DefaultPaths == InputFolder \in Places /\ OutputFolder \in Places /\ OutputFolder.bucket # Local
  <1>1. HarnessDomain \in Keys
    BY PathsAssumption
  <1>2. HarnessDomain \o <<"/", "input">> \in Keys
    BY <1>1, FilesOfRunsKeys, PrefixOfConcat
  <1> QED
    BY <1>1, <1>2, PlacesAssumption DEF Place, Places, InputFolder, OutputFolder

LEMMA PathPlaces ==
  ASSUME NEW paths \in PathSettings
  PROVE  InputPath(paths) \in Places /\ OutputPath(paths) \in Places
  <1>1. paths.input \in Settings /\ paths.output \in Settings
    BY PathsAssumption
  <1> QED
    BY <1>1, DefaultPaths, PreparedPath DEF InputPath, OutputPath

LEMMA JobIsRow ==
  ASSUME RunTypes, NEW d \in Deployments, NEW paths \in PathSettings
  PROVE  /\ JobOf(d, paths) \in JobRow
         /\ runs[d] # 0 => RecordedRun(d) \in Runs
  <1>1. runs[d] \in 0..MaxAttempts /\ MaxAttempts \in Nat
    BY HarnessAssumption DEF RunTypes
  <1>2. runs[d] # 0 => RecordedRun(d) \in Runs
    BY <1>1 DEF RecordedRun, Runs
  <1>3. InputPath(paths) \in Places /\ OutputPath(paths) \in Places
    BY PathPlaces
  <1>4. (IF runs[d] = 0 THEN <<>> ELSE RunName[RecordedRun(d)]) \in Keys
    BY <1>2, PathsAssumption, EmptySeq DEF Keys
  <1> QED
    BY <1>2, <1>3, <1>4, PathsAssumption DEF JobOf, JobRow, RecordedRun

\* The job's run is looked for in the domain's folder, as the one that is recorded.
LEMMA JobRun ==
  ASSUME RunTypes, NEW d \in Deployments, NEW paths \in PathSettings
  PROVE  RunLocations(JobOf(d, paths)) =
           IF runs[d] = 0 THEN {} ELSE {RunIn(OutputFolder, RecordedRun(d), <<>>)}
  <1> DEFINE job == JobOf(d, paths)
  <1>1. CASE runs[d] = 0
    BY <1>1 DEF JobOf, RunLocations
  <1>2. CASE runs[d] # 0
    <2> DEFINE r == RecordedRun(d)
               prefix == HarnessDomain \o <<"/">> \o RunName[r]
    <2>1. r \in Runs
      BY <1>2, JobIsRow
    <2> HIDE DEF r
    <2>2. OutputFolder \in Places /\ OutputFolder.path = HarnessDomain /\ OutputFolder.bucket = DefaultBucket
      BY DefaultPaths DEF OutputFolder, Place
    <2>3. /\ HarnessDomain \o <<"/">> \in Keys /\ RunName[r] \in Keys /\ RunName[r] # <<>>
          /\ HarnessDomain # <<>> /\ DOMAIN RunName[r] = 1..Len(RunName[r]) /\ Len(RunName[r]) \in Nat \ {0}
      <3>1. RunName[r] \in Keys /\ RunName[r] # <<>> /\ HarnessDomain # <<>>
        BY <2>1, PathsAssumption
      <3>2. HarnessDomain \o <<"/">> \in Keys
        BY <2>1, <2>2, RunFolder
      <3>3. DOMAIN RunName[r] = 1..Len(RunName[r]) /\ Len(RunName[r]) \in Nat \ {0}
        BY <3>1, LenProperties, EmptySeq DEF Keys
      <3> QED
        BY <3>1, <3>2, <3>3
    <2>4. Last(RunName[r]) # "/"
      BY <2>1, <2>3, PathsAssumption DEF Last
    <2>5. prefix \in Keys /\ prefix # <<>> /\ Last(prefix) # "/"
      BY <2>3, <2>4, PrefixOfConcat, LastOfConcat
    <2>6. NormalisePrefix(prefix) = prefix \o <<"/">>
      BY <2>5, PlacesAssumption, AppendIsConcat DEF NormalisePrefix, Keys
    <2>7. FolderIn(OutputFolder, r) = prefix \o <<"/">>
      BY <2>1, <2>2, RunFolder
    <2>8. job.domain = HarnessDomain /\ job.job_runs = RunName[r]
      BY <1>2 DEF JobOf, r, RecordedRun
    <2>9. RunPrefix(job) = FolderIn(OutputFolder, r)
      BY <2>6, <2>7, <2>8 DEF RunPrefix
    <2>10. RunIn(OutputFolder, r, <<>>) = Place(DefaultBucket, FolderIn(OutputFolder, r))
      BY <2>1, <2>2, RunFolder
    <2> QED
      BY <1>2, <2>3, <2>8, <2>9, <2>10 DEF RunLocations, r
  <1> QED
    BY <1>1, <1>2

\* The folder of the input is no run's, nor above or below one.
LEMMA InputApart ==
  ASSUME PathsApart, NEW d \in Deployments, NEW paths \in PathSettings, NEW r \in Runs,
         NEW input \in S3Locations(JobOf(d, paths).input_path), input.bucket = OutputPath(paths).bucket
  PROVE  LET folder == FolderIn(OutputPath(paths), r)
         IN ~IsPrefix(input.path, folder) /\ ~IsPrefix(folder, input.path)
  <1> DEFINE output == OutputPath(paths)
             folder == FolderIn(output, r)
  <1>1. JobOf(d, paths).input_path = InputPath(paths) /\ output \in Places
    BY PathPlaces DEF JobOf
  <1>2. ASSUME InputPath(paths) # InputFolder \/ output # OutputFolder
        PROVE  ~IsPrefix(input.path, folder) /\ ~IsPrefix(folder, input.path)
    <2>1. Apart(input, RunObject(paths, r, <<>>))
      BY <1>1, <1>2 DEF PathsApart
    <2>2. RunObject(paths, r, <<>>).bucket = output.bucket /\ RunObject(paths, r, <<>>).path = folder
      BY DEF RunObject, RunIn, Place, FolderIn
    <2> QED
      BY <2>1, <2>2 DEF Apart
  <1>3. ASSUME InputPath(paths) = InputFolder, output = OutputFolder
        PROVE  ~IsPrefix(input.path, folder) /\ ~IsPrefix(folder, input.path)
    <2>1. input.path = NormalisePrefix(HarnessDomain \o <<"/", "input">>)
      <3>1. input = Place(InputFolder.bucket, NormalisePrefix(InputFolder.path))
        BY <1>1, <1>3 DEF S3Locations
      <3> QED
        BY <3>1 DEF InputFolder, Place
    <2>0. output.path = HarnessDomain /\ output \in Places
      BY <1>1, <1>3 DEF OutputFolder, Place
    <2>2. /\ HarnessDomain \in Keys /\ <<"/">> \in Keys /\ <<"input">> \in Keys
          /\ RunName[r] \in Keys /\ HarnessDomain \o <<"/">> \in Keys
      BY PathsAssumption, PlacesAssumption, Literals, <2>0, RunFolder DEF Keys
    <2>3. <<"/", "input">> = <<"/">> \o <<"input">> /\ Last(<<"/", "input">>) = "input"
      BY DEF Last
    <2>4. HarnessDomain \o <<"/", "input">> = (HarnessDomain \o <<"/">>) \o <<"input">>
      BY <2>2, <2>3, ConcatAssociative DEF Keys
    <2>5. /\ HarnessDomain \o <<"/", "input">> \in Keys
          /\ Last(HarnessDomain \o <<"/", "input">>) = "input"
      BY <2>2, <2>3, FilesOfRunsKeys, PrefixOfConcat, LastOfConcat
    <2>6. input.path = (HarnessDomain \o <<"/", "input">>) \o <<"/">>
      BY <2>1, <2>5, PlacesAssumption, AppendIsConcat DEF NormalisePrefix, Keys
    <2>7. input.path = (HarnessDomain \o <<"/">>) \o (<<"input">> \o <<"/">>)
      BY <2>2, <2>4, <2>6, ConcatAssociative DEF Keys
    <2>8. folder = (HarnessDomain \o <<"/">>) \o (RunName[r] \o <<"/">>)
      BY <2>0, RunFolder
    <2>9. <<"input">> \o <<"/">> \in Keys /\ RunName[r] \o <<"/">> \in Keys
      BY <2>2, PrefixOfConcat
    <2>10. /\ \A i \in DOMAIN RunName[r] : RunName[r][i] # "/"
           /\ \A i \in DOMAIN <<"input">> : <<"input">>[i] # "/"
           /\ RunName[r] # <<"input">>
      BY PathsAssumption
    <2>11. ~IsPrefix(input.path, folder)
      <3>1. SUFFICES ASSUME IsPrefix(input.path, folder) PROVE FALSE
        OBVIOUS
      <3>2. IsPrefix(<<"input">> \o <<"/">>, RunName[r] \o <<"/">>)
        BY <2>2, <2>7, <2>8, <2>9, <3>1, PrefixCancelled
      <3> QED
        BY <2>2, <2>10, <3>2, OnePart
    <2>12. ~IsPrefix(folder, input.path)
      <3>1. SUFFICES ASSUME IsPrefix(folder, input.path) PROVE FALSE
        OBVIOUS
      <3>2. IsPrefix(RunName[r] \o <<"/">>, <<"input">> \o <<"/">>)
        BY <2>2, <2>7, <2>8, <2>9, <3>1, PrefixCancelled
      <3> QED
        BY <2>2, <2>10, <3>2, OnePart
    <2> QED
      BY <2>11, <2>12
  <1> QED
    BY <1>2, <1>3

\* What a job may hand out, and what lies in the folder of a run, is of the recorded one.
LEMMA OwnFile ==
  ASSUME PathsApart, RunTypes, NEW d \in Deployments, NEW paths \in PathSettings, NEW r \in Runs,
         NEW o \in Places, o.bucket = OutputPath(paths).bucket, MayDownloadFile(JobOf(d, paths), o),
         IsPrefix(FolderIn(OutputPath(paths), r), o.path)
  PROVE  r = RecordedRun(d)
  <1> DEFINE job == JobOf(d, paths)
             output == OutputPath(paths)
             folder == FolderIn(output, r)
  <1>1. PICK a \in AllowedDownloadPrefixes(job) : o.bucket = a.bucket /\ IsPrefix(a.path, o.path)
    BY DEF MayDownloadFile
  <1>2. job \in JobRow /\ output \in Places
    BY JobIsRow, PathPlaces
  <1>3. o.path \in Keys /\ folder \in Keys /\ IsPrefix(folder, o.path)
    BY <1>2, RunFolder DEF Places
  <1>4. CASE a \in RunLocations(job)
    <2> DEFINE s == RecordedRun(d)
    <2>1. runs[d] # 0 /\ a = RunIn(OutputFolder, s, <<>>) /\ s \in Runs
      BY <1>4, JobRun, JobIsRow
    <2> HIDE DEF s
    <2>2. a.path = FolderIn(OutputFolder, s) /\ a.path \in Keys /\ a.bucket = OutputFolder.bucket
      <3>1. a = Place(OutputFolder.bucket, FolderIn(OutputFolder, s)) /\ FolderIn(OutputFolder, s) \in Keys
        BY <2>1, RunFolder, DefaultPaths
      <3> QED
        BY <3>1 DEF Place
    <2>3. IsPrefix(folder, a.path) \/ IsPrefix(a.path, folder)
      <3> HIDE DEF folder
      <3> QED
        BY <1>1, <1>3, <2>2, PrefixesComparable
    <2>4. output = OutputFolder
      <3>1. SUFFICES ASSUME output # OutputFolder PROVE FALSE
        OBVIOUS
      <3>2. Apart(a, RunObject(paths, r, <<>>))
        BY <2>1, <3>1 DEF PathsApart
      <3>3. RunObject(paths, r, <<>>).bucket = output.bucket /\ RunObject(paths, r, <<>>).path = folder
        BY DEF RunObject, RunIn, Place, FolderIn
      <3> QED
        BY <1>1, <2>3, <3>2, <3>3 DEF Apart
    <2>5. IsPrefix(FolderIn(OutputFolder, r), FolderIn(OutputFolder, s))
          \/ IsPrefix(FolderIn(OutputFolder, s), FolderIn(OutputFolder, r))
      BY <2>2, <2>3, <2>4
    <2>6. r = s
      BY <2>1, <2>5, FoldersApart, DefaultPaths
    <2> QED
      BY <2>6 DEF s
  <1>5. CASE a \in S3Locations(job.input_path)
    <2>1. a.path \in Keys
      BY <1>2, <1>5, InputPlace DEF Places
    <2>2. IsPrefix(folder, a.path) \/ IsPrefix(a.path, folder)
      <3> HIDE DEF folder
      <3> QED
        BY <1>1, <1>3, <2>1, PrefixesComparable
    <2> QED
      BY <1>1, <1>5, <2>2, InputApart
  <1> QED
    BY <1>1, <1>4, <1>5 DEF AllowedDownloadPrefixes

\* Whichever runs there are, and however often a job was run again: with paths that
\* are apart, the page and the folders of a job hold nothing in S3 of a run but the
\* recorded one; the page has no name twice in a group; and it offers nothing that is
\* then refused, unless the second unquote or the resolving changes its local path.
THEOREM PagesOfferOwnFiles == PathsApart => (HarnessSpec => []PageOffersOwnFiles)
  <1>1. ASSUME PathsApart, RunTypes, FilesInv PROVE PageOffersOwnFiles
    <2> SUFFICES ASSUME NEW d \in Deployments, NEW paths \in PathSettings
                 PROVE  LET job == JobOf(d, paths)
                            offered == JobArtifactGroups(job, Store(paths))
                            files == {a.place : a \in offered} \ {NoLocation}
                            folders == UNION {FolderDownload(job, l, Store(paths)) :
                                                l \in AllowedDownloadPrefixes(job)}
                        IN /\ \A o \in files \cup folders, r \in Runs :
                                LET folder == RunObject(paths, r, <<>>)
                                IN o.bucket # Local /\ o.bucket = folder.bucket /\ Below(folder.path, o.path) =>
                                     r = RecordedRun(d)
                           /\ \A a \in offered :
                             /\ Plain(a.place) => Downloadable(job, a.place, Store(paths))
                             /\ \A b \in offered : SameName(a, b) => a = b
      BY DEF PageOffersOwnFiles
    <2> DEFINE job == JobOf(d, paths)
               store == Store(paths)
               offered == JobArtifactGroups(job, store)
               files == {a.place : a \in offered} \ {NoLocation}
               folders == UNION {FolderDownload(job, l, store) : l \in AllowedDownloadPrefixes(job)}
    <2>1. job \in JobRow /\ IsStore(store)
      BY <1>1, JobIsRow, StoreIsStore
    <2>2. \A a \in offered : Plain(a.place) => Downloadable(job, a.place, store)
      <3> HIDE DEF job, store
      <3> QED
        BY <2>1, OfferedDownloadable
    <2>3. \A a, b \in offered : SameName(a, b) => a = b
      <3> HIDE DEF job, store
      <3> QED
        BY <2>1, OfferedOnce
    <2>4. ASSUME NEW o \in files \cup folders, o.bucket # Local
          PROVE  o \in Places /\ MayDownloadFile(job, o)
      <3> HIDE DEF job, store
      <3>1. CASE o \in files
        <4>1. PICK a \in offered : o = a.place /\ o # NoLocation
          BY <3>1
        <4>2. Requested(o) = o
          BY <2>4 DEF Requested
        <4>3. Downloadable(job, o, store)
          BY <2>2, <4>1, <4>2 DEF Plain
        <4> QED
          BY <2>1, <2>4, <4>1, <4>2, <4>3 DEF Downloadable, IsStore
      <3>2. CASE o \in folders
        <4>1. PICK l \in AllowedDownloadPrefixes(job) : o \in Objects(store, l)
          BY <3>2 DEF FolderDownload
        <4> QED
          BY <2>1, <4>1 DEF Objects, IsStore, MayDownloadFile
      <3> QED
        BY <3>1, <3>2
    <2>5. ASSUME NEW o \in files \cup folders, NEW r \in Runs, o.bucket # Local,
                 o.bucket = RunObject(paths, r, <<>>).bucket, Below(RunObject(paths, r, <<>>).path, o.path)
          PROVE  r = RecordedRun(d)
      <3>1. IsPrefix(FolderIn(OutputPath(paths), r), o.path) /\ o.bucket = OutputPath(paths).bucket
        BY <2>5 DEF Below, FolderIn, RunObject, RunIn, Place
      <3>2. o \in Places /\ MayDownloadFile(job, o)
        BY <2>4, <2>5
      <3> QED
        BY <1>1, <3>1, <3>2, OwnFile
    <2> QED
      BY <2>2, <2>3, <2>5
  <1>2. PathsApart => (RunInv /\ FilesInv => PageOffersOwnFiles)
    BY <1>1 DEF RunInv
  <1>3. HarnessSpec => [](RunInv /\ FilesInv)
    BY HarnessInvariance, PTL
  <1> SUFFICES ASSUME PathsApart PROVE HarnessSpec => []PageOffersOwnFiles
    OBVIOUS
  <1>4. RunInv /\ FilesInv => PageOffersOwnFiles
    BY <1>2
  <1> QED
    BY <1>3, <1>4, PTL

\* A file of the recorded run, in the domain's folder, is listed and handed out.
LEMMA RecordedFile ==
  ASSUME RunTypes, FilesInv, NEW d \in Deployments, runs[d] # 0, NEW paths \in PathSettings,
         NEW file \in Keys, file # <<>>, Last(file) # "/", file # <<"config.yaml">>,
         RunIn(OutputFolder, RecordedRun(d), file) \in Store(paths)
  PROVE  LET o == RunIn(OutputFolder, RecordedRun(d), file)
         IN /\ RunArtifact(file, o) \in RunArtifacts(JobOf(d, paths), Store(paths))
            /\ Downloadable(JobOf(d, paths), o, Store(paths))
  <1> DEFINE job == JobOf(d, paths)
             r == RecordedRun(d)
             store == Store(paths)
             o == RunIn(OutputFolder, r, file)
             run == RunIn(OutputFolder, r, <<>>)
  <1>1. RunLocations(job) = {run}
    BY JobRun
  <1>2. r \in Runs /\ OutputFolder \in Places /\ OutputFolder.bucket # Local /\ IsStore(store) /\ o \in store
    BY JobIsRow, DefaultPaths, StoreIsStore
  <1> HIDE DEF job, r, store
  <1>3. /\ o \in Places /\ o.bucket = OutputFolder.bucket /\ Last(o.path) # "/"
        /\ IsPrefix(FolderIn(OutputFolder, r), o.path)
        /\ RemovePrefix(FolderIn(OutputFolder, r), o.path) = file
    BY <1>2, RunFile
  <1>4. run.bucket = OutputFolder.bucket /\ run.path = FolderIn(OutputFolder, r)
    BY DEF Place, RunIn, FolderIn
  <1> HIDE DEF o, run
  <1>5. o \in Objects(store, run) /\ RemovePrefix(run.path, o.path) = file
    BY <1>2, <1>3, <1>4 DEF Objects
  <1>6. run \in AllowedDownloadPrefixes(job)
    BY <1>1 DEF AllowedDownloadPrefixes
  <1>7. Downloadable(job, o, store)
    BY <1>2, <1>4, <1>5, <1>6, ObjectsAllowed
  <1>8. RunArtifact(file, o) \in RunArtifacts(job, store)
    BY <1>1, <1>5 DEF RunArtifacts
  <1> QED
    BY <1>7, <1>8 DEF job, r, store, o

\* The sources before the local output, and before the run, have no reports.
LEMMA EarlierSources ==
  ASSUME NEW job, NEW store
  PROVE  /\ \A c \in RowArtifacts(job) \cup LocalInputArtifacts(job, store) : c.group = "intermediary_files"
         /\ DOMAIN ArtifactSources(job, store) = 1..5
         /\ ArtifactSources(job, store)[1] = RowArtifacts(job)
         /\ ArtifactSources(job, store)[2] = LocalInputArtifacts(job, store)
         /\ ArtifactSources(job, store)[3] = LocalOutputArtifacts(job, store)
         /\ ArtifactSources(job, store)[4] = RunArtifacts(job, store)
  BY DEF RowArtifacts, LocalInputArtifacts, Artifact, ArtifactSources

\* A report of the local output, or of the run if there is none, is on the page.
LEMMA ReportShown ==
  ASSUME NEW job \in JobRow, NEW store, IsStore(store), NEW i \in {3, 4},
         i = 4 => LocalOutputArtifacts(job, store) = {},
         NEW item \in ArtifactSources(job, store)[i], item.group = "reports"
  PROVE  \E a \in JobArtifactGroups(job, store) : a.group = "reports" /\ a.place = item.place
  <1> DEFINE sources == ArtifactSources(job, store)
  <1>1. ASSUME NEW k \in 1..(i - 1) PROVE ~\E c \in sources[k] : SameName(item, c)
    <2>1. k = 1 \/ k = 2 \/ (k = 3 /\ i = 4)
      OBVIOUS
    <2>2. \A c \in sources[k] : c.group = "intermediary_files"
      BY <2>1, EarlierSources
    <2> HIDE DEF sources
    <2> QED
      BY <2>2 DEF SameName
  <1>2. /\ i \in DOMAIN sources /\ JobArtifactGroups(job, store) = Deduplicated(sources)
        /\ sources[i] \subseteq Listing
    <2>1. i \in 1..5
      OBVIOUS
    <2> QED
      BY <2>1, GoodSources DEF GoodSource
  <1> HIDE DEF sources
  <1>3. First(sources, i, item)
    BY <1>1 DEF First, sources
  <1>4. item \in Listing /\ Shown(sources, item) \in Deduplicated(sources)
    BY <1>2, <1>3, DeduplicatedFirst DEF First
  <1> QED
    BY <1>2, <1>4, ShownSame

\* The report of the recorded run on the page, if the output is the domain's folder.
LEMMA ReportInDomain ==
  ASSUME RunTypes, FilesInv, NEW d \in Deployments, runs[d] # 0,
         NEW paths \in PathSettings, OutputPath(paths) = OutputFolder
  PROVE  LET job == JobOf(d, paths)
             reportFile == RunObject(paths, RecordedRun(d), ReportFile)
         IN /\ \E a \in JobArtifactGroups(job, Store(paths)) : a.group = "reports" /\ a.place = reportFile
            /\ Downloadable(job, reportFile, Store(paths))
            /\ \A o \in OntologyDownload(job, Store(paths)) : Downloadable(job, o, Store(paths))
  <1> DEFINE job == JobOf(d, paths)
             store == Store(paths)
             r == RecordedRun(d)
             ontology == <<"output", "/", "ontology.ttl">>
             item == RunArtifact(ReportFile, RunIn(OutputFolder, r, ReportFile))
  <1>1. r \in Runs /\ job \in JobRow /\ IsStore(store) /\ r \in generated /\ report[r] # None
    BY JobIsRow, StoreIsStore DEF FilesInv, RecordedRun
  <1>2. /\ RunObject(paths, r, ReportFile) = RunIn(OutputFolder, r, ReportFile)
        /\ RunObject(paths, r, ontology) = RunIn(OutputFolder, r, ontology)
    BY DEF RunObject
  <1>3. RunIn(OutputFolder, r, ReportFile) \in store /\ RunIn(OutputFolder, r, ontology) \in store
    <2>1. r \in {q \in Runs : report[q] # None} /\ ontology \in RunFiles
      BY <1>1 DEF RunFiles
    <2> HIDE DEF r, ontology
    <2> QED
      BY <1>1, <1>2, <2>1 DEF Store
  <1>4. /\ ReportFile \in Keys /\ ontology \in Keys /\ ReportFile # <<>> /\ ontology # <<>>
        /\ ReportFile # <<"config.yaml">> /\ ontology # <<"config.yaml">>
        /\ Last(ReportFile) = "regression_report.json" /\ Last(ontology) = "ontology.ttl"
    BY FilesOfRunsKeys DEF RunFiles, ReportFile, Last
  <1>5. /\ item \in RunArtifacts(job, store) /\ Downloadable(job, RunIn(OutputFolder, r, ReportFile), store)
        /\ Downloadable(job, RunIn(OutputFolder, r, ontology), store)
    <2> HIDE DEF ontology
    <2>1. Last(ReportFile) # "/" /\ Last(ontology) # "/"
      BY <1>4
    <2> QED
      BY <1>3, <1>4, <2>1, RecordedFile
  <1>6. item.group = "reports" /\ item.place = RunIn(OutputFolder, r, ReportFile)
    <2>1. IsPrefix(<<"output", "/">>, ReportFile)
      <3>1. ReportFile = <<"output", "/">> \o <<"regression_report.json">>
        BY DEF ReportFile
      <3>2. <<"regression_report.json">> \in Keys
        BY PlacesAssumption DEF Keys
      <3> QED
        BY <3>1, <3>2, Literals, PrefixOfConcat
    <2>2. OutputArtifactGroup(Last(ReportFile)) = "reports"
      BY <1>4 DEF OutputArtifactGroup, OntologyFiles, ReportFiles
    <2> QED
      BY <2>1, <2>2 DEF RunArtifact, Artifact
  <1>7. LocalPaths(job.output_dir) = {}
    BY DefaultPaths DEF JobOf, LocalPaths
  <1>8. \E a \in JobArtifactGroups(job, store) : a.group = "reports" /\ a.place = item.place
    <2>1. LocalOutputArtifacts(job, store) = {}
      BY <1>7 DEF LocalOutputArtifacts
    <2> HIDE DEF job, store, item
    <2>2. item \in ArtifactSources(job, store)[4]
      BY <1>5, EarlierSources
    <2> QED
      BY <1>1, <1>6, <2>1, <2>2, ReportShown
  <1>9. OntologyDownload(job, store) = {RunIn(OutputFolder, r, ontology)}
    <2>1. LocalOntologies(job, store) = {}
      BY <1>7 DEF LocalOntologies
    <2>2. RunLocations(job) = {RunIn(OutputFolder, r, <<>>)}
      BY JobRun
    <2>3. /\ RunIn(OutputFolder, r, <<>>) = Place(OutputFolder.bucket, FolderIn(OutputFolder, r))
          /\ RunIn(OutputFolder, r, ontology) = Place(OutputFolder.bucket, FolderIn(OutputFolder, r) \o ontology)
      BY <1>1, DefaultPaths, RunFolder DEF RunIn
    <2>4. OntologyDownload(job, store) = {Place(run.bucket, run.path \o ontology) : run \in RunLocations(job)}
      BY <2>1 DEF OntologyDownload
    <2> HIDE DEF job, ontology, store, r
    <2>5. OntologyDownload(job, store) = {Place(OutputFolder.bucket, FolderIn(OutputFolder, r) \o ontology)}
      BY <2>2, <2>3, <2>4 DEF Place
    <2> QED
      BY <2>3, <2>5
  <1> HIDE DEF job, store, item, ontology
  <1> QED
    BY <1>2, <1>5, <1>6, <1>8, <1>9 DEF job, store

\* The report of the recorded run on the page, if the output is on the disk.
LEMMA ReportOnDisk ==
  ASSUME RunTypes, FilesInv, NEW d \in Deployments, runs[d] # 0,
         NEW paths \in PathSettings, OutputPath(paths).bucket = Local
  PROVE  LET job == JobOf(d, paths)
             reportFile == RunObject(paths, RecordedRun(d), ReportFile)
         IN /\ \E a \in JobArtifactGroups(job, Store(paths)) : a.group = "reports" /\ a.place = reportFile
            /\ Plain(reportFile) => Downloadable(job, reportFile, Store(paths))
  <1> DEFINE job == JobOf(d, paths)
             store == Store(paths)
             output == OutputPath(paths)
             r == RecordedRun(d)
             o == RunIn(output, r, ReportFile)
             item == Artifact("reports", <<"output", "/">> \o LocalName(output.path, o.path), o)
  <1>1. /\ r \in Runs /\ job \in JobRow /\ IsStore(store) /\ r \in {q \in Runs : report[q] # None}
        /\ output \in Places /\ output.bucket = Local
    BY JobIsRow, StoreIsStore, PathPlaces DEF FilesInv, RecordedRun
  <1>2. o = RunObject(paths, r, ReportFile)
    BY DEF RunObject
  <1>3. o \in store
    <2> HIDE DEF r
    <2> QED
      BY <1>1, <1>2 DEF Store
  <1>4. ReportFile \in Keys /\ ReportFile # <<>> /\ Last(ReportFile) = "regression_report.json"
    BY FilesOfRunsKeys DEF ReportFile, Last
  <1>5. job.output_dir = output /\ LocalPaths(job.output_dir) = {output.path}
    BY <1>1, PlacesAssumption DEF JobOf, LocalPaths
  <1> HIDE DEF job, store, output, r
  <1>6. /\ o \in Places /\ o.bucket = Local /\ Last(o.path) = "regression_report.json"
        /\ o.path = FolderIn(output, r) \o ReportFile
    BY <1>1, <1>4, RunFile
  <1>7. IsPrefix(output.path \o <<"/">>, o.path)
    <2>1. /\ output.path \o <<"/">> \in Keys /\ FolderIn(output, r) \in Keys
          /\ IsPrefix(output.path \o <<"/">>, FolderIn(output, r))
      BY <1>1, RunFolder, PrefixOfConcat
    <2>2. IsPrefix(FolderIn(output, r), o.path) /\ o.path \in Keys
      BY <1>4, <1>6, <2>1, PrefixOfConcat
    <2> QED
      BY <2>1, <2>2, PrefixTransitive
  <1> HIDE DEF o
  <1>8. o \in LocalFiles(store, output.path) /\ MayDownloadLocalFile(job, o)
    BY <1>3, <1>5, <1>6, <1>7 DEF LocalFiles, MayDownloadLocalFile, AllowedLocalPaths
  <1>9. item \in LocalOutputArtifacts(job, store) /\ item.group = "reports" /\ item.place = o
    <2>1. OutputArtifactGroup(Last(o.path)) = "reports"
      BY <1>6 DEF OutputArtifactGroup, OntologyFiles, ReportFiles
    <2> DEFINE row(f) == Artifact(OutputArtifactGroup(Last(f.path)),
                                  <<"output", "/">> \o LocalName(output.path, f.path), f)
    <2>2. LocalOutputArtifacts(job, store) = {row(f) : f \in LocalFiles(store, output.path)}
      BY <1>5 DEF LocalOutputArtifacts
    <2>3. item = row(o)
      BY <2>1
    <2>4. item.group = "reports" /\ item.place = o
      BY DEF Artifact
    <2> HIDE DEF row, item
    <2> QED
      BY <1>8, <2>2, <2>3, <2>4
  <1>10. \E a \in JobArtifactGroups(job, store) : a.group = "reports" /\ a.place = item.place
    <2> HIDE DEF item
    <2>1. item \in ArtifactSources(job, store)[3]
      BY <1>9, EarlierSources
    <2> QED
      BY <1>1, <1>9, <2>1, ReportShown
  <1>11. Plain(o) => Downloadable(job, o, store)
    BY <1>3, <1>6, <1>8, PlacesAssumption, PlainAnswer
  <1> HIDE DEF item
  <1> QED
    BY <1>2, <1>9, <1>10, <1>11 DEF job, store, r

\* Whatever became of the attempts of a job, and whatever else lies in the store:
\* the page of a job with a recorded run, whose output is the domain's folder or on
\* the disk, has the run's report among the reports, which no other file's name hides,
\* and hands it out; in the first case it hands out the run's ontology, too.
THEOREM RecordedRunOnPage == HarnessSpec => []RecordedRunIsOnPage
  <1>1. ASSUME RunTypes, FilesInv, NEW d \in {e \in Deployments : runs[e] # 0}, NEW paths \in PathSettings
        PROVE  LET job == JobOf(d, paths)
                   reportFile == RunObject(paths, RecordedRun(d), ReportFile)
               IN /\ OutputPath(paths) = OutputFolder \/ OutputPath(paths).bucket = Local =>
                       /\ \E a \in JobArtifactGroups(job, Store(paths)) :
                            a.group = "reports" /\ a.place = reportFile
                       /\ Plain(reportFile) => Downloadable(job, reportFile, Store(paths))
                  /\ OutputPath(paths) = OutputFolder =>
                       \A o \in OntologyDownload(job, Store(paths)) : Downloadable(job, o, Store(paths))
    <2>1. CASE OutputPath(paths) = OutputFolder
      BY <1>1, <2>1, ReportInDomain
    <2>2. CASE OutputPath(paths).bucket = Local
      <3>1. OutputPath(paths) # OutputFolder
        BY <2>2, DefaultPaths
      <3> QED
        BY <1>1, <2>2, <3>1, ReportOnDisk
    <2> QED
      BY <2>1, <2>2
  <1>2. RunInv /\ FilesInv => RecordedRunIsOnPage
    BY <1>1 DEF RunInv, RecordedRunIsOnPage
  <1> QED
    BY <1>2, HarnessInvariance, PTL
=============================================================================
