------------------------------- MODULE Harness -------------------------------
(***************************************************************************)
(* The ontology harness across a deployment: pods start (AppStartup), put  *)
(* the harness job of their deployment into the queue, claim such jobs and *)
(* run them; a run generates an ontology, compares it with the accepted    *)
(* baseline, leaves a report beside its output and a summary in the        *)
(* domain's metrics CSV, and records itself with the job, whose page then  *)
(* offers its files (Artifacts).  Of the queue only its lifecycle is left  *)
(* here: JobQueue implements it, and so does this module.                  *)
(***************************************************************************)
EXTENDS AppStartup, Artifacts

CONSTANTS
  Baselines,       \* the runs that may be promoted to the accepted baseline
  HarnessDomain,   \* ONTOLOGY_HARNESS_DOMAIN
  RunName,         \* per deployment and attempt, the folder the run is given
  PathSettings,    \* the paths that jobs may be configured with
  OtherObjects,    \* what the buckets and the disk have besides the runs
  MaxAttempts,     \* bound on the claims of a job
  MaxOverwrites    \* bound on the statuses written by maintenance and users

Runs == [job: Deployments, attempt_count: 1..MaxAttempts]
Report == [passed: BOOLEAN, baseline: Baselines]

\* Where a path may be set: the environment, the configuration's own, its older one.
Settings == [1..3 -> Places \cup {NoLocation}]

ASSUME HarnessAssumption ==
  /\ MaxAttempts \in Nat /\ MaxOverwrites \in Nat
  /\ None \notin Baselines /\ None \notin Report
  /\ \A r, s \in Runs : RunName[r] = RunName[s] => r = s

\* The first path that is set, or else the domain's folder.
Configured(settings) == {i \in 1..3 : settings[i] # NoLocation}
Prepared(settings, default) ==
  IF Configured(settings) = {} THEN default ELSE settings[Min(Configured(settings))]

InputFolder == Place(DefaultBucket, HarnessDomain \o <<"/", "input">>)
OutputFolder == Place(DefaultBucket, HarnessDomain)
InputPath(paths) == Prepared(paths.input, InputFolder)
OutputPath(paths) == Prepared(paths.output, OutputFolder)

\* A run has a folder of its own in the output's, with its output and, once it has
\* been compared, its report; the metrics of all runs are beside them.
RunIn(folder, r, file) ==
  Place(folder.bucket, folder.path \o <<"/">> \o RunName[r] \o <<"/">> \o file)
RunObject(paths, r, file) == RunIn(OutputPath(paths), r, file)
RunFiles == {<<"config.yaml">>, <<"output", "/", "ontology.ttl">>, <<"output", "/", "graph.json">>}
ReportFile == <<"output", "/", "regression_report.json">>
MetricsCsv(paths) ==
  Place(OutputPath(paths).bucket,
        OutputPath(paths).path \o <<"/", "output", "/", "owl_ontology_metrics.csv">>)

\* A run's folder is one part of a path, and not the domain's input.  What the runs
\* may write is, beside what there is, no file in the place of a folder.
ASSUME PathsAssumption ==
  /\ HarnessDomain \in Keys \ {<<>>}
  /\ \A r \in Runs :
       /\ RunName[r] \in Keys \ {<<>>, <<"input">>}
       /\ \A i \in DOMAIN RunName[r] : RunName[r][i] # "/"
  /\ PathSettings \subseteq [input: Settings, output: Settings]
  /\ \A paths \in PathSettings :
       IsStore(OtherObjects \cup {MetricsCsv(paths)}
               \cup {RunObject(paths, r, file) : r \in Runs, file \in RunFiles \cup {ReportFile}})

VARIABLES
  attempts,        \* per job, how often it was claimed
  runs,            \* per job, the attempt whose run is recorded, or 0
  work,            \* per pod, the claimed jobs its executor has, the running one first
  task,            \* per pod, how far the running one is, and what it has read of the CSV
  baseline,        \* the run that baselines/accepted.json names, or None
  generated,       \* the runs whose ontology is in S3
  report,          \* per run, its regression_report.json, or None
  csv,             \* the rows of owl_ontology_metrics.csv: per run a summary, or None
  overwrites       \* how often maintenance and users have written a status

queueVars == <<attempts, runs, work, task>>
s3Vars == <<baseline, generated, report, csv>>
harnessVars == <<startupVars, status, queueVars, s3Vars, overwrites>>

-----------------------------------------------------------------------------
NoRows == [r \in {} |-> None]
TaskPC == {"generating", "stopping", "comparing", "reading", "writing", "finalizing"}
NewTask == [pc |-> "generating", csv |-> NoRows]

HarnessTypeOK ==
  /\ StartupTypeOK
  /\ attempts \in [Deployments -> 0..MaxAttempts]
  /\ runs \in [Deployments -> 0..MaxAttempts]
  /\ work \in [Pods -> Seq(Runs)] /\ \A p \in Pods : Len(work[p]) <= managers[p]
  /\ \A p \in Pods : task[p].pc \in TaskPC
  /\ \A t \in {csv} \cup {task[p].csv : p \in Pods} :
       DOMAIN t \subseteq generated /\ Range(t) \subseteq Report \cup {None}
  /\ baseline \in Baselines \cup {None}
  /\ generated \subseteq Runs
  /\ report \in [Runs -> Report \cup {None}]
  /\ overwrites \in 0..MaxOverwrites

HarnessInit ==
  /\ StartupInit
  /\ attempts = [d \in Deployments |-> 0]
  /\ runs = [d \in Deployments |-> 0]
  /\ work = [p \in Pods |-> <<>>]
  /\ task = [p \in Pods |-> NewTask]
  /\ baseline \in Baselines \cup {None}
  /\ generated = {}
  /\ report = [r \in Runs |-> None]
  /\ csv = NoRows
  /\ overwrites = 0

-----------------------------------------------------------------------------
(* Pods and the queue. *)

Starts(p) == StartupStep(p) /\ UNCHANGED <<queueVars, s3Vars, overwrites>>

\* A pod dies with what its executor has.
Crash(p) ==
  /\ version[p] # None
  /\ Ends(p)
  /\ work' = [work EXCEPT ![p] = <<>>]
  /\ task' = [task EXCEPT ![p] = NewTask]
  /\ UNCHANGED <<status, attempts, runs, s3Vars, overwrites>>

ClaimAnyway(p, j) ==                                                 \* bug: takes no permit
  /\ status[j] = "pending" /\ attempts[j] < MaxAttempts /\ managers[p] > 0
  /\ status' = [status EXCEPT ![j] = "running"]
  /\ attempts' = [attempts EXCEPT ![j] = @ + 1]
  /\ work' = [work EXCEPT ![p] = Append(@, [job |-> j, attempt_count |-> attempts[j] + 1])]
  /\ UNCHANGED <<startupVars, runs, task, s3Vars, overwrites>>

\* A manager has as many permits as the executor has threads, for its own claims.
Claim(p, j) ==
  /\ status[j] = "pending" /\ attempts[j] < MaxAttempts
  /\ Len(work[p]) < managers[p] * ExecutorMaxWorkers
  /\ status' = [status EXCEPT ![j] = "running"]
  /\ attempts' = [attempts EXCEPT ![j] = @ + 1]
  /\ work' = [work EXCEPT ![p] = Append(@, [job |-> j, attempt_count |-> attempts[j] + 1])]
  /\ UNCHANGED <<startupVars, runs, task, s3Vars, overwrites>>

\* Maintenance, a stop, a done callback: a status is written over.
Overwrite(j, s) ==
  /\ status[j] # "absent"
  /\ overwrites < MaxOverwrites
  /\ overwrites' = overwrites + 1
  /\ status' = [status EXCEPT ![j] = s]
  /\ UNCHANGED <<startupVars, queueVars, s3Vars>>

-----------------------------------------------------------------------------
(* run_ontology_harness_background_task. *)

Run(p) == Head(work[p])
Running(p, pc) == work[p] # <<>> /\ call[p]["task"] = "out" /\ task[p].pc = pc
TaskGoes(p, pc) == task' = [task EXCEPT ![p].pc = pc]

\* The executor takes the next task, if there is one.
Finish(p) ==
  /\ work' = [work EXCEPT ![p] = Tail(@)]
  /\ task' = [task EXCEPT ![p] = NewTask]

Superseded(r) == attempts[r.job] # r.attempt_count

\* A checkpoint wants the database.
Checkpoint(p) ==
  /\ Running(p, "generating")
  /\ CallFromTask(p)
  /\ UNCHANGED <<queueVars, s3Vars, overwrites>>

\* A checkpoint finds the run superseded, which ends its task ...
Abandon(p) ==
  /\ Running(p, "generating")
  /\ Superseded(Run(p))
  /\ Finish(p)
  /\ UNCHANGED <<startupVars, status, attempts, runs, s3Vars, overwrites>>

\* ... or stopped ...
FindStopped(p) ==
  /\ Running(p, "generating")
  /\ status[Run(p).job] = "stopped"
  /\ TaskGoes(p, "stopping")
  /\ UNCHANGED <<startupVars, status, attempts, runs, work, s3Vars, overwrites>>

\* ... which it writes itself, too, unless the database fails or says so already.
WriteStopped(p) ==
  /\ Running(p, "stopping")
  /\ status' \in {status, [status EXCEPT ![Run(p).job] = "stopped"]}
  /\ Finish(p)
  /\ UNCHANGED <<startupVars, attempts, runs, s3Vars, overwrites>>

\* The pipeline ends, with an ontology and, if it could write one, a row in the CSV.
Generate(p) ==
  /\ Running(p, "generating")
  /\ generated' = generated \cup {Run(p)}
  /\ csv' \in {csv, [r \in DOMAIN csv \cup {Run(p)} |-> IF r \in DOMAIN csv THEN csv[r] ELSE None]}
  /\ TaskGoes(p, "comparing")
  /\ UNCHANGED <<startupVars, status, attempts, runs, work, baseline, report, overwrites>>

\* The accepted baseline changes.
Promote(b) ==
  /\ baseline' = b
  /\ UNCHANGED <<startupVars, status, queueVars, generated, report, csv, overwrites>>

\* The comparison with the baseline of the moment; without a manifest it raises.
Compare(p, passed) ==
  /\ Running(p, "comparing")
  /\ baseline # None
  /\ report' = [report EXCEPT ![Run(p)] = [passed |-> passed, baseline |-> baseline]]
  /\ TaskGoes(p, "reading")
  /\ UNCHANGED <<startupVars, status, attempts, runs, work, baseline, generated, csv, overwrites>>

\* The CSV is read whole; if that fails, or it has no row for the run, it stays
\* as it is ...
ReadCsv(p) ==
  /\ Running(p, "reading")
  /\ \/ Run(p) \in DOMAIN csv /\ task' = [task EXCEPT ![p] = [pc |-> "writing", csv |-> csv]]
     \/ TaskGoes(p, "finalizing")
  /\ UNCHANGED <<startupVars, status, attempts, runs, work, s3Vars, overwrites>>

SummarisedFirst(rows, run) ==                                        \* bug: not by Run ID
  [r \in DOMAIN rows |-> IF r = CHOOSE s \in DOMAIN rows : TRUE THEN report[run] ELSE rows[r]]
Summarised(rows, run) == [r \in DOMAIN rows |-> IF r = run THEN report[run] ELSE rows[r]]

\* ... and is written whole with the run's summary, or that fails.
WriteCsv(p) ==
  /\ Running(p, "writing")
  /\ csv' \in {csv, Summarised(task[p].csv, Run(p))}
  /\ task' = [task EXCEPT ![p] = [pc |-> "finalizing", csv |-> NoRows]]
  /\ UNCHANGED <<startupVars, status, attempts, runs, work, baseline, generated, report, overwrites>>

OwnsRowAnyAttempt(r) == status[r.job] # "stopped"                    \* bug: no attempt_count
OwnsRow(r) == ~Superseded(r) /\ status[r.job] # "stopped"

\* _finalize_job_status: the outcome is written through the fence, or the database
\* fails, which is logged.
Record(p, s, job_runs) ==
  \/ /\ OwnsRow(Run(p))
     /\ status' = [status EXCEPT ![Run(p).job] = s]
     /\ runs' = [runs EXCEPT ![Run(p).job] = job_runs]
  \/ UNCHANGED <<status, runs>>

OutcomeAnyReport(r) == "completed"                                   \* bug: a regression completes
Outcome(r) == IF report[r].passed THEN "completed" ELSE "failed"

\* The report decides whether the job completes or fails.
Finalize(p) ==
  /\ Running(p, "finalizing")
  /\ Record(p, Outcome(Run(p)), Run(p).attempt_count)
  /\ Finish(p)
  /\ UNCHANGED <<startupVars, attempts, s3Vars, overwrites>>

FailWithRun(p) ==                                                    \* bug: records the run
  /\ Running(p, "generating") \/ Running(p, "comparing")
  /\ Record(p, "failed", Run(p).attempt_count)
  /\ Finish(p)
  /\ UNCHANGED <<startupVars, attempts, s3Vars, overwrites>>

\* What raises before the report is there fails the job, without a run.
Fail(p) ==
  /\ Running(p, "generating") \/ Running(p, "comparing")
  /\ Record(p, "failed", runs[Run(p).job])
  /\ Finish(p)
  /\ UNCHANGED <<startupVars, attempts, s3Vars, overwrites>>

TaskStep(p) ==
  \/ Checkpoint(p) \/ Abandon(p) \/ FindStopped(p) \/ WriteStopped(p)
  \/ Generate(p) \/ \E passed \in BOOLEAN : Compare(p, passed)
  \/ ReadCsv(p) \/ WriteCsv(p) \/ Finalize(p) \/ Fail(p)

HarnessNext ==
  \/ \E p \in Pods : Starts(p) \/ Crash(p) \/ TaskStep(p) \/ \E j \in Deployments : Claim(p, j)
  \/ \E j \in Deployments, s \in {"pending", "failed", "stopped"} : Overwrite(j, s)
  \/ \E b \in Baselines : Promote(b)

HarnessSpec == HarnessInit /\ [][HarnessNext]_harnessVars

-----------------------------------------------------------------------------
(* The pages of the jobs. *)

JobOf(d, paths) ==
  [domain |-> HarnessDomain,
   job_runs |-> IF runs[d] = 0 THEN <<>> ELSE RunName[[job |-> d, attempt_count |-> runs[d]]],
   config_data |-> TRUE, domain_prompt |-> FALSE,
   input_path |-> InputPath(paths), output_dir |-> OutputPath(paths)]

\* What lies in S3, and on the disk, when the jobs are configured with these paths.
Store(paths) ==
  OtherObjects \cup {MetricsCsv(paths)}
  \cup {RunObject(paths, r, file) : r \in generated, file \in RunFiles}
  \cup {RunObject(paths, r, ReportFile) : r \in {q \in Runs : report[q] # None}}

-----------------------------------------------------------------------------
(* Properties. *)

RecordedRun(d) == [job |-> d, attempt_count |-> runs[d]]

\* "The Historical Jobs page links to the run artifacts and report, including
\* failed regression checks": once a run is recorded with a job, whatever became
\* of the job's other attempts, its page offers the run's report among the reports
\* and hands it out, if the output is the domain's own folder in S3 (as it is when
\* none is configured) or lies on the disk; in the first case the ontology, too.
\* An output that is configured elsewhere in S3 is left out: the page looks for
\* the run in the domain's folder, whatever the job's output_dir, and has none of it.
RecordedRunIsOnPage ==
  \A d \in {e \in Deployments : runs[e] # 0}, paths \in PathSettings :
    LET job == JobOf(d, paths)
        reportFile == RunObject(paths, RecordedRun(d), ReportFile)
    IN /\ OutputPath(paths) = OutputFolder \/ OutputPath(paths).bucket = Local =>
            /\ \E a \in JobArtifactGroups(job, Store(paths)) : a.group = "reports" /\ a.place = reportFile
            /\ Plain(reportFile) => Downloadable(job, reportFile, Store(paths))
       /\ OutputPath(paths) = OutputFolder =>
            \A o \in OntologyDownload(job, Store(paths)) : Downloadable(job, o, Store(paths))

\* No run's folder lies in the input or has it in it; and where the output is not the
\* domain's folder, no run's folder lies in, or around, one where a page looks for a run.
Apart(a, b) == a.bucket = b.bucket => ~IsPrefix(a.path, b.path) /\ ~IsPrefix(b.path, a.path)
PathsApart ==
  \A paths \in PathSettings, r \in Runs :
    LET folder == RunObject(paths, r, <<>>) IN
    /\ InputPath(paths) # InputFolder \/ OutputPath(paths) # OutputFolder =>
         \A input \in S3Locations(InputPath(paths)) : Apart(input, folder)
    /\ OutputPath(paths) # OutputFolder => \A s \in Runs : Apart(RunIn(OutputFolder, s, <<>>), folder)

\* With paths that are apart, a job's page and its folders offer nothing in S3 of
\* another run (of an output on the disk they offer all there is, other runs with it);
\* the page offers no name twice in a group; and nothing that it then refuses to hand
\* out, but for files on the disk whose names have escapes or that are links.
PageOffersOwnFiles ==
  \A d \in Deployments, paths \in PathSettings :
    LET job == JobOf(d, paths)
        offered == JobArtifactGroups(job, Store(paths))
        files == {a.place : a \in offered} \ {NoLocation}
        folders == UNION {FolderDownload(job, l, Store(paths)) : l \in AllowedDownloadPrefixes(job)}
    IN /\ \A o \in files \cup folders, r \in Runs :
            LET folder == RunObject(paths, r, <<>>)
            IN o.bucket # Local /\ o.bucket = folder.bucket /\ Below(folder.path, o.path) =>
                 r = RecordedRun(d)
       /\ \A a \in offered :
         /\ Plain(a.place) => Downloadable(job, a.place, Store(paths))
         /\ \A b \in offered : SameName(a, b) => a = b

\* A job completes only with a run that passed, however often it is run again.
CompletedRunPassed ==
  \A d \in Deployments : status[d] = "completed" =>
    LET r == [job |-> d, attempt_count |-> attempts[d]]
    IN runs[d] = attempts[d] /\ report[r] # None /\ report[r].passed

\* Runs of several pods read and write the CSV over each other: a summary may be
\* lost, but the one in a run's row is that of its report.
SummaryMatchesReport ==
  \A r \in DOMAIN csv : csv[r] # None => csv[r] = report[r]

Lifecycle == INSTANCE JobLifecycle WITH
  Jobs <- Deployments, live <- UNION {Range(work[p]) : p \in Pods}

\* Pods that start, manage and run their jobs twice over keep the lifecycle.
KeepsLifecycle == Lifecycle!Spec
=============================================================================
