# GOV.UK AI Accelerator: formal models

TLA+ models of the service in this repository, the TLC configurations that
check them, and theorems about them that TLAPS has checked. Paths are relative
to the repository root unless they name a file of this directory.

## The system

The service is one Flask app, run in several pods that share a PostgreSQL
database and an S3 bucket. A pod is one process: the threads of its WSGI
server, one task manager thread, and an executor with one thread. There is no
message queue: the `processing_job` table is the queue.

| Component | State | Operations | Where |
| --- | --- | --- | --- |
| Job queue | `processing_job` rows: status, `attempt_count`, lease (`claimed_by`, `claimed_at`), `last_progress_at`, `job_runs` | submit, claim, requeue, finish, stop | `govuk_ai_accelerator_app.py`, `scripts/pipeline/task_manager.py` |
| Task manager (one thread per pod) | a semaphore of `EXECUTOR_MAX_WORKERS` slots, the job it has claimed | maintain, take a slot, claim, hand over, requeue a failed hand-over, done callback | `scripts/pipeline/task_manager.py` |
| Queue maintenance | PostgreSQL advisory lock 420021; the rows it has read | requeue or fail running jobs without progress, fail day-old jobs | `scripts/pipeline/task_manager.py:95-177` |
| Ontology task | the claimed attempt, the stage it is at | six checkpoints (progress, stopped?, superseded?), fenced final write | `scripts/pipeline/ontology_generator.py` |
| Harness | the same, a baseline manifest, a report per run and a metrics CSV in S3 | schedule once per deployment, generate, compare with the baseline, report, record | `scripts/pipeline/ontology_harness.py` |
| Ingestion | its row in the same table, its task in the executor | insert and submit, running, completed or failed | `scripts/ingestion/`, ingest route |
| Page download | the pages and `sources.json` under a domain's `input/` in S3 | store pages, write the sidecar, list, rewrite | `scripts/ingestion/commands/` |
| Job notes | `processing_job_note` rows, `notes.json` in S3 for older jobs | list (and import), add, replace, edit, delete, copy to a new ingestion | app, 201-267, 1161-1193, 1367-1449 |
| Review domains | `review_domain_archive` rows | list, page, delete, ingest again | app, 530-548, 1022-1138 |
| App start-up | per process: the cached app, the task managers it has started | migrate, schedule the harness, start a task manager, cache the app | app, 1684-1750 |
| Job artifacts and downloads | none of their own: rows, the bucket, the pod's disk | list a job's files in groups, hand out one or a folder | app, 270-452, 549-1020 |
| S3 browser, visualizer, pages | none of their own | read and stream | `src/web_browser`, `templates` |

How they interact:

- Every request and every thread talks to the others through rows. SQLAlchemy
  reads a row in one statement and writes, by primary key, the columns that
  changed in a later one. Except for the claim (`SELECT ... FOR UPDATE SKIP
  LOCKED`, in one transaction) and the final write of a task (one conditional
  `UPDATE`) nothing is locked in between.
- The task manager calls the executor (`submit`) and is called back by it
  (`add_done_callback`); the semaphore bridges the two. Ingestion submits to
  the same executor without a slot.
- A task learns of a stop or a newer attempt only at its checkpoints. What
  protects the row from it meanwhile is the fence: `attempt_count`, which each
  claim increases, must still be the task's own, and the row not stopped.
- Of all pods at most one maintains the queue at a time, by the advisory lock, while
  the connection that holds it lasts.
- A task that wants the database calls `create_flask_app`, as the pod's main thread
  does at start-up; the cached app is what makes the second call harmless.
- What a run leaves in S3 and what it records in its row are two steps; the page of
  its job puts them together again, by the run's name and the strings of the paths.

The hard parts follow: two-statement handlers that interleave with each other,
workers that are taken for dead and are not, pods that die at any point,
database errors on any statement, the boundary of the attempt limit, slots
that must be returned on every path, and ingestions that work on the same files. `PROJECT.json` lists these hazards by
line, with the properties aimed at each, or the reason why none is.

## The modules

| Module | Models | Abstracts |
| --- | --- | --- |
| `JobLifecycle` | what the queue promises of a job, whoever runs it: an abstract specification | pods, threads, leases, time |
| `JobQueue` | the queue, the task managers, maintenance, the tasks' control, the stop route | a stage of the pipeline ends or raises; configuration, messages, timestamps |
| `Ingestion` | `JobQueue` with the ingest route, the ingestion task and the executor's queue | the download ends or raises; domains and notes |
| `AppStartup` | the threads of a pod in `create_flask_app` | of the queue, the harness job's status |
| `Artifacts` | operators: a job's files, their groups and names, what may be downloaded | paths are sequences of tokens |
| `Harness` | `AppStartup` and `Artifacts` with the harness task: comparison, report, metrics CSV, record | of the queue, claims and overwritten statuses (`JobQueue` says which) |
| `Download` | the two stages of an ingestion, several of one domain at a time | a page's text is whether it has been cleaned; slugs are sequences of words |
| `JobNotes` | the notes routes, the import of legacy notes, the copies an ingestion makes | texts are names; no timestamps |
| `ReviewDomains` | listing, paging and deleting review domains and ingesting them again | a job's status changes freely (`Ingestion` says how) |
| `MC*` | the instances for TLC: symmetry sets, links, paths | |
| `*Proofs` | theorems: `JobQueueProofs`, with `QueueJobsProofs` (who has a job, and how often it runs) and `IngestionProofs` on top; `ArtifactsProofs` with `HarnessProofs` on top; `DownloadProofs`, `JobNotesProofs`, `ReviewDomainsProofs` | |

`Ingestion` extends `JobQueue`; `Harness` extends `AppStartup` and `Artifacts`;
`JobQueue` and `Harness` both have an instance of `JobLifecycle`.

### JobQueue

A step is one transaction, or the part of a handler between two. A handler
that reads a row and writes it later is two actions; what it has read is kept
in `loaded` or `stopping`, and `Flush` writes it back the way the session does:
only the columns that differ from the loaded ones. Thus a session that loaded
`stopped` and sets `stopped` writes no status at all, which matters.

| Variable | Code |
| --- | --- |
| `row` | the table. `last_progress_at` is NULL, within `PROGRESS_TIMEOUT` or older; `job_runs` is the attempt whose run is recorded |
| `worker[p]` | the task manager thread of pod `p`: where it is, what maintenance has loaded, the claimed job it still has to hand over |
| `slots[p]` | its semaphore |
| `exec[p]` | the task in the executor of `p`, with its ticket `(job, attempt_count)` and its checkpoint |
| `leader` | who holds the advisory lock |
| `stopping` | stop requests between their read and their write |
| `aged` | which jobs are a day old |
| `started`, `faults`, `lost` | history: executions; how many faults have happened, and how many of them were lost locks |

`Submit` and `ScheduleHarness` insert a row; `AppStartup` has the lookup and the
insert of a harness job as two steps. `RecoverRead`/`RecoverWrite` and `CleanupRead`/`CleanupWrite` are
`_try_run_maintenance`; `Claim`, `NothingClaimed`, `SubmitTask` and
`RequeueWrite` the rest of the loop; `MaintenanceError`, `ClaimError`,
`SubmitError` and `RequeueError` its error paths, including the one that keeps
the slot. `LoseLock` drops the connection that holds the advisory lock, and its pod
goes on with its maintenance. `RequeueError` counts with the failed submission before it as one fault.
`ReachCheckpoint`, `CheckStopped` and `CheckSuperseded` are the three
calls at a checkpoint, each of which a database error turns into "carry on".
`Finalize`, `FinalizeFailed`, `UpdateStopped*` and `Callback*` are the ways a
task ends. A claimed row has `last_progress_at` set, so the three-way test
for staleness comes to "older than the timeout, or never set and no lease":
`claimed_at` without `last_progress_at` does not occur, as the claim sets both.

### JobLifecycle

A job is submitted; a claim makes it running and hands out a ticket with the next
attempt number (or its pod dies first); only the holder of the newest ticket, of a
job that is not stopped, records `completed`, or a run; anything else may only write
`pending`, `failed` or `stopped` over a status. There are no pods, leases or clocks. In
`JobQueue` the tickets are those of the task manager and executor threads
(`ImplementsLifecycle`); in `Harness`, where a pod may have two managers, those in
the executors' queues (`KeepsLifecycle`). `Ingestion` has no such instance:
its task completes its row without a ticket, which is what the lifecycle forbids.

### Ingestion

Extends `JobQueue` and embeds its actions: a claimed task enters the executor's
queue (`tasks`) behind the ingestions, runs at the front, and leaves. The
ingest route may fail to insert the row and submits anyway. The ingestion task
reads and writes its row twice, without a fence. The job queue treats the row
like any pending or running one, so the two write it in turn.

### AppStartup and Harness

`call[p][t]` is how far thread `t` of pod `p` is in `create_flask_app`: migrating,
looking the harness job up, inserting it, starting the manager, caching the app. A
call that raises ends the pod in the main thread and is logged in a task. A pod may
end at any point and start again, with the same deployment or another.

In `Harness` a pod's managers (one, or two if a task has overtaken the cache) claim
harness jobs into the queue of the one executor thread. The task generates, compares
with the baseline of the moment, writes the report, reads and writes the CSV, and
records its outcome through the fence; checkpoints lie between. Maintenance, stops
and done callbacks are `Overwrite`, which writes `pending`, `failed` or `stopped` at
any moment, more freely than `JobQueue` does. `Promote` replaces the baseline.

### Artifacts

Paths and keys are sequences of tokens, so that one can be a prefix of another the
way strings are (`run-1` of `run-10`), which is what the code compares. The pages are
operators of a job and of what lies in the buckets and on the disk (`Store`), so they
are evaluated in every reachable state of `Harness`, for four configurations of paths:
the defaults, an input in another bucket, an output there, and both on the disk.
Runs, reports and the metrics CSV lie below the output that is configured
(`OutputPath`), while a page looks for a run in the domain's folder of the default
bucket (`RunLocations`) and on the disk where the output is. One configuration holds for
all jobs of a state, and there is one disk; a configured path is resolved already
and has no slash at its end.
Tokens are a constant, among them the ones the code knows; a store is any set of places
whose paths are not empty and where no file of the disk is a folder, too (`IsStore`). A
path that may be set in three places is a triple (`Settings`), of which the first that
is set counts. A link has a local path quoted once and Flask decodes it once, but
the route unquotes it again and resolves it (`Requested`): `Decoded` says what that makes
of a token, `Links` what a path resolves to.

### Download

A step is one request to S3 or one link: a page is stored or its link skipped,
the sidecar is written, the files are listed, one is read, one is rewritten.
Ingestions of the same domain do all this at once in different pods. A slug is
the sequence of the words that hyphens and slashes separate, so the model has
the links that share a slug (`/visa/apply` and `/visa-apply`, a page and its print
version) and overwrite each other. Any error ends the ingestion and leaves what it
has stored. A page carries the ingestion that stored it (`by`, history), so that
properties can speak of its own pages.

### JobNotes and ReviewDomains

One record per request under way says how far it is and what it has read. In
`JobNotes` a replacement's `DELETE` holds locks until its commit (`Locked`),
and what it deletes is what it saw when it began. An ingestion counts the notes of
its domain's last job, imports legacy ones if there are none, reads their texts and
inserts them with the new job in one commit; `read` keeps, of each note, the text it had.
In `ReviewDomains` the
deletion has three reads and a write; the job's status is that of the first
read, because the session does not refresh an object it already has. A commit
that inserts an existing key, or updates a row that is gone, fails;
deleting a row that is gone does not. A list reads the jobs, then the archive, then
the notes of the jobs it shows, and answers with a page. The sorted list is the one that has
the listed jobs in order (`Sorted`); that there is one is proved (`SortedList`).

## What is checked

Runs that pass:

| Run | Question | Bounds |
| --- | --- | --- |
| `queue_races` | do fencing, ownership, the attempt limit, the lock, a stop and the lifecycle hold when only timing goes wrong? | 1 job, 2 pods, 2 attempts, timeouts, a stop, ageing, no faults |
| `queue_faults` | do tokens, slots and the execution limit survive crashes, database errors, failed submissions and lost locks, does the job end, and is its lifecycle kept? | 1 harness job, 2 pods, 1 fault of any kind, timeouts, ageing |
| `queue_prompt` | without timeouts, can two workers ever have one job; can a pool look full and be empty? | 2 jobs, 2 pods, 2 crashes or failed submissions, stops, ageing |
| `ingest` | do token, attempt limit and executor queue survive a row that the ingestion task writes too; does an ingestion end? | 1 ingestion, 2 pods, 1 attempt, 1 crash or database error, timeouts, a stop |
| `download` | does cleaning miss a page; does `sources.json` keep up with the pages? | 2 overlapping ingestions, 4 lists of up to 3 links with shared slugs and refused links, Markdown only |
| `notes_races` | do overlapping requests lose or revive notes, or an ingestion its predecessor's? | 2 requests, 4 notes, 3 jobs, one of them new and one with legacy notes |
| `review_races` | does a confirmed deletion stay in force, in lists too; do the pages of a list show all of it? | 2 requests, 4 domains, one of them protected, 3 ingestions, all page sizes |
| `deployment` | how many managers has a pod; does a late start disturb a job; do report, CSV, row and page of a run agree? | 1 deployment, 2 pods, 2 attempts, any number of crashes and restarts, 2 overwritten statuses, no baseline or one |

Why these bounds are enough for what they ask: `attempt_count`, the lease and
the fence relate one row to the threads that hold an attempt of it, so the
interesting cases need one job, two pods to contend for it, and two attempts (a
stale one and a newer one, at the limit: the default of `MAX_JOB_ATTEMPTS` is
2). Two jobs matter where a pod could be busy with another one, which is
`queue_prompt`. In `deployment` two attempts are two runs, one with a name that is a
prefix of the other's, and two overwritten statuses are what it takes to requeue a job
that runs and to stop or fail its next attempt; more pods or attempts add
only more of the same pairs. In `review_races` three ingestions are enough for a page
that is full, one that is short and none, and for a domain that is ingested, deleted and
ingested again. In `ingest` one attempt is enough for its question, which is how the
ingestion task and a claimed attempt mix. All six checkpoints do the same, so one stands for them
(`Checkpoints` = 1; with `execution-started` before it for ontology jobs). A job
may time out, be stopped, or age at every point, but faults are counted, as
each multiplies the states (in `deployment` crashes are not, as a dead pod keeps nothing). Pods are interchangeable in the safety runs
(symmetry), and not declared so in the liveness runs, where TLC would be
unsound.

For every property of a passing run `PROJECT.json` names a variant of one
definition (marked `bug:` in the module) under which the run fails: what the
property would catch.

Deadlock is checked everywhere but in `download`, where every ingestion ends. The task manager polls for ever, so no state of
the queue is without a successor; neither is one of the request models, where
a client can always ask again.

### Disagreements with what the repository says

| Run | The code | What it says |
| --- | --- | --- |
| `stale_callback` | the done callback of a superseded attempt fails the newer attempt's job | ADR 001: "The system prevents stale attempts from writing final state" |
| `stop_undone` | a stop that commits while maintenance is between its read and its write is overwritten | runbook: "Stopped: The job was manually terminated by a user" |
| `slot_leak` | a database error in the claim loses the pod's slot for good | the log says "worker pool full (1 busy)" |
| `review_hidden` | a deletion that overlaps an ingestion leaves the recreated domain archived | "Domain has changed. Refresh before deleting."; "...unarchives_domain_when_recreated" |

Each of these runs is expected to find its property violated; the trace is the
scenario. More are in the models without a run of their own:

- Two listings that count a job's notes before either imports the legacy ones
  both import them (`CountNotes`, `ImportLegacyNotes`), although a test is named
  "...imports_legacy_s3_notes_once". It lists in sequence.
- The queue claims an ingestion's row while it is pending and runs it as an ontology
  job (`Claim` within `Ingestion`), although ADR 001 puts ingestion outside the queue.
- Of two overlapping ingestions one can read a page to clean it, the other store
  a newer one, and the first write the older one back (`CleanRead`, `CleanWrite`).
- A task that calls `create_flask_app` before the main thread has cached the app starts a
  second task manager (`ManagersBounded` says that there is no third), so that two jobs
  are claimed for the one thread of the pod, where ADR 001 has one job per pod.
- A database that fails the lookup of the harness job ends the start of the app (`Raises`),
  although NATIVE.md says that without a database the app starts anyway; only the
  migration's failure is caught.
- Two runs that read the metrics CSV before either writes it lose one summary
  (`ReadCsv`, `WriteCsv`), where the README has the outcome of every run in it.
- The links of a page that is open are refused once a newer attempt's run is recorded,
  as what may be downloaded follows the row (`AllowedDownloadPrefixes`).
- An output that is configured elsewhere in S3 takes the run with it, but the page looks in the
  domain's folder of the default bucket: the job's page then has neither report nor artifacts
  (`RunLocations`, `RunObject`), although the README (75-77) says that it links to them.
  `RecordedRunIsOnPage` leaves such outputs out.
- A file on the disk whose name has an escape (`a%20b.txt`), or a link that leads out of the
  folder, is on the page and is refused when it is asked for (`Requested`), as the route
  decodes its argument a second time and resolves it. `Plain` says which paths that leaves alone.
- With an output on the disk a job's page lists the files of every run there
  (`LocalOutputArtifacts`), where in S3 it lists those of its own.
- A list can show the previous job of a domain that is ingested again between the
  list's two reads (`ListRead`, `ListReadArchive`).
- `sources.json` names a `.md` file whatever the output format is (`SourceKey`), so
  `SidecarNamesPages` is claimed, and checked, for Markdown only.

### Fairness

`EveryJobSettles` assumes weak fairness of each thread and of the passing of
the timeout, no more. A thread that can take a step takes one: the task manager
is a loop with bounded sleeps, and an executor thread runs on once its stage
returns. That a stage returns is an assumption; nothing in the code bounds it.
The timeout passing is the clock. Users, crashes and errors owe nothing, and
there are finitely many faults: with a crash for ever repeated, nothing
settles. Which pod's maintenance takes the lock, and which claims, is left open.
A database error in the claim takes the pod's slot away (`slot_leak`); once every
pod has met one, a pending job waits for a day. The runs have two pods and one
fault, so that one pod is left.

## What is proved

For any sets of jobs and pods, any limits and any number of faults, from the
named assumptions of the module (`JobsAssumption`, `SubsetsAssumption`,
`BoundsAssumption`, `LinksAssumption`, `NamesAssumption`, `ReviewAssumption`,
`StartupAssumption`, `HarnessAssumption`, `PathsAssumption`, `PlacesAssumption`), which TLC
evaluates in the runs; a premise that a theorem needs besides is part of its statement:

- `TypeCorrect`, `OneTask`, `AttemptUnique`: the types; one claimed job per pod;
  one holder per attempt. They are proved together (`Invariance`) because they need each
  other: an executor's slot can only be released within its bound if it is
  taken, and a claim only creates a fresh token if every token held is at most
  the row's `attempt_count`. The lemmas are one per group of actions: what a
  step may do to a row (`RowStep`: one of six moves) and to the tickets
  (`TicketStep`); `AttemptsGrow` says that tokens never decrease.
- `CompletedNewest`: a completed row's run is that of its newest attempt. Only
  the fenced write completes a row, and the fence makes the two equal; a claim
  leaves completed, as does every other move.
- `LockExclusive`: only the lock's holder is in maintenance, if its connection holds
  (`"lock" \notin FaultKinds`).
- `AttemptsBound`, `LeaderViewHolds`: while submissions do not fail and the lock is not lost,
  `attempt_count` stays within `MAX_JOB_ATTEMPTS`. The limit is not inductive: the check
  is made on a row read earlier. The strengthening is `QueueInv`: a pending row has an
  attempt left (`AttemptsLeft`), and a row the leader has loaded as running still has the
  loaded `attempt_count` and is not pending (`LeaderView`), which holds because only
  maintenance makes rows pending, and the lock keeps other maintainers out
  (`OneMaintainer`). The theorem excludes failed submissions, as
  `requeue_claimed_job` makes a row pending unchecked.
- `ExecutionsBound`: then, and whatever else fails, executions are bounded, by
  `MAX_JOB_ATTEMPTS` and one for each lost lock. The invariant (`Counted`) adds up, for
  each job, its executions so far and the chances of another: it is pending, a pod has claimed it
  and not handed it over, or a maintainer has read it with an attempt left and will
  make it pending. A failed submission turns one chance into another. Maintenance adds a
  chance only when it reads a row with an attempt left, and the sum then has room for it unless
  another maintainer has read the row, which takes a lost lock: the maintainers
  without the lock are never more than the locks lost.
- `Refinement`, `StopHolds`: every step of the queue is one of `JobLifecycle` or a stutter; the
  lemmas go through the steps by thread (`WorkerImplements`, `ExecImplements`). That
  a stopped job never completes is then a matter of the lifecycle alone.
- `FullBusy` (without database errors), `OneRun` (`SlowJobs = {}`: no timeout passes),
  `RunningOwned` and `LeaseOwned` (no faults but lost locks): who has a job. `OneRun`
  rests on this: while a thread has a job, its row is not pending, nor has anyone read
  it as stale. `OwnerInv` says that a running row's lease and newest attempt are those of a
  thread, and what a callback or a requeue that is under way has read is still so.
  These premises are the runs': `queue_races`, `queue_prompt`.
- `IngestAttemptUnique`, `IngestAttemptsBound`, `IngestionTypes`, `OneClaimedTask`: the same
  tokens and limits beside ingestion tasks. The queue's lemmas are used again; an
  ingestion's step changes a status, but never `attempt_count`, and makes
  no row pending but its own new one.
- `ManagersBound`: a thread's share in a pod's managers is at most one, and a task's is none
  once the app is cached; the shares add up to two, not more.
- `CompletedPassed`, `SummariesTruthful`: a report is written once per attempt, since an
  attempt has one task, so what the CSV or a copy of it says of a run stays true.
- `HarnessTypes`, `LateStarts`: a pod has no more claimed jobs than managers, since it loses
  both when it ends; until its main thread has started a manager it has none, and no
  task that could start one (`WorkInv`). A late lookup or insert finds the row there and
  leaves it.
- `HarnessRefinement`: two managers in a pod, restarts and overlapping runs keep the
  lifecycle, for any number of pods.
- `OfferedOnce`, `OfferedDownloadable`: for any row and any contents of buckets and disk, the
  page of a job names nothing twice in a group, and what it offers is handed out, if it is in
  S3 or has a local path that the route's second unquote and its resolving leave as it
  is (`Plain`). Each of the five lists that make up the page is shown to have both
  properties (`GoodSource`), and keeping the first of equals keeps them. The names rest on
  the algebra of prefixes: what is left of a key without its prefix says which key it was
  (`RestsDiffer`), if no file is a folder, too.
- `RecordedRunOnPage`, for an output that is the domain's own folder, as by default, or on the
  disk: a recorded run has a report (`FilesInv`: the run in the row was compared, and what was
  compared was generated); the report is below the run's prefix, or below the local output, and
  no earlier list has a file of its name among the reports (`ReportShown`).
- `PagesOfferOwnFiles`: two prefixes of one key are prefixes of one another, so a file of
  another run would make the folder of one run a prefix of the other's, which the slash at
  its end excludes (`OnePart`), or an input lie in or around a run's folder. For the
  default paths that is excluded by their names; for paths that are configured it is the
  premise `PathsApart`, which nothing in the code enforces: a job whose input is set to
  the domain's own folder offers every run of the domain as its input. The premise also keeps the
  runs of an output that is configured elsewhere out of the folders where a page looks for runs.
- `DownloadTypes`, `CleaningMissesNothing`: a page that has not been cleaned was
  stored by an ingestion that is under way or has failed, for any links and any
  number of overlapping ingestions in any formats. The strengthening says where such a
  page is meanwhile: on the list of files its ingestion still has to clean, once there
  is one (`Listed`); and that what is on a list exists, so that reading it gives
  something to write (`Holding`). Writing never makes a page raw, not even an old one.
- `SidecarAgrees` (Markdown only): every page that is there is in the record of the ingestion that
  stored it, and what is in a record is there (`Recorded`), as pages are replaced but never
  removed. The sidecar is the whole record of an ingestion that fetches no more links
  (`RecordOf`), and so is each copy of a sidecar that a cleaner is about to write back
  (`HeldRecorded`): an older sidecar returns, but not a wrong one.
- `NotesTypes`, `NoNoteReturns`, `NoNoteLostUnseen`: no request inserts over a deleted row, and
  what a request deletes it has read.
- `NotesSurviveIngestion`: the request has read the text of each of the notes it counted
  that still remained (`AllRead`), and the sequence of texts that it inserts has one place for
  each note it read. Their order is open, so the theorem is about an injection from the notes
  that remain to the new job's, which keeps the texts that were read.
- `DeletionHides`, `ListsHideDeleted`, `ReviewTypes`: a confirmed deletion of a review domain stays
  in force until the next ingestion, in the table and in every list asked for
  afterwards, for any number of overlapping requests. The list's invariant says
  that a domain it will wrongly show has a job newer than those it has read.
- `PagesWalked`: for any list, page size and direction, following the link to the next page
  while there is one shows the whole list. The four formulas of the reply (the number of
  pages, a page's slice, the two links) agree because that number is the
  smallest whose pages have room for the list (`PageCount`); the walk then ends on it (`WalkEnds`).

Model-checked only: liveness (`EveryJobSettles`: fairness and ENABLED are out of the
prover's reach). Every other property of a passing run is the statement of a theorem.
That the pages laid end to end are the list is stated place by place, as what a recursive
definition computes for every input cannot be proved here.

## What is not modelled

- The row locks of the claim. `SELECT ... FOR UPDATE SKIP LOCKED` and its commit are
  one step, so that two pods do not claim one row is assumed of PostgreSQL here; a pod that skips a locked row and claims the next one is an order
  of claims the model also has, except when the locking claim rolls back.
- A second task manager beside the whole of `JobQueue`: `Harness` has it with the abstract
  queue, whose lifecycle `JobQueue` implements.
- An app that is started as a script, whose tasks import it a second time under its own name.
- In development, SQLite: no lock, every pod leads.
- Error messages, timestamps other than the progress and age tests.
- The stages of the pipeline and of the comparison with the baseline, which are
  an external library; the figures in a report.
- The archive of a folder on the disk, whose route decodes twice as that of a file does.
- Names of downloaded files, URLs, streaming; the links of source pages; the list of all
  jobs, which counts and reads a page in two statements; search and sort keys.
- Rendering and cleaning the text of a page; migrations, the S3 browser, logging, the front
  end and the notebooks (see the components in `PROJECT.json`).
- The visualizer's deletion of files in the bucket, by string prefix: deleting
  `run-1` deletes `run-10` with it.

## Plan

What could come next, most useful first:

1. The claim with its row locks, refining the atomic one.
2. A deployment that replaces another while its jobs run (two deployments take TLC beyond a few
   minutes; the theorems about `Harness` are for any number of them).
3. The list of all jobs with its two statements, if its pages are to be consistent.
