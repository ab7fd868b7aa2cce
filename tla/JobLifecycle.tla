---------------------------- MODULE JobLifecycle ----------------------------
(***************************************************************************)
(* What the job queue promises of a job, whoever runs it: an abstraction   *)
(* of the processing_job table that knows neither pods nor threads nor     *)
(* leases nor time.                                                        *)
(*                                                                         *)
(* A job is submitted, and claimed once per attempt; a claim hands out a   *)
(* ticket with the attempt's number.  Only the holder of the newest ticket *)
(* records the outcome of a job, and not of a stopped one; whatever else   *)
(* the queue, its users and its maintenance do to a status (fail it, stop  *)
(* it, requeue it), they never complete a job, never renumber an attempt   *)
(* and never touch the recorded run.                                       *)
(***************************************************************************)
EXTENDS Integers

CONSTANT Jobs

VARIABLES
  status,     \* per job, its status
  attempts,   \* per job, how often it was claimed
  runs,       \* per job, the attempt whose run is recorded, or 0
  live        \* the tickets handed out whose holders have not finished

vars == <<status, attempts, runs, live>>

Init ==
  /\ status = [j \in Jobs |-> "absent"]
  /\ attempts = [j \in Jobs |-> 0]
  /\ runs = [j \in Jobs |-> 0]
  /\ live = {}

Submit(j) ==
  /\ status[j] = "absent"
  /\ status' = [status EXCEPT ![j] = "pending"]
  /\ UNCHANGED <<attempts, runs, live>>

\* The claimer may be gone before it has the ticket.
Claim(j) ==
  /\ status[j] = "pending"
  /\ status' = [status EXCEPT ![j] = "running"]
  /\ attempts' = [attempts EXCEPT ![j] = @ + 1]
  /\ \/ live' = live \cup {[job |-> j, attempt_count |-> attempts[j] + 1]}
     \/ UNCHANGED live
  /\ UNCHANGED runs

\* A task ends well, with a run; or badly, with or without one.
Record(t, s, run) ==
  /\ t \in live
  /\ attempts[t.job] = t.attempt_count /\ status[t.job] # "stopped"
  /\ s = "completed" => run
  /\ status' = [status EXCEPT ![t.job] = s]
  /\ runs' = IF run THEN [runs EXCEPT ![t.job] = t.attempt_count] ELSE runs
  /\ live' \in {live, live \ {t}}
  /\ UNCHANGED attempts

\* The statuses of some jobs are written over, and some tasks end.
Overwrite ==
  /\ live' \subseteq live
  /\ DOMAIN status' = Jobs
  /\ \A j \in Jobs :
       \/ status'[j] = status[j]
       \/ status[j] # "absent" /\ status'[j] \in {"pending", "failed", "stopped"}
  /\ UNCHANGED <<attempts, runs>>

Next ==
  \/ \E j \in Jobs : Submit(j) \/ Claim(j)
  \/ \E t \in live, s \in {"completed", "failed"}, run \in BOOLEAN : Record(t, s, run)
  \/ Overwrite

Spec == Init /\ [][Next]_vars
=============================================================================
