---------------------------- MODULE JobLifecycle ----------------------------
(***************************************************************************)
(* What the platform promises about one job, whatever happens to workers,  *)
(* messages and schedulers: the abstract specification that the tables of  *)
(* internal/store (module JobStore) implement.                             *)
(*                                                                         *)
(* A job has a status, the number of attempts granted so far, and a limit  *)
(* fixed when it is created.  An attempt is consumed by the step           *)
(* DISPATCHED -> RUNNING and by no other one; a job fails only when its    *)
(* limit is used up; COMPLETED and FAILED are final.                       *)
(***************************************************************************)
EXTENDS Integers

CONSTANT Jobs

VARIABLES status, attempt, max

vars == <<status, attempt, max>>

JobStatus == {"ABSENT", "NEW", "DISPATCHED", "RUNNING", "COMPLETED", "FAILED"}

Init ==
  /\ status = [j \in Jobs |-> "ABSENT"]
  /\ attempt = [j \in Jobs |-> 0]
  /\ max = [j \in Jobs |-> 0]

(* A client creates the job: waiting for its input, or dispatched at once. *)
Created(j) ==
  /\ status[j] = "ABSENT"
  /\ status'[j] \in {"NEW", "DISPATCHED"}
  /\ attempt'[j] = 0
  /\ max'[j] >= 1

SameLimit(j) == max'[j] = max[j]

Queued(j) ==
  /\ status[j] = "NEW" /\ status'[j] = "DISPATCHED"
  /\ attempt'[j] = attempt[j] /\ SameLimit(j)

Started(j) ==
  /\ status[j] = "DISPATCHED" /\ status'[j] = "RUNNING"
  /\ attempt[j] < max[j]
  /\ attempt'[j] = attempt[j] + 1 /\ SameLimit(j)

(* A success counts while the job runs, or after the job was taken away    *)
(* from its executor and before somebody else started it.                  *)
Succeeded(j) ==
  /\ status'[j] = "COMPLETED"
  /\ \/ status[j] = "RUNNING"
     \/ status[j] = "DISPATCHED" /\ attempt[j] >= 1
  /\ attempt'[j] = attempt[j] /\ SameLimit(j)

Retried(j) ==
  /\ status[j] = "RUNNING" /\ status'[j] = "DISPATCHED"
  /\ attempt[j] < max[j]
  /\ attempt'[j] = attempt[j] /\ SameLimit(j)

Exhausted(j) ==
  /\ status[j] = "RUNNING" /\ status'[j] = "FAILED"
  /\ attempt[j] = max[j]
  /\ attempt'[j] = attempt[j] /\ SameLimit(j)

Unmoved(j) ==
  status'[j] = status[j] /\ attempt'[j] = attempt[j] /\ SameLimit(j)

(* One transaction may move several jobs (a reaper pass does).             *)
Next ==
  /\ status' \in [Jobs -> JobStatus]
  /\ attempt' \in [Jobs -> Nat]
  /\ max' \in [Jobs -> Nat]
  /\ \A j \in Jobs :
       \/ Unmoved(j) \/ Created(j) \/ Queued(j) \/ Started(j)
       \/ Succeeded(j) \/ Retried(j) \/ Exhausted(j)

Spec == Init /\ [][Next]_vars
=============================================================================
