------------------------------ MODULE JobStore ------------------------------
(***************************************************************************)
(* The PostgreSQL tables of the scheduler and the transactions of          *)
(* internal/store that change them.  Each action is one transaction, taken *)
(* as atomic: every one of them is a single UPDATE, or locks the job row   *)
(* (FOR UPDATE, or the UPDATE itself) before it decides, so that a         *)
(* concurrent transaction on the same row is decided on the committed row. *)
(*                                                                         *)
(* Time is abstracted to what the queries ask of it: whether a lease has   *)
(* expired (lease_expires_at < now) and whether the last heartbeat is      *)
(* older than the reaper's cutoff.  Both may happen at any moment.         *)
(*                                                                         *)
(* The callers are as general as the protocol lets them be: any registered *)
(* worker may claim, and any worker may, at any later time, renew or       *)
(* finish with a lease generation that a claim has handed to it.           *)
(*                                                                         *)
(* A definition whose name ends in _Something is the one it is named after *)
(* with a plausible mistake.  The specification does not use it: it is     *)
(* kept to show that the properties would notice.                          *)
(***************************************************************************)
EXTENDS Integers, Sequences, FiniteSets

CONSTANTS Jobs,              \* job ids
          Workers,           \* worker ids
          NONE,              \* SQL NULL in assigned_worker_id
          MaxAttemptsInputs  \* max_attempts values clients send

ASSUME StoreAssumption ==
  /\ NONE \notin Workers
  /\ MaxAttemptsInputs \subseteq Int

VARIABLES
  jobs,      \* table jobs: the columns the queries read or write
  workers,   \* table workers: status, and whether the heartbeat is old
  outbox,    \* table job_outbox: the rows of each job, in insertion order
  artifacts, \* table job_log_artifacts: attempts that have a row
  grants,    \* history: grants[j][g] is the worker that got generation g
  finisher   \* history: the <<worker, generation>> whose success was taken

storeVars == <<jobs, workers, outbox, artifacts, grants, finisher>>

(***************************************************************************)
(* Tables                                                                  *)
(***************************************************************************)

JobStatus == {"ABSENT", "NEW", "DISPATCHED", "RUNNING", "COMPLETED", "FAILED"}

(* lease_expires_at: NULL, in the future, or before the reaper's now.      *)
Lease == {"none", "live", "expired"}

JobRow == [status : JobStatus, worker : Workers \cup {NONE}, attempt : Nat,
           max : Nat, lease : Lease, gen : Nat]

(* ACTIVE and STALE are both status = 'ACTIVE'; STALE is one whose         *)
(* last_heartbeat_at is older than the cutoff.                             *)
WorkerStatus == {"ABSENT", "ACTIVE", "STALE", "DEAD"}

Target == {"main", "retry"}

OutboxRow == [target : Target, attempt : Nat, published : BOOLEAN]

NoRow == [status |-> "ABSENT", worker |-> NONE, attempt |-> 0, max |-> 0,
          lease |-> "none", gen |-> 0]

(* The handlers replace a missing or non-positive max_attempts by 3.       *)
EffectiveMaxAttempts(m) == IF m <= 0 THEN 3 ELSE m

NewRow(status, m) ==
  [NoRow EXCEPT !.status = status, !.max = EffectiveMaxAttempts(m)]

Dispatch(target, attempt) ==
  [target |-> target, attempt |-> attempt, published |-> FALSE]

insertOutboxTx_NextAttempt(j, target, attempt) ==
  outbox' = [outbox EXCEPT ![j] = Append(@, Dispatch(target, attempt + 1))]

insertOutboxTx(j, target, attempt) ==
  outbox' = [outbox EXCEPT ![j] = Append(@, Dispatch(target, attempt))]

StoreInit ==
  /\ jobs = [j \in Jobs |-> NoRow]
  /\ workers = [w \in Workers |-> "ABSENT"]
  /\ outbox = [j \in Jobs |-> <<>>]
  /\ artifacts = [j \in Jobs |-> {}]
  /\ grants = [j \in Jobs |-> <<>>]
  /\ finisher = [j \in Jobs |-> <<NONE, 0>>]

(***************************************************************************)
(* Creating and dispatching jobs                                           *)
(***************************************************************************)

(* Two-step creation of an object-storage job: the row waits for its input *)
CreateJob(j, m) ==
  /\ jobs[j].status = "ABSENT"
  /\ jobs' = [jobs EXCEPT ![j] = NewRow("NEW", m)]
  /\ UNCHANGED <<workers, outbox, artifacts, grants, finisher>>

QueueJob(j) ==
  /\ jobs[j].status = "NEW"
  /\ jobs' = [jobs EXCEPT ![j].status = "DISPATCHED"]
  /\ insertOutboxTx(j, "main", jobs[j].attempt)
  /\ UNCHANGED <<workers, artifacts, grants, finisher>>

CreateAndDispatch(j, m) ==
  /\ jobs[j].status = "ABSENT"
  /\ jobs' = [jobs EXCEPT ![j] = NewRow("DISPATCHED", m)]
  /\ insertOutboxTx(j, "main", 0)
  /\ UNCHANGED <<workers, artifacts, grants, finisher>>

(***************************************************************************)
(* Claim, renew, finish                                                    *)
(***************************************************************************)

(* assigned_worker_id references workers(id): a claim for a worker that    *)
(* never registered fails on the foreign key.                              *)
Claimable_AnyStatus(j, w) ==
  jobs[j].status \in {"DISPATCHED", "RUNNING"} /\ workers[w] # "ABSENT"

Claimable(j, w) == jobs[j].status = "DISPATCHED" /\ workers[w] # "ABSENT"

ClaimedRow_SameGeneration(r, w) ==
  [r EXCEPT !.status = "RUNNING", !.worker = w, !.attempt = @ + 1,
            !.lease = "live", !.gen = 1]

ClaimedRow(r, w) ==
  [r EXCEPT !.status = "RUNNING", !.worker = w, !.attempt = @ + 1,
            !.lease = "live", !.gen = @ + 1]

ClaimJob(j, w) ==
  /\ Claimable(j, w)
  /\ jobs' = [jobs EXCEPT ![j] = ClaimedRow(@, w)]
  /\ grants' = [grants EXCEPT ![j] = Append(@, w)]
  /\ UNCHANGED <<workers, outbox, artifacts, finisher>>

HoldsLease(j, w, g) ==
  /\ jobs[j].worker = w
  /\ jobs[j].status = "RUNNING"
  /\ jobs[j].gen = g

(* The expiry is not looked at: an expired lease that nobody has reaped    *)
(* yet is extended like a live one.                                        *)
RenewLease(j, w, g) ==
  /\ HoldsLease(j, w, g)
  /\ jobs' = [jobs EXCEPT ![j].lease = "live"]
  /\ UNCHANGED <<workers, outbox, artifacts, grants, finisher>>

ActiveFinish_AnyStatus(j, w, g) ==
  jobs[j].worker = w /\ jobs[j].gen = g

ActiveFinish_AnyGeneration(j, w, g) ==
  jobs[j].status = "RUNNING" /\ jobs[j].worker = w

ActiveFinish(j, w, g) == HoldsLease(j, w, g)

(* Any worker name is accepted here, the generation alone decides.         *)
LateFinish(j, g, success) ==
  /\ success
  /\ jobs[j].status = "DISPATCHED"
  /\ jobs[j].worker = NONE
  /\ jobs[j].gen = g

(* The row after an attempt that did not succeed, and its dispatch.        *)
Exhausted_OneMore(r) == r.attempt > r.max

Exhausted(r) == r.attempt >= r.max

FailedRow_KeepsWorker(r) ==
  IF Exhausted(r)
  THEN [r EXCEPT !.status = "FAILED", !.lease = "none"]
  ELSE [r EXCEPT !.status = "DISPATCHED", !.lease = "none"]

FailedRow_OldStatus(r) ==
  IF Exhausted(r)
  THEN [r EXCEPT !.status = "FAILED", !.lease = "none"]
  ELSE [r EXCEPT !.status = "RETRY", !.worker = NONE, !.lease = "none"]

FailedRow(r) ==
  IF Exhausted(r)
  THEN [r EXCEPT !.status = "FAILED", !.lease = "none"]
  ELSE [r EXCEPT !.status = "DISPATCHED", !.worker = NONE, !.lease = "none"]

CompletedRow(r) == [r EXCEPT !.status = "COMPLETED", !.lease = "none"]

(* art = 0: the result came without logs.  Otherwise it is the attempt the *)
(* handler read before it stored the logs; when the row has moved on since *)
(* then, the whole transaction is rolled back.                             *)
ArtifactMatches(j, art) == art \in {0, jobs[j].attempt}

insertLogArtifactTx_Dropped(j, art) == UNCHANGED artifacts

insertLogArtifactTx(j, art) ==
  artifacts' = [artifacts EXCEPT ![j] = @ \cup ({art} \ {0})]

FinishAccepted(j, w, g, success) ==
  ActiveFinish(j, w, g) \/ LateFinish(j, g, success)

(* The job was completed before: the report is acknowledged, whoever sent  *)
(* it, and only its log row is kept.                                       *)
FinishAgain(j, art) ==
  /\ jobs[j].status = "COMPLETED"
  /\ ArtifactMatches(j, art)
  /\ insertLogArtifactTx(j, art)
  /\ UNCHANGED <<jobs, workers, outbox, grants, finisher>>

FinishSuccess(j, w, g, art) ==
  /\ FinishAccepted(j, w, g, TRUE)
  /\ ArtifactMatches(j, art)
  /\ jobs' = [jobs EXCEPT ![j] = CompletedRow(@)]
  /\ finisher' = [finisher EXCEPT ![j] = <<w, g>>]
  /\ insertLogArtifactTx(j, art)
  /\ UNCHANGED <<workers, outbox, grants>>

FinishFailure(j, w, g, art) ==
  /\ FinishAccepted(j, w, g, FALSE)
  /\ ArtifactMatches(j, art)
  /\ jobs' = [jobs EXCEPT ![j] = FailedRow(@)]
  /\ IF Exhausted(jobs[j])
     THEN UNCHANGED outbox
     ELSE insertOutboxTx(j, "retry", jobs[j].attempt)
  /\ insertLogArtifactTx(j, art)
  /\ UNCHANGED <<workers, grants, finisher>>

(***************************************************************************)
(* Workers and the reaper                                                  *)
(***************************************************************************)

RegisterWorker(w) ==
  /\ workers' = [workers EXCEPT ![w] = "ACTIVE"]
  /\ UNCHANGED <<jobs, outbox, artifacts, grants, finisher>>

Heartbeat(w) ==
  /\ workers[w] # "ABSENT"
  /\ workers' = [workers EXCEPT ![w] = "ACTIVE"]
  /\ UNCHANGED <<jobs, outbox, artifacts, grants, finisher>>

MarkStaleWorkersDead ==
  /\ workers' = [w \in Workers |-> IF workers[w] = "STALE" THEN "DEAD"
                                                           ELSE workers[w]]
  /\ UNCHANGED <<jobs, outbox, artifacts, grants, finisher>>

Orphan_DeadWorkerOnly(j) ==
  /\ jobs[j].status = "RUNNING"
  /\ \E w \in Workers : jobs[j].worker = w /\ workers[w] = "DEAD"

Orphan(j) ==
  /\ jobs[j].status = "RUNNING"
  /\ \E w \in Workers :
       /\ jobs[j].worker = w
       /\ workers[w] # "ABSENT"
       /\ jobs[j].lease = "expired" \/ workers[w] = "DEAD"

Orphans == {j \in Jobs : Orphan(j)}

(* One transaction over all the orphans of its snapshot.                   *)
ReapOrphanJobs_DispatchesAll ==
  /\ jobs' = [j \in Jobs |-> IF j \in Orphans THEN FailedRow(jobs[j])
                                              ELSE jobs[j]]
  /\ outbox' = [j \in Jobs |->
                  IF j \in Orphans
                  THEN Append(outbox[j], Dispatch("retry", jobs[j].attempt))
                  ELSE outbox[j]]
  /\ UNCHANGED <<workers, artifacts, grants, finisher>>

ReapOrphanJobs_ReviveAll ==
  /\ jobs' = [j \in Jobs |->
                IF j \in Orphans
                THEN [FailedRow(jobs[j]) EXCEPT !.status = "DISPATCHED"]
                ELSE jobs[j]]
  /\ outbox' = [j \in Jobs |->
                  IF j \in Orphans
                  THEN Append(outbox[j], Dispatch("retry", jobs[j].attempt))
                  ELSE outbox[j]]
  /\ UNCHANGED <<workers, artifacts, grants, finisher>>

ReapOrphanJobs ==
  /\ jobs' = [j \in Jobs |-> IF j \in Orphans THEN FailedRow(jobs[j])
                                              ELSE jobs[j]]
  /\ outbox' = [j \in Jobs |->
                  IF j \in Orphans /\ ~Exhausted(jobs[j])
                  THEN Append(outbox[j], Dispatch("retry", jobs[j].attempt))
                  ELSE outbox[j]]
  /\ UNCHANGED <<workers, artifacts, grants, finisher>>

(***************************************************************************)
(* Outbox                                                                  *)
(***************************************************************************)

Unpublished(j) == {i \in DOMAIN outbox[j] : ~outbox[j][i].published}

(* A row is named by its job and its place among the rows of that job.     *)
UnpublishedRows == UNION {{j} \X Unpublished(j) : j \in Jobs}

(* The relay commits a transaction that marked these rows published.       *)
MarkOutboxPublishedTx(rows) ==
  /\ rows # {} /\ rows \subseteq UnpublishedRows
  /\ outbox' = [j \in Jobs |-> [i \in DOMAIN outbox[j] |->
                  IF <<j, i>> \in rows
                  THEN [outbox[j][i] EXCEPT !.published = TRUE]
                  ELSE outbox[j][i]]]
  /\ UNCHANGED <<jobs, workers, artifacts, grants, finisher>>

(***************************************************************************)
(* Time                                                                    *)
(***************************************************************************)

LeaseExpires(j) ==
  /\ jobs[j].lease = "live"
  /\ jobs' = [jobs EXCEPT ![j].lease = "expired"]
  /\ UNCHANGED <<workers, outbox, artifacts, grants, finisher>>

HeartbeatAges(w) ==
  /\ workers[w] = "ACTIVE"
  /\ workers' = [workers EXCEPT ![w] = "STALE"]
  /\ UNCHANGED <<jobs, outbox, artifacts, grants, finisher>>

(***************************************************************************)

(* What a caller may present: a generation that a claim handed to it.      *)
Granted(j, w, g) == g \in 1..Len(grants[j]) /\ grants[j][g] = w

CreateStep(j) ==
  \/ \E m \in MaxAttemptsInputs : CreateJob(j, m) \/ CreateAndDispatch(j, m)
  \/ QueueJob(j)

ServeStep(j) ==
  \/ \E w \in Workers : ClaimJob(j, w)
  \/ \E w \in Workers, g \in 1..Len(grants[j]) :
       /\ Granted(j, w, g)
       /\ \/ RenewLease(j, w, g)
          \/ \E art \in 0..jobs[j].attempt :
               \/ FinishAgain(j, art)
               \/ FinishSuccess(j, w, g, art)
               \/ FinishFailure(j, w, g, art)
  \/ LeaseExpires(j)

JobStep(j) == CreateStep(j) \/ ServeStep(j)

WorkerStep(w) == RegisterWorker(w) \/ Heartbeat(w) \/ HeartbeatAges(w)

TableStep ==
  \/ \E w \in Workers : WorkerStep(w)
  \/ MarkStaleWorkersDead
  \/ ReapOrphanJobs
  \/ \E rows \in SUBSET UnpublishedRows : MarkOutboxPublishedTx(rows)

StoreNext == (\E j \in Jobs : JobStep(j)) \/ TableStep

StoreSpec == StoreInit /\ [][StoreNext]_storeVars

(***************************************************************************)
(* Properties                                                              *)
(***************************************************************************)

(* Every table holds rows of its schema.                                   *)
StoreTypeOK ==
  /\ jobs \in [Jobs -> JobRow]
  /\ workers \in [Workers -> WorkerStatus]
  /\ outbox \in [Jobs -> Seq(OutboxRow)]
  /\ artifacts \in [Jobs -> SUBSET Nat]
  /\ grants \in [Jobs -> Seq(Workers)]
  /\ finisher \in [Jobs -> (Workers \cup {NONE}) \X Nat]

Terminal == {"COMPLETED", "FAILED"}

(* A job is claimed at most max_attempts times, although ClaimJob itself   *)
(* never compares attempt with max_attempts: whoever puts a job back to    *)
(* DISPATCHED (FinishJob, ReapOrphanJobs) has left room for one more.  A   *)
(* FAILED job has used up its attempts exactly, and the lease generation   *)
(* moves in step with the attempts.                                        *)
AttemptsWithinLimit ==
  \A j \in Jobs : LET r == jobs[j] IN
    /\ r.gen = r.attempt
    /\ Len(grants[j]) = r.attempt
    /\ r.attempt <= r.max
    /\ r.status \in {"ABSENT", "NEW"} => r.attempt = 0
    /\ r.status \in {"NEW", "DISPATCHED"} => r.attempt < r.max
    /\ r.status \in {"RUNNING", "COMPLETED"} => r.attempt >= 1
    /\ r.status = "FAILED" => r.attempt = r.max /\ r.attempt >= 1

(* A lease exists exactly while a job runs, and its holder is a registered *)
(* worker, namely the one that was granted the latest generation.  Without *)
(* it ReapOrphanJobs, which joins workers and asks for an expired lease,   *)
(* would never find the job again.                                         *)
LeaseDiscipline ==
  \A j \in Jobs : LET r == jobs[j] IN
    /\ r.status = "RUNNING" <=> r.lease # "none"
    /\ r.status \in {"NEW", "DISPATCHED"} => r.worker = NONE
    /\ r.status = "RUNNING" =>
         /\ r.worker = grants[j][Len(grants[j])]
         /\ workers[r.worker] # "ABSENT"

(* The success that completes a job is that of the worker which was        *)
(* granted the newest generation: a worker whose job was reaped and        *)
(* claimed again cannot complete it, although the late path of FinishJob   *)
(* does not look at the worker.                                            *)
FencedCompletion ==
  \A j \in Jobs :
    jobs[j].status = "COMPLETED" =>
      /\ finisher[j][2] = Len(grants[j])
      /\ Granted(j, finisher[j][1], finisher[j][2])

(* The outbox holds one dispatch per attempt and no other: row i announces *)
(* attempt i - 1, the first goes to jobs.main and the others to            *)
(* jobs.retry.  One dispatch more than attempts means that the job waits,  *)
(* or that a late success completed it while it waited.  A dispatch        *)
(* inserted without its status change, or a status change without its      *)
(* dispatch, breaks it.                                                    *)
AwaitsClaim(r) ==
  \/ r.status = "DISPATCHED"
  \/ r.status = "COMPLETED" /\ r.worker = NONE

OneDispatchPerAttempt ==
  \A j \in Jobs :
    /\ Len(outbox[j]) = jobs[j].attempt
                         + (IF AwaitsClaim(jobs[j]) THEN 1 ELSE 0)
    /\ \A i \in DOMAIN outbox[j] :
         /\ outbox[j][i].attempt = i - 1
         /\ outbox[j][i].target = (IF i = 1 THEN "main" ELSE "retry")

(* COMPLETED and FAILED are final, and so is the result that was accepted: *)
(* no late report, claim or reaper pass changes the row or its dispatches. *)
TerminalIsFinal ==
  [][\A j \in Jobs :
       jobs[j].status \in Terminal =>
         /\ jobs'[j] = jobs[j]
         /\ finisher'[j] = finisher[j]
         /\ Len(outbox'[j]) = Len(outbox[j])]_storeVars

Lifecycle == INSTANCE JobLifecycle WITH
  status  <- [j \in Jobs |-> jobs[j].status],
  attempt <- [j \in Jobs |-> jobs[j].attempt],
  max     <- [j \in Jobs |-> jobs[j].max]

(* The tables implement the life cycle of a job, whatever the callers do.  *)
ImplementsLifecycle == Lifecycle!Spec
=============================================================================
