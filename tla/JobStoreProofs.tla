--------------------------- MODULE JobStoreProofs ---------------------------
(***************************************************************************)
(* Proofs about JobStore, for any sets of jobs and workers and any inputs. *)
(***************************************************************************)
EXTENDS JobStore, TLAPS

(***************************************************************************)
(* Lemmas on rows                                                          *)
(***************************************************************************)

(* Each operator that makes a row of table jobs respects its schema.       *)
LEMMA NewRowType ==
  ASSUME NEW status \in JobStatus, NEW m \in Int
  PROVE  /\ NewRow(status, m) \in JobRow
         /\ EffectiveMaxAttempts(m) \in Nat
         /\ EffectiveMaxAttempts(m) >= 1
<1>1. /\ EffectiveMaxAttempts(m) \in Nat
      /\ EffectiveMaxAttempts(m) >= 1
  BY DEF EffectiveMaxAttempts
<1>2. NoRow \in JobRow
  BY DEF NoRow, JobRow, JobStatus, Lease
<1> QED BY <1>1, <1>2 DEF NewRow, JobRow

(* A claimed row is a row, for every worker that may claim.                *)
LEMMA ClaimedRowType ==
  ASSUME NEW r \in JobRow, NEW w \in Workers
  PROVE  ClaimedRow(r, w) \in JobRow
<1>1. r.attempt + 1 \in Nat /\ r.gen + 1 \in Nat
  BY DEF JobRow
<1> QED BY <1>1 DEF ClaimedRow, JobRow, JobStatus, Lease

(* A row after a failed attempt is a row.                                  *)
LEMMA FailedRowType ==
  ASSUME NEW r \in JobRow
  PROVE  FailedRow(r) \in JobRow
BY DEF FailedRow, JobRow, JobStatus, Lease

(* A completed row is a row.                                               *)
LEMMA CompletedRowType ==
  ASSUME NEW r \in JobRow
  PROVE  CompletedRow(r) \in JobRow
BY DEF CompletedRow, JobRow, JobStatus, Lease

(* Changing only the lease, or only the status, leaves a row.              *)
LEMMA EditedRowType ==
  ASSUME NEW r \in JobRow, NEW l \in Lease, NEW st \in JobStatus
  PROVE  /\ [r EXCEPT !.lease = l] \in JobRow
         /\ [r EXCEPT !.status = st] \in JobRow
BY DEF JobRow

(* A new dispatch is an outbox row.                                        *)
LEMMA DispatchType ==
  ASSUME NEW t \in Target, NEW a \in Nat
  PROVE  Dispatch(t, a) \in OutboxRow
BY DEF Dispatch, OutboxRow

(* Inserting a dispatch keeps the table well formed.                       *)
LEMMA InsertType ==
  ASSUME outbox \in [Jobs -> Seq(OutboxRow)],
         NEW j \in Jobs, NEW t \in Target, NEW a \in Nat,
         insertOutboxTx(j, t, a)
  PROVE  outbox' \in [Jobs -> Seq(OutboxRow)]
<1>1. Append(outbox[j], Dispatch(t, a)) \in Seq(OutboxRow)
  BY DispatchType
<1> QED BY <1>1 DEF insertOutboxTx

(* Marking rows published keeps the table well formed: no row is added or  *)
(* removed, and none changes otherwise.                                    *)
LEMMA MarkedRows ==
  ASSUME outbox \in [Jobs -> Seq(OutboxRow)],
         NEW rows, MarkOutboxPublishedTx(rows)
  PROVE  /\ outbox' \in [Jobs -> Seq(OutboxRow)]
         /\ \A j \in Jobs :
              /\ Len(outbox'[j]) = Len(outbox[j])
              /\ \A i \in 1..Len(outbox[j]) :
                   /\ outbox'[j][i].attempt = outbox[j][i].attempt
                   /\ outbox'[j][i].target = outbox[j][i].target
<1> SUFFICES ASSUME NEW j \in Jobs
             PROVE  /\ outbox'[j] \in Seq(OutboxRow)
                    /\ Len(outbox'[j]) = Len(outbox[j])
                    /\ \A i \in 1..Len(outbox[j]) :
                         /\ outbox'[j][i].attempt = outbox[j][i].attempt
                         /\ outbox'[j][i].target = outbox[j][i].target
  BY DEF MarkOutboxPublishedTx
<1> DEFINE s == outbox[j]
           t == [i \in DOMAIN s |->
                   IF <<j, i>> \in rows THEN [s[i] EXCEPT !.published = TRUE]
                                        ELSE s[i]]
<1>1. s \in Seq(OutboxRow) /\ outbox'[j] = t
  BY DEF MarkOutboxPublishedTx
<1>2. Len(s) \in Nat /\ DOMAIN s = 1..Len(s)
  BY <1>1
<1>3. \A i \in 1..Len(s) :
        /\ t[i] \in {s[i], [s[i] EXCEPT !.published = TRUE]}
        /\ s[i] \in OutboxRow
  BY <1>1, <1>2
<1> HIDE DEF s
<1>4. \A i \in 1..Len(s) :
        /\ t[i] \in OutboxRow
        /\ t[i].attempt = s[i].attempt
        /\ t[i].target = s[i].target
  <2> HIDE DEF t
  <2> QED BY <1>3 DEF OutboxRow
<1>5. t \in [1..Len(s) -> OutboxRow]
  BY <1>2, <1>4
<1> HIDE DEF t
<1>6. t \in Seq(OutboxRow) /\ Len(t) = Len(s)
  BY <1>2, <1>5
<1> QED BY <1>1, <1>4, <1>6 DEF s

(***************************************************************************)
(* Type correctness                                                        *)
(***************************************************************************)

(* The empty tables are well formed.                                       *)
LEMMA InitType == StoreInit => StoreTypeOK
<1> HAVE StoreInit
<1>1. NoRow \in JobRow
  BY DEF NoRow, JobRow, JobStatus, Lease
<1>2. <<>> \in Seq(OutboxRow) /\ <<>> \in Seq(Workers)
  OBVIOUS
<1>3. <<NONE, 0>> \in (Workers \cup {NONE}) \X Nat
  OBVIOUS
<1> QED BY <1>1, <1>2, <1>3 DEF StoreInit, StoreTypeOK, WorkerStatus

(* Every transaction keeps the tables well formed.                         *)
LEMMA NextType == StoreTypeOK /\ [StoreNext]_storeVars => StoreTypeOK'
<1> SUFFICES ASSUME StoreTypeOK, [StoreNext]_storeVars
             PROVE  StoreTypeOK'
  OBVIOUS
<1> USE DEF StoreTypeOK
<1>1. ASSUME NEW j \in Jobs, NEW m \in MaxAttemptsInputs, CreateJob(j, m)
      PROVE  StoreTypeOK'
  <2>1. NewRow("NEW", m) \in JobRow
    BY StoreAssumption, NewRowType DEF JobStatus
  <2> QED BY <1>1, <2>1 DEF CreateJob
<1>2. ASSUME NEW j \in Jobs, NEW m \in MaxAttemptsInputs,
             CreateAndDispatch(j, m)
      PROVE  StoreTypeOK'
  <2>1. NewRow("DISPATCHED", m) \in JobRow
    BY StoreAssumption, NewRowType DEF JobStatus
  <2>2. outbox' \in [Jobs -> Seq(OutboxRow)]
    BY <1>2, InsertType DEF CreateAndDispatch, Target
  <2> QED BY <1>2, <2>1, <2>2 DEF CreateAndDispatch
<1>3. ASSUME NEW j \in Jobs, QueueJob(j)
      PROVE  StoreTypeOK'
  <2>1. /\ jobs[j].attempt \in Nat
        /\ [jobs[j] EXCEPT !.status = "DISPATCHED"] \in JobRow
    <3>1. jobs[j] \in JobRow
      OBVIOUS
    <3> QED BY <3>1, EditedRowType DEF JobRow, JobStatus, Lease
  <2>2. outbox' \in [Jobs -> Seq(OutboxRow)]
    BY <1>3, <2>1, InsertType DEF QueueJob, Target
  <2> QED BY <1>3, <2>1, <2>2 DEF QueueJob
<1>4. ASSUME NEW j \in Jobs, NEW w \in Workers, ClaimJob(j, w)
      PROVE  StoreTypeOK'
  <2>1. ClaimedRow(jobs[j], w) \in JobRow
    BY ClaimedRowType
  <2>2. Append(grants[j], w) \in Seq(Workers)
    OBVIOUS
  <2> QED BY <1>4, <2>1, <2>2 DEF ClaimJob
<1>5. ASSUME NEW j \in Jobs, NEW w \in Workers, NEW g \in Nat,
             RenewLease(j, w, g)
      PROVE  StoreTypeOK'
  <2>1. [jobs[j] EXCEPT !.lease = "live"] \in JobRow
    BY EditedRowType DEF Lease, JobStatus
  <2> QED BY <1>5, <2>1 DEF RenewLease
<1>6. ASSUME NEW j \in Jobs, NEW art \in Nat, insertLogArtifactTx(j, art)
      PROVE  artifacts' \in [Jobs -> SUBSET Nat]
  BY <1>6 DEF insertLogArtifactTx
<1>7. ASSUME NEW j \in Jobs, NEW art \in Nat, FinishAgain(j, art)
      PROVE  StoreTypeOK'
  BY <1>6, <1>7 DEF FinishAgain
<1>8. ASSUME NEW j \in Jobs, NEW w \in Workers, NEW g \in Nat,
             NEW art \in Nat, FinishSuccess(j, w, g, art)
      PROVE  StoreTypeOK'
  <2>1. CompletedRow(jobs[j]) \in JobRow
    BY CompletedRowType
  <2>2. <<w, g>> \in (Workers \cup {NONE}) \X Nat
    OBVIOUS
  <2> QED BY <1>6, <1>8, <2>1, <2>2 DEF FinishSuccess
<1>9. ASSUME NEW j \in Jobs, NEW w \in Workers, NEW g \in Nat,
             NEW art \in Nat, FinishFailure(j, w, g, art)
      PROVE  StoreTypeOK'
  <2>1. FailedRow(jobs[j]) \in JobRow
    BY FailedRowType
  <2>2. outbox' \in [Jobs -> Seq(OutboxRow)]
    <3>1. CASE Exhausted(jobs[j])
      BY <1>9, <3>1 DEF FinishFailure
    <3>2. CASE ~Exhausted(jobs[j])
      <4>1. jobs[j].attempt \in Nat
        BY DEF JobRow
      <4> QED BY <1>9, <3>2, <4>1, InsertType DEF FinishFailure, Target
    <3> QED BY <3>1, <3>2
  <2> QED BY <1>6, <1>9, <2>1, <2>2 DEF FinishFailure
<1>10. ASSUME NEW j \in Jobs, LeaseExpires(j)
       PROVE  StoreTypeOK'
  <2>1. [jobs[j] EXCEPT !.lease = "expired"] \in JobRow
    BY EditedRowType DEF Lease, JobStatus
  <2> QED BY <1>10, <2>1 DEF LeaseExpires
<1>11. ASSUME NEW w \in Workers, WorkerStep(w)
       PROVE  StoreTypeOK'
  BY <1>11 DEF WorkerStep, RegisterWorker, Heartbeat, HeartbeatAges,
               WorkerStatus
<1>12. CASE MarkStaleWorkersDead
  BY <1>12 DEF MarkStaleWorkersDead, WorkerStatus
<1>13. CASE ReapOrphanJobs
  <2>1. \A j \in Jobs : FailedRow(jobs[j]) \in JobRow
    BY FailedRowType
  <2>2. ASSUME NEW j \in Jobs
        PROVE  Append(outbox[j], Dispatch("retry", jobs[j].attempt))
                 \in Seq(OutboxRow)
    <3>1. Dispatch("retry", jobs[j].attempt) \in OutboxRow
      BY DispatchType DEF Target, JobRow
    <3> QED BY <3>1
  <2>3. outbox' \in [Jobs -> Seq(OutboxRow)]
    BY <1>13, <2>2 DEF ReapOrphanJobs
  <2>4. jobs' \in [Jobs -> JobRow]
    BY <1>13, <2>1 DEF ReapOrphanJobs
  <2> QED BY <1>13, <2>3, <2>4 DEF ReapOrphanJobs
<1>14. ASSUME NEW rows, MarkOutboxPublishedTx(rows)
       PROVE  StoreTypeOK'
  <2>1. outbox' \in [Jobs -> Seq(OutboxRow)]
    BY <1>14, MarkedRows
  <2> QED BY <1>14, <2>1 DEF MarkOutboxPublishedTx
<1>15. CASE UNCHANGED storeVars
  BY <1>15 DEF storeVars
<1>16. ASSUME NEW j \in Jobs, JobStep(j)
       PROVE  StoreTypeOK'
  <2>1. \A g \in 1..Len(grants[j]) : g \in Nat
    OBVIOUS
  <2>2. \A art \in 0..jobs[j].attempt : art \in Nat
    OBVIOUS
  <2> QED BY <1>1, <1>2, <1>3, <1>4, <1>5, <1>7, <1>8, <1>9, <1>10, <1>16,
             <2>1, <2>2 DEF JobStep, CreateStep, ServeStep
<1> QED BY <1>11, <1>12, <1>13, <1>14, <1>15, <1>16 DEF StoreNext, TableStep

(* The tables are well formed in every reachable state, for any jobs,      *)
(* workers and max_attempts inputs.                                        *)
THEOREM TypeCorrect == StoreSpec => []StoreTypeOK
BY InitType, NextType, PTL DEF StoreSpec

(***************************************************************************)
(* What a transaction does to one job                                      *)
(*                                                                         *)
(* Every step of the store is, seen from one job, one of seven. The proofs *)
(* below argue about these instead of about the transactions.              *)
(***************************************************************************)

SameHistory(j) == grants'[j] = grants[j] /\ finisher'[j] = finisher[j]

SameDispatches(j) ==
  /\ Len(outbox'[j]) = Len(outbox[j])
  /\ \A i \in 1..Len(outbox[j]) :
       /\ outbox'[j][i].attempt = outbox[j][i].attempt
       /\ outbox'[j][i].target = outbox[j][i].target

NewDispatch(j, target, attempt) ==
  outbox'[j] = Append(outbox[j], Dispatch(target, attempt))

OnlyLease(j) ==
  /\ jobs[j].status = "RUNNING" \/ jobs[j].lease # "none"
  /\ \E l \in {"live", "expired"} : jobs'[j] = [jobs[j] EXCEPT !.lease = l]

Kept(j) ==
  /\ jobs'[j] = jobs[j] \/ OnlyLease(j)
  /\ SameHistory(j) /\ SameDispatches(j)

Created(j) ==
  /\ jobs[j].status = "ABSENT"
  /\ \E m \in MaxAttemptsInputs :
       \/ jobs'[j] = NewRow("NEW", m) /\ SameDispatches(j)
       \/ jobs'[j] = NewRow("DISPATCHED", m) /\ NewDispatch(j, "main", 0)
  /\ SameHistory(j)

Queued(j) ==
  /\ jobs[j].status = "NEW"
  /\ jobs'[j] = [jobs[j] EXCEPT !.status = "DISPATCHED"]
  /\ NewDispatch(j, "main", jobs[j].attempt)
  /\ SameHistory(j)

Claimed(j) ==
  \E w \in Workers :
    /\ Claimable(j, w)
    /\ jobs'[j] = ClaimedRow(jobs[j], w)
    /\ grants'[j] = Append(grants[j], w)
    /\ finisher'[j] = finisher[j]
    /\ SameDispatches(j)

Completed(j) ==
  \E w \in Workers, g \in 1..Len(grants[j]) :
    /\ Granted(j, w, g)
    /\ FinishAccepted(j, w, g, TRUE)
    /\ jobs'[j] = CompletedRow(jobs[j])
    /\ grants'[j] = grants[j]
    /\ finisher'[j] = <<w, g>>
    /\ SameDispatches(j)

AttemptLost(j) ==
  /\ jobs[j].status = "RUNNING"
  /\ jobs'[j] = FailedRow(jobs[j])
  /\ IF Exhausted(jobs[j])
     THEN SameDispatches(j)
     ELSE NewDispatch(j, "retry", jobs[j].attempt)
  /\ SameHistory(j)

Effect(j) ==
  \/ Kept(j) \/ Created(j) \/ Queued(j) \/ Claimed(j) \/ Completed(j)
  \/ AttemptLost(j)

(* An outbox that a transaction leaves alone holds the same dispatches.    *)
LEMMA UnchangedDispatches ==
  ASSUME NEW j \in Jobs, outbox'[j] = outbox[j]
  PROVE  SameDispatches(j)
BY DEF SameDispatches

(* Seen from any job, every step of the store has one of the effects.      *)
LEMMA Effects ==
  ASSUME StoreTypeOK, [StoreNext]_storeVars, NEW k \in Jobs
  PROVE  Effect(k)
<1> USE DEF StoreTypeOK
<1>1. ASSUME jobs'[k] = jobs[k], grants'[k] = grants[k],
             finisher'[k] = finisher[k], outbox'[k] = outbox[k]
      PROVE  Effect(k)
  BY <1>1, UnchangedDispatches DEF Effect, Kept, SameHistory
<1>2. ASSUME NEW j \in Jobs, NEW m \in MaxAttemptsInputs, CreateJob(j, m)
      PROVE  Effect(k)
  <2>1. CASE k = j
    BY <1>2, <2>1, UnchangedDispatches
       DEF CreateJob, Effect, Created, SameHistory
  <2>2. CASE k # j
    BY <1>1, <1>2, <2>2 DEF CreateJob
  <2> QED BY <2>1, <2>2
<1>3. ASSUME NEW j \in Jobs, NEW m \in MaxAttemptsInputs,
             CreateAndDispatch(j, m)
      PROVE  Effect(k)
  <2>1. CASE k = j
    BY <1>3, <2>1 DEF CreateAndDispatch, insertOutboxTx, Effect, Created,
                      SameHistory, NewDispatch
  <2>2. CASE k # j
    BY <1>1, <1>3, <2>2 DEF CreateAndDispatch, insertOutboxTx
  <2> QED BY <2>1, <2>2
<1>4. ASSUME NEW j \in Jobs, QueueJob(j)
      PROVE  Effect(k)
  <2>1. CASE k = j
    BY <1>4, <2>1 DEF QueueJob, insertOutboxTx, Effect, Queued, SameHistory,
                      NewDispatch
  <2>2. CASE k # j
    BY <1>1, <1>4, <2>2 DEF QueueJob, insertOutboxTx
  <2> QED BY <2>1, <2>2
<1>5. ASSUME NEW j \in Jobs, NEW w \in Workers, ClaimJob(j, w)
      PROVE  Effect(k)
  <2>1. CASE k = j
    BY <1>5, <2>1, UnchangedDispatches DEF ClaimJob, Effect, Claimed
  <2>2. CASE k # j
    BY <1>1, <1>5, <2>2 DEF ClaimJob
  <2> QED BY <2>1, <2>2
<1>6. ASSUME NEW j \in Jobs, NEW w \in Workers, NEW g \in 1..Len(grants[j]),
             RenewLease(j, w, g)
      PROVE  Effect(k)
  <2>1. CASE k = j
    BY <1>6, <2>1, UnchangedDispatches
       DEF RenewLease, HoldsLease, Effect, Kept, OnlyLease, SameHistory
  <2>2. CASE k # j
    BY <1>1, <1>6, <2>2 DEF RenewLease
  <2> QED BY <2>1, <2>2
<1>7. ASSUME NEW j \in Jobs, NEW art, FinishAgain(j, art)
      PROVE  Effect(k)
  BY <1>1, <1>7 DEF FinishAgain
<1>8. ASSUME NEW j \in Jobs, NEW w \in Workers, NEW g \in 1..Len(grants[j]),
             NEW art, Granted(j, w, g), FinishSuccess(j, w, g, art)
      PROVE  Effect(k)
  <2>1. CASE k = j
    BY <1>8, <2>1, UnchangedDispatches DEF FinishSuccess, Effect, Completed
  <2>2. CASE k # j
    BY <1>1, <1>8, <2>2 DEF FinishSuccess
  <2> QED BY <2>1, <2>2
<1>9. ASSUME NEW j \in Jobs, NEW w \in Workers, NEW g \in 1..Len(grants[j]),
             NEW art, FinishFailure(j, w, g, art)
      PROVE  Effect(k)
  <2>1. CASE k = j
    <3>1. jobs[k].status = "RUNNING"
      BY <1>9, <2>1 DEF FinishFailure, FinishAccepted, ActiveFinish,
                        LateFinish, HoldsLease
    <3>2. IF Exhausted(jobs[k])
          THEN SameDispatches(k)
          ELSE NewDispatch(k, "retry", jobs[k].attempt)
      BY <1>9, <2>1, UnchangedDispatches
         DEF FinishFailure, insertOutboxTx, NewDispatch
    <3> QED BY <1>9, <2>1, <3>1, <3>2
            DEF FinishFailure, Effect, AttemptLost, SameHistory
  <2>2. CASE k # j
    BY <1>1, <1>9, <2>2 DEF FinishFailure, insertOutboxTx
  <2> QED BY <2>1, <2>2
<1>10. ASSUME NEW j \in Jobs, LeaseExpires(j)
       PROVE  Effect(k)
  <2>1. CASE k = j
    BY <1>10, <2>1, UnchangedDispatches
       DEF LeaseExpires, Effect, Kept, OnlyLease, SameHistory
  <2>2. CASE k # j
    BY <1>1, <1>10, <2>2 DEF LeaseExpires
  <2> QED BY <2>1, <2>2
<1>11. ASSUME NEW w \in Workers, WorkerStep(w)
       PROVE  Effect(k)
  BY <1>1, <1>11 DEF WorkerStep, RegisterWorker, Heartbeat, HeartbeatAges
<1>12. CASE MarkStaleWorkersDead
  BY <1>1, <1>12 DEF MarkStaleWorkersDead
<1>13. CASE ReapOrphanJobs
  <2>1. CASE k \in Orphans
    <3>1. jobs[k].status = "RUNNING"
      BY <2>1 DEF Orphans, Orphan
    <3>2. IF Exhausted(jobs[k])
          THEN SameDispatches(k)
          ELSE NewDispatch(k, "retry", jobs[k].attempt)
      BY <1>13, <2>1, UnchangedDispatches DEF ReapOrphanJobs, NewDispatch
    <3> QED BY <1>13, <2>1, <3>1, <3>2
            DEF ReapOrphanJobs, Effect, AttemptLost, SameHistory
  <2>2. CASE k \notin Orphans
    BY <1>1, <1>13, <2>2 DEF ReapOrphanJobs
  <2> QED BY <2>1, <2>2
<1>14. ASSUME NEW rows, MarkOutboxPublishedTx(rows)
       PROVE  Effect(k)
  <2>1. SameDispatches(k)
    BY <1>14, MarkedRows DEF SameDispatches
  <2> QED BY <1>14, <2>1
          DEF MarkOutboxPublishedTx, Effect, Kept, SameHistory
<1>15. CASE UNCHANGED storeVars
  BY <1>1, <1>15 DEF storeVars
<1>16. ASSUME NEW j \in Jobs, JobStep(j)
       PROVE  Effect(k)
  BY <1>2, <1>3, <1>4, <1>5, <1>6, <1>7, <1>8, <1>9, <1>10, <1>16
     DEF JobStep, CreateStep, ServeStep
<1> QED BY <1>11, <1>12, <1>13, <1>14, <1>15, <1>16 DEF StoreNext, TableStep

(***************************************************************************)
(* The inductive invariant                                                 *)
(*                                                                         *)
(* Its parts are the invariants themselves; each needs some of the others: *)
(* fencing and the outbox count on Len(grants) = gen = attempt, the outbox *)
(* also on LeaseDiscipline, which says that a row without a worker is not  *)
(* that of a running job.                                                  *)
(***************************************************************************)

StoreInv ==
  /\ StoreTypeOK
  /\ AttemptsWithinLimit
  /\ LeaseDiscipline
  /\ FencedCompletion
  /\ OneDispatchPerAttempt

(* The rows an operator makes, field by field.                             *)
LEMMA ClaimedFields ==
  ASSUME NEW r \in JobRow, NEW w \in Workers
  PROVE  LET c == ClaimedRow(r, w) IN
           /\ c.status = "RUNNING" /\ c.worker = w /\ c.lease = "live"
           /\ c.attempt = r.attempt + 1 /\ c.gen = r.gen + 1
           /\ c.max = r.max
BY DEF ClaimedRow, JobRow

(* A completed row keeps all but status and lease.                         *)
LEMMA CompletedFields ==
  ASSUME NEW r \in JobRow
  PROVE  LET c == CompletedRow(r) IN
           /\ c.status = "COMPLETED" /\ c.worker = r.worker
           /\ c.lease = "none" /\ c.attempt = r.attempt /\ c.gen = r.gen
           /\ c.max = r.max
BY DEF CompletedRow, JobRow

(* A row after a lost attempt: failed when the limit is reached, else      *)
(* waiting and free.                                                       *)
LEMMA FailedFields ==
  ASSUME NEW r \in JobRow
  PROVE  LET c == FailedRow(r) IN
           /\ c.lease = "none" /\ c.attempt = r.attempt /\ c.gen = r.gen
           /\ c.max = r.max
           /\ r.attempt >= r.max => c.status = "FAILED"
           /\ r.attempt < r.max => c.status = "DISPATCHED" /\ c.worker = NONE
<1>1. CASE Exhausted(r)
  BY <1>1 DEF FailedRow, Exhausted, JobRow
<1>2. CASE ~Exhausted(r)
  <2>1. r.attempt < r.max
    BY <1>2 DEF Exhausted, JobRow
  <2> QED BY <1>2, <2>1 DEF FailedRow, Exhausted, JobRow
<1> QED BY <1>1, <1>2

(* A new row, field by field.                                              *)
LEMMA NewRowFields ==
  ASSUME NEW status \in JobStatus, NEW m \in Int
  PROVE  LET c == NewRow(status, m) IN
           /\ c.status = status /\ c.worker = NONE /\ c.lease = "none"
           /\ c.attempt = 0 /\ c.gen = 0 /\ c.max \in Nat /\ c.max >= 1
<1>1. /\ EffectiveMaxAttempts(m) \in Nat
      /\ EffectiveMaxAttempts(m) >= 1
  BY NewRowType
<1> QED BY <1>1 DEF NewRow, NoRow

(* An edit of the lease or of the status changes that field only.          *)
LEMMA EditedFields ==
  ASSUME NEW r \in JobRow, NEW v
  PROVE  /\ LET c == [r EXCEPT !.lease = v] IN
              /\ c.status = r.status /\ c.worker = r.worker /\ c.lease = v
              /\ c.attempt = r.attempt /\ c.gen = r.gen /\ c.max = r.max
         /\ LET c == [r EXCEPT !.status = v] IN
              /\ c.status = v /\ c.worker = r.worker /\ c.lease = r.lease
              /\ c.attempt = r.attempt /\ c.gen = r.gen /\ c.max = r.max
BY DEF JobRow

(* The invariants on attempts and generations are inductive.               *)
LEMMA StepAttempts ==
  StoreTypeOK /\ AttemptsWithinLimit /\ [StoreNext]_storeVars
    => AttemptsWithinLimit'
<1> SUFFICES ASSUME StoreTypeOK, AttemptsWithinLimit, [StoreNext]_storeVars,
                    NEW j \in Jobs
             PROVE  LET r == jobs'[j] IN
                      /\ r.gen = r.attempt
                      /\ Len(grants'[j]) = r.attempt
                      /\ r.attempt <= r.max
                      /\ r.status \in {"ABSENT", "NEW"} => r.attempt = 0
                      /\ r.status \in {"NEW", "DISPATCHED"} => r.attempt < r.max
                      /\ r.status \in {"RUNNING", "COMPLETED"} => r.attempt >= 1
                      /\ r.status = "FAILED" =>
                           r.attempt = r.max /\ r.attempt >= 1
  BY DEF AttemptsWithinLimit
<1>1. Effect(j)
  BY Effects
<1>2. /\ jobs[j] \in JobRow
      /\ jobs[j].attempt \in Nat /\ jobs[j].max \in Nat
      /\ grants[j] \in Seq(Workers)
  BY DEF StoreTypeOK, JobRow
<1> USE DEF AttemptsWithinLimit
<1>3. CASE Kept(j)
  <2>1. CASE jobs'[j] = jobs[j]
    BY <1>3, <2>1 DEF Kept, SameHistory
  <2>2. CASE OnlyLease(j)
    BY <1>2, <1>3, <2>2, EditedFields DEF Kept, OnlyLease, SameHistory
  <2> QED BY <1>3, <2>1, <2>2 DEF Kept
<1>4. CASE Created(j)
  <2>1. PICK m \in MaxAttemptsInputs :
          jobs'[j] \in {NewRow("NEW", m), NewRow("DISPATCHED", m)}
    BY <1>4 DEF Created
  <2>2. m \in Int
    BY StoreAssumption
  <2>3. Len(grants'[j]) = 0
    BY <1>2, <1>4 DEF Created, SameHistory
  <2>4. /\ jobs'[j].status \in {"NEW", "DISPATCHED"}
        /\ jobs'[j].attempt = 0 /\ jobs'[j].gen = 0
        /\ jobs'[j].max \in Nat /\ jobs'[j].max >= 1
    BY <2>1, <2>2, NewRowFields DEF JobStatus
  <2> QED BY <2>3, <2>4
<1>5. CASE Queued(j)
  BY <1>2, <1>5, EditedFields DEF Queued, SameHistory
<1>6. CASE Claimed(j)
  <2>1. PICK w \in Workers : /\ Claimable(j, w)
                             /\ jobs'[j] = ClaimedRow(jobs[j], w)
                             /\ grants'[j] = Append(grants[j], w)
    BY <1>6 DEF Claimed
  <2>2. Len(grants'[j]) = Len(grants[j]) + 1
    BY <1>2, <2>1
  <2> QED BY <1>2, <2>1, <2>2, ClaimedFields DEF Claimable
<1>7. CASE Completed(j)
  <2>1. PICK w \in Workers, g \in 1..Len(grants[j]) :
               /\ jobs'[j] = CompletedRow(jobs[j])
               /\ grants'[j] = grants[j]
    BY <1>7 DEF Completed
  <2>2. jobs[j].attempt >= 1
    BY <1>2, <2>1
  <2> QED BY <1>2, <2>1, <2>2, CompletedFields
<1>8. CASE AttemptLost(j)
  <2>1. /\ jobs[j].status = "RUNNING" /\ jobs'[j] = FailedRow(jobs[j])
        /\ grants'[j] = grants[j]
    BY <1>8 DEF AttemptLost, SameHistory
  <2>2. CASE jobs[j].attempt >= jobs[j].max
    BY <1>2, <2>1, <2>2, FailedFields
  <2>3. CASE jobs[j].attempt < jobs[j].max
    BY <1>2, <2>1, <2>3, FailedFields
  <2> QED BY <1>2, <2>2, <2>3
<1> QED BY <1>1, <1>3, <1>4, <1>5, <1>6, <1>7, <1>8 DEF Effect

(* A registered worker stays registered: rows of workers are never deleted *)
LEMMA WorkersStay ==
  ASSUME StoreTypeOK, [StoreNext]_storeVars,
         NEW w \in Workers, workers[w] # "ABSENT"
  PROVE  workers'[w] # "ABSENT"
<1> USE DEF StoreTypeOK
<1>1. CASE \E j \in Jobs : JobStep(j)
  <2>1. PICK j \in Jobs : JobStep(j)
    BY <1>1
  <2>2. \A m : CreateJob(j, m) \/ CreateAndDispatch(j, m)
                => workers' = workers
    BY DEF CreateJob, CreateAndDispatch
  <2>3. QueueJob(j) \/ LeaseExpires(j) => workers' = workers
    BY DEF QueueJob, LeaseExpires
  <2>4. \A v, g : ClaimJob(j, v) \/ RenewLease(j, v, g) => workers' = workers
    BY DEF ClaimJob, RenewLease
  <2>5. \A v, g, art : \/ FinishAgain(j, art)
                       \/ FinishSuccess(j, v, g, art)
                       \/ FinishFailure(j, v, g, art)
                       => workers' = workers
    BY DEF FinishAgain, FinishSuccess, FinishFailure
  <2>6. workers' = workers
    BY <2>1, <2>2, <2>3, <2>4, <2>5 DEF JobStep, CreateStep, ServeStep
  <2> QED BY <2>6
<1>2. CASE \E v \in Workers : WorkerStep(v)
  BY <1>2 DEF WorkerStep, RegisterWorker, Heartbeat, HeartbeatAges
<1>3. CASE MarkStaleWorkersDead
  BY <1>3 DEF MarkStaleWorkersDead
<1>4. CASE ReapOrphanJobs
  BY <1>4 DEF ReapOrphanJobs
<1>5. CASE \E rows \in SUBSET UnpublishedRows : MarkOutboxPublishedTx(rows)
  BY <1>5 DEF MarkOutboxPublishedTx
<1>6. CASE UNCHANGED storeVars
  BY <1>6 DEF storeVars
<1> QED BY <1>1, <1>2, <1>3, <1>4, <1>5, <1>6 DEF StoreNext, TableStep

(* The lease discipline is inductive, given the attempts.                  *)
LEMMA StepLease ==
  StoreTypeOK /\ AttemptsWithinLimit /\ LeaseDiscipline
    /\ [StoreNext]_storeVars => LeaseDiscipline'
<1> SUFFICES ASSUME StoreTypeOK, AttemptsWithinLimit, LeaseDiscipline,
                    [StoreNext]_storeVars, NEW j \in Jobs
             PROVE  LET r == jobs'[j] IN
                      /\ r.status = "RUNNING" <=> r.lease # "none"
                      /\ r.status \in {"NEW", "DISPATCHED"} => r.worker = NONE
                      /\ r.status = "RUNNING" =>
                           /\ r.worker = grants'[j][Len(grants'[j])]
                           /\ workers'[r.worker] # "ABSENT"
  BY DEF LeaseDiscipline
<1>1. Effect(j)
  BY Effects
<1>2. /\ jobs[j] \in JobRow /\ jobs[j].worker \in Workers \cup {NONE}
      /\ jobs[j].attempt \in Nat /\ jobs[j].max \in Nat
      /\ grants[j] \in Seq(Workers)
  BY DEF StoreTypeOK, JobRow
<1>3. jobs[j].status = "RUNNING" =>
        /\ jobs[j].worker \in Workers
        /\ workers'[jobs[j].worker] # "ABSENT"
  <2> SUFFICES ASSUME jobs[j].status = "RUNNING"
               PROVE  /\ jobs[j].worker \in Workers
                      /\ workers'[jobs[j].worker] # "ABSENT"
    OBVIOUS
  <2>1. Len(grants[j]) >= 1 /\ Len(grants[j]) \in Nat
    BY <1>2 DEF AttemptsWithinLimit
  <2>2. grants[j][Len(grants[j])] \in Workers
    BY <1>2, <2>1
  <2>3. jobs[j].worker \in Workers /\ workers[jobs[j].worker] # "ABSENT"
    BY <2>2 DEF LeaseDiscipline
  <2> QED BY <2>3, WorkersStay
<1> USE DEF LeaseDiscipline
<1>4. CASE Kept(j)
  <2>1. CASE jobs'[j] = jobs[j]
    BY <1>3, <1>4, <2>1 DEF Kept, SameHistory
  <2>2. CASE OnlyLease(j)
    BY <1>2, <1>3, <1>4, <2>2, EditedFields DEF Kept, OnlyLease, SameHistory
  <2> QED BY <1>4, <2>1, <2>2 DEF Kept
<1>5. CASE Created(j)
  <2>1. PICK m \in MaxAttemptsInputs :
          jobs'[j] \in {NewRow("NEW", m), NewRow("DISPATCHED", m)}
    BY <1>5 DEF Created
  <2>2. /\ jobs'[j].status \in {"NEW", "DISPATCHED"}
        /\ jobs'[j].worker = NONE /\ jobs'[j].lease = "none"
    BY <2>1, StoreAssumption, NewRowFields DEF JobStatus
  <2> QED BY <2>2
<1>6. CASE Queued(j)
  BY <1>2, <1>6, EditedFields DEF Queued
<1>7. CASE Claimed(j)
  <2>1. PICK w \in Workers : /\ Claimable(j, w)
                             /\ jobs'[j] = ClaimedRow(jobs[j], w)
                             /\ grants'[j] = Append(grants[j], w)
    BY <1>7 DEF Claimed
  <2>2. grants'[j][Len(grants'[j])] = w
    BY <1>2, <2>1
  <2>3. workers'[w] # "ABSENT"
    BY <2>1, WorkersStay DEF Claimable
  <2> QED BY <1>2, <2>1, <2>2, <2>3, ClaimedFields
<1>8. CASE Completed(j)
  BY <1>2, <1>8, CompletedFields DEF Completed
<1>9. CASE AttemptLost(j)
  <2>1. jobs'[j] = FailedRow(jobs[j])
    BY <1>9 DEF AttemptLost
  <2>2. jobs'[j].lease = "none"
    BY <1>2, <2>1, FailedFields
  <2>3. CASE jobs[j].attempt >= jobs[j].max
    BY <1>2, <2>1, <2>2, <2>3, FailedFields
  <2>4. CASE jobs[j].attempt < jobs[j].max
    BY <1>2, <2>1, <2>2, <2>4, FailedFields
  <2> QED BY <1>2, <2>3, <2>4
<1> QED BY <1>1, <1>4, <1>5, <1>6, <1>7, <1>8, <1>9 DEF Effect

(* A job that ended takes no further step: nothing but Kept applies to it. *)
LEMMA TerminalKept ==
  ASSUME StoreTypeOK, LeaseDiscipline, [StoreNext]_storeVars,
         NEW j \in Jobs, jobs[j].status \in Terminal
  PROVE  /\ jobs'[j] = jobs[j]
         /\ SameHistory(j) /\ SameDispatches(j)
<1>1. Effect(j)
  BY Effects
<1>2. jobs[j].lease = "none"
  BY DEF LeaseDiscipline, Terminal
<1>3. ~OnlyLease(j)
  BY <1>2 DEF OnlyLease, Terminal
<1> QED BY <1>1, <1>3
        DEF Effect, Kept, Created, Queued, Claimed, Claimable, Completed,
            FinishAccepted, ActiveFinish, LateFinish, HoldsLease, AttemptLost,
            Terminal

(* Fencing is inductive, given that generation, attempts and the number of *)
(* grants agree.                                                           *)
LEMMA StepFenced ==
  StoreTypeOK /\ AttemptsWithinLimit /\ LeaseDiscipline /\ FencedCompletion
    /\ [StoreNext]_storeVars => FencedCompletion'
<1> SUFFICES ASSUME StoreTypeOK, AttemptsWithinLimit, LeaseDiscipline,
                    FencedCompletion, [StoreNext]_storeVars, NEW j \in Jobs,
                    jobs'[j].status = "COMPLETED"
             PROVE  /\ finisher'[j][2] = Len(grants'[j])
                    /\ finisher'[j][2] \in 1..Len(grants'[j])
                    /\ grants'[j][finisher'[j][2]] = finisher'[j][1]
  BY DEF FencedCompletion, Granted
<1>1. Effect(j)
  BY Effects
<1>2. /\ jobs[j] \in JobRow
      /\ jobs[j].attempt \in Nat /\ jobs[j].max \in Nat
  BY DEF StoreTypeOK, JobRow
<1>3. CASE jobs[j].status = "COMPLETED"
  BY <1>3, TerminalKept DEF Terminal, SameHistory, FencedCompletion, Granted
<1>4. CASE jobs[j].status # "COMPLETED"
  <2>1. ~Kept(j)
    <3>1. CASE jobs'[j] = jobs[j]
      BY <1>4, <3>1
    <3>2. CASE OnlyLease(j)
      BY <1>2, <1>4, <3>2, EditedFields DEF OnlyLease
    <3> QED BY <3>1, <3>2 DEF Kept
  <2>2. ~Created(j)
    BY StoreAssumption, NewRowFields DEF Created, JobStatus
  <2>3. ~Queued(j)
    <3>1. [jobs[j] EXCEPT !.status = "DISPATCHED"].status = "DISPATCHED"
      BY <1>2, EditedFields
    <3> QED BY <3>1 DEF Queued
  <2>4. ~Claimed(j)
    BY <1>2, ClaimedFields DEF Claimed
  <2>5. ~AttemptLost(j)
    <3>1. CASE jobs[j].attempt >= jobs[j].max
      BY <1>2, <3>1, FailedFields DEF AttemptLost
    <3>2. CASE jobs[j].attempt < jobs[j].max
      BY <1>2, <3>2, FailedFields DEF AttemptLost
    <3> QED BY <1>2, <3>1, <3>2
  <2>6. PICK w \in Workers, g \in 1..Len(grants[j]) :
               /\ Granted(j, w, g) /\ FinishAccepted(j, w, g, TRUE)
               /\ grants'[j] = grants[j] /\ finisher'[j] = <<w, g>>
    BY <1>1, <2>1, <2>2, <2>3, <2>4, <2>5 DEF Effect, Completed
  <2>7. g = Len(grants[j])
    BY <2>6 DEF FinishAccepted, ActiveFinish, LateFinish, HoldsLease,
                AttemptsWithinLimit
  <2> QED BY <2>6, <2>7 DEF Granted
<1> QED BY <1>3, <1>4

(* The dispatches of a job are inductive, given its attempts and leases.   *)
LEMMA StepDispatches ==
  StoreTypeOK /\ AttemptsWithinLimit /\ LeaseDiscipline
    /\ OneDispatchPerAttempt /\ [StoreNext]_storeVars
      => OneDispatchPerAttempt'
<1> DEFINE Numbered(rows, n) ==
             \A i \in 1..n :
               /\ rows[i].attempt = i - 1
               /\ rows[i].target = (IF i = 1 THEN "main" ELSE "retry")
           Waits(r) == IF AwaitsClaim(r) THEN 1 ELSE 0
<1> SUFFICES ASSUME StoreTypeOK, AttemptsWithinLimit, LeaseDiscipline,
                    OneDispatchPerAttempt, [StoreNext]_storeVars
             PROVE  OneDispatchPerAttempt'
  OBVIOUS
<1>0. \A j \in Jobs : DOMAIN outbox'[j] = 1..Len(outbox'[j])
  <2>1. StoreTypeOK'
    BY NextType
  <2> QED BY <2>1 DEF StoreTypeOK
<1> SUFFICES ASSUME NEW j \in Jobs
             PROVE  /\ Len(outbox'[j]) = jobs'[j].attempt + Waits(jobs'[j])
                    /\ Numbered(outbox'[j], Len(outbox'[j]))
  BY <1>0 DEF OneDispatchPerAttempt
<1>1. Effect(j)
  BY Effects
<1>2. /\ jobs[j] \in JobRow /\ outbox[j] \in Seq(OutboxRow)
      /\ jobs[j].attempt \in Nat /\ jobs[j].max \in Nat
      /\ Len(outbox[j]) \in Nat
  BY DEF StoreTypeOK, JobRow
<1>3. /\ Len(outbox[j]) = jobs[j].attempt + Waits(jobs[j])
      /\ Numbered(outbox[j], Len(outbox[j]))
  BY <1>2 DEF OneDispatchPerAttempt
<1>4. ASSUME SameDispatches(j)
      PROVE  /\ Len(outbox'[j]) = Len(outbox[j])
             /\ Numbered(outbox'[j], Len(outbox'[j]))
  BY <1>3, <1>4 DEF SameDispatches
<1>5. ASSUME NEW t \in Target, NEW a \in Nat, NewDispatch(j, t, a),
             a = Len(outbox[j]), t = (IF a = 0 THEN "main" ELSE "retry")
      PROVE  /\ Len(outbox'[j]) = Len(outbox[j]) + 1
             /\ Numbered(outbox'[j], Len(outbox'[j]))
  <2>1. Dispatch(t, a).attempt = a /\ Dispatch(t, a).target = t
    BY DEF Dispatch
  <2>2. /\ Len(outbox'[j]) = Len(outbox[j]) + 1
        /\ outbox'[j][Len(outbox[j]) + 1] = Dispatch(t, a)
        /\ \A i \in 1..Len(outbox[j]) : outbox'[j][i] = outbox[j][i]
    BY <1>2, <1>5 DEF NewDispatch
  <2>3. ASSUME NEW i \in 1..Len(outbox'[j])
        PROVE  /\ outbox'[j][i].attempt = i - 1
               /\ outbox'[j][i].target = (IF i = 1 THEN "main" ELSE "retry")
    <3>1. CASE i \in 1..Len(outbox[j])
      BY <1>3, <2>2, <3>1
    <3>2. CASE i = Len(outbox[j]) + 1
      BY <1>2, <1>5, <2>1, <2>2, <3>2
    <3> QED BY <1>2, <2>2, <3>1, <3>2
  <2> QED BY <2>2, <2>3
<1> HIDE DEF Numbered
<1>6. CASE Kept(j)
  <2>1. CASE jobs'[j] = jobs[j]
    BY <1>3, <1>4, <1>6, <2>1 DEF Kept
  <2>2. CASE OnlyLease(j)
    <3>1. /\ jobs'[j].attempt = jobs[j].attempt
          /\ Waits(jobs'[j]) = Waits(jobs[j])
      BY <1>2, <2>2, EditedFields DEF OnlyLease, AwaitsClaim
    <3> QED BY <1>3, <1>4, <1>6, <3>1 DEF Kept
  <2> QED BY <1>6, <2>1, <2>2 DEF Kept
<1>7. CASE Created(j)
  <2>1. PICK m \in MaxAttemptsInputs :
          \/ jobs'[j] = NewRow("NEW", m) /\ SameDispatches(j)
          \/ jobs'[j] = NewRow("DISPATCHED", m) /\ NewDispatch(j, "main", 0)
    BY <1>7 DEF Created
  <2>2. Len(outbox[j]) = 0
    BY <1>2, <1>3, <1>7 DEF Created, AttemptsWithinLimit, AwaitsClaim
  <2>3. m \in Int
    BY StoreAssumption
  <2>4. CASE jobs'[j] = NewRow("NEW", m) /\ SameDispatches(j)
    <3>1. jobs'[j].attempt = 0 /\ Waits(jobs'[j]) = 0
      BY <2>3, <2>4, NewRowFields DEF JobStatus, AwaitsClaim
    <3> QED BY <1>4, <2>2, <2>4, <3>1
  <2>5. CASE jobs'[j] = NewRow("DISPATCHED", m) /\ NewDispatch(j, "main", 0)
    <3>1. jobs'[j].attempt = 0 /\ Waits(jobs'[j]) = 1
      BY <2>3, <2>5, NewRowFields DEF JobStatus, AwaitsClaim
    <3> QED BY <1>5, <2>2, <2>5, <3>1 DEF Target
  <2> QED BY <2>1, <2>4, <2>5
<1>8. CASE Queued(j)
  <2>1. jobs[j].attempt = 0 /\ Len(outbox[j]) = 0
    BY <1>2, <1>3, <1>8 DEF Queued, AttemptsWithinLimit, AwaitsClaim
  <2>2. jobs'[j].attempt = 0 /\ Waits(jobs'[j]) = 1
    BY <1>2, <1>8, <2>1, EditedFields DEF Queued, AwaitsClaim
  <2> QED BY <1>5, <1>8, <2>1, <2>2 DEF Queued, Target
<1>9. CASE Claimed(j)
  <2>1. PICK w \in Workers : /\ Claimable(j, w) /\ SameDispatches(j)
                             /\ jobs'[j] = ClaimedRow(jobs[j], w)
    BY <1>9 DEF Claimed
  <2>2. Waits(jobs[j]) = 1
    BY <2>1 DEF Claimable, AwaitsClaim
  <2>3. jobs'[j].attempt = jobs[j].attempt + 1 /\ Waits(jobs'[j]) = 0
    BY <1>2, <2>1, ClaimedFields DEF AwaitsClaim
  <2> QED BY <1>2, <1>3, <1>4, <2>1, <2>2, <2>3
<1>10. CASE Completed(j)
  <2>1. PICK w \in Workers, g \in 1..Len(grants[j]) :
               /\ FinishAccepted(j, w, g, TRUE) /\ SameDispatches(j)
               /\ jobs'[j] = CompletedRow(jobs[j])
    BY <1>10 DEF Completed
  <2>2. /\ jobs'[j].status = "COMPLETED"
        /\ jobs'[j].worker = jobs[j].worker
        /\ jobs'[j].attempt = jobs[j].attempt
    BY <1>2, <2>1, CompletedFields
  <2>3. Waits(jobs'[j]) = Waits(jobs[j])
    <3>1. CASE ActiveFinish(j, w, g)
      BY <2>2, <3>1, StoreAssumption DEF ActiveFinish, HoldsLease, AwaitsClaim
    <3>2. CASE LateFinish(j, g, TRUE)
      BY <2>2, <3>2 DEF LateFinish, AwaitsClaim
    <3> QED BY <2>1, <3>1, <3>2 DEF FinishAccepted
  <2> QED BY <1>3, <1>4, <2>1, <2>2, <2>3
<1>11. CASE AttemptLost(j)
  <2>1. /\ jobs[j].attempt >= 1
        /\ Len(outbox[j]) = jobs[j].attempt
    <3>1. jobs[j].status = "RUNNING"
      BY <1>11 DEF AttemptLost
    <3>2. Waits(jobs[j]) = 0
      BY <3>1 DEF AwaitsClaim
    <3>3. jobs[j].attempt >= 1
      BY <3>1 DEF AttemptsWithinLimit
    <3> QED BY <1>2, <1>3, <3>2, <3>3
  <2>2. jobs'[j] = FailedRow(jobs[j])
    BY <1>11 DEF AttemptLost
  <2>3. CASE Exhausted(jobs[j])
    <3>1. jobs'[j].attempt = jobs[j].attempt /\ jobs'[j].status = "FAILED"
      BY <1>2, <2>2, <2>3, FailedFields DEF Exhausted
    <3>2. SameDispatches(j)
      BY <1>11, <2>3 DEF AttemptLost
    <3> QED BY <1>2, <1>4, <2>1, <3>1, <3>2 DEF AwaitsClaim
  <2>4. CASE ~Exhausted(jobs[j])
    <3>1. jobs[j].attempt < jobs[j].max
      BY <1>2, <2>4 DEF Exhausted
    <3>2. jobs'[j].attempt = jobs[j].attempt /\ jobs'[j].status = "DISPATCHED"
      BY <1>2, <2>2, <3>1, FailedFields
    <3>3. NewDispatch(j, "retry", jobs[j].attempt)
      BY <1>11, <2>4 DEF AttemptLost
    <3>4. /\ Len(outbox'[j]) = Len(outbox[j]) + 1
          /\ Numbered(outbox'[j], Len(outbox'[j]))
      BY <1>2, <1>5, <2>1, <3>3 DEF Target
    <3> QED BY <1>2, <2>1, <3>2, <3>4 DEF AwaitsClaim
  <2> QED BY <2>3, <2>4
<1> QED BY <1>1, <1>6, <1>7, <1>8, <1>9, <1>10, <1>11 DEF Effect

(***************************************************************************)
(* The invariants hold                                                     *)
(***************************************************************************)

(* The empty tables satisfy the inductive invariant.                       *)
LEMMA InitInv == StoreInit => StoreInv
<1> SUFFICES ASSUME StoreInit
             PROVE  StoreInv
  OBVIOUS
<1>1. StoreTypeOK
  BY InitType
<1>2. \A j \in Jobs :
        /\ jobs[j].status = "ABSENT" /\ jobs[j].worker = NONE
        /\ jobs[j].attempt = 0 /\ jobs[j].max = 0 /\ jobs[j].gen = 0
        /\ jobs[j].lease = "none"
        /\ grants[j] = <<>> /\ outbox[j] = <<>>
  BY DEF StoreInit, NoRow
<1>3. AttemptsWithinLimit
  BY <1>2 DEF AttemptsWithinLimit
<1>4. LeaseDiscipline /\ FencedCompletion
  BY <1>2 DEF LeaseDiscipline, FencedCompletion
<1>5. OneDispatchPerAttempt
  BY <1>2 DEF OneDispatchPerAttempt, AwaitsClaim
<1> QED BY <1>1, <1>3, <1>4, <1>5 DEF StoreInv

(* Every transaction keeps the inductive invariant.                        *)
LEMMA NextInv == StoreInv /\ [StoreNext]_storeVars => StoreInv'
BY NextType, StepAttempts, StepLease, StepFenced, StepDispatches DEF StoreInv

(* What a composing module needs of a step: attempts and grants only grow, *)
(* and a job is completed by the result that is recorded with it.          *)
LEMMA AttemptsGrow ==
  ASSUME StoreInv, [StoreNext]_storeVars, NEW j \in Jobs
  PROVE  /\ jobs[j].attempt \in Nat /\ jobs'[j].attempt \in Nat
         /\ Len(grants[j]) = jobs[j].attempt
         /\ Len(grants'[j]) = jobs'[j].attempt
         /\ jobs'[j].attempt >= jobs[j].attempt
<1>1. StoreInv'
  BY NextInv
<1>2. /\ jobs[j].attempt \in Nat /\ jobs'[j].attempt \in Nat
      /\ grants[j] \in Seq(Workers)
  BY <1>1 DEF StoreInv, StoreTypeOK, JobRow
<1>3. Len(grants[j]) = jobs[j].attempt /\ Len(grants'[j]) = jobs'[j].attempt
  BY <1>1 DEF StoreInv, AttemptsWithinLimit
<1>4. Effect(j)
  BY Effects DEF StoreInv
<1>5. \/ grants'[j] = grants[j]
      \/ \E w \in Workers : grants'[j] = Append(grants[j], w)
  BY <1>4 DEF Effect, Kept, Created, Queued, Claimed, Completed, AttemptLost,
              SameHistory
<1>6. Len(grants'[j]) >= Len(grants[j])
  BY <1>2, <1>3, <1>5
<1> QED BY <1>2, <1>3, <1>6

(* The inductive invariant holds in every reachable state.                 *)
THEOREM StoreCorrect == StoreSpec => []StoreInv
BY InitInv, NextInv, PTL DEF StoreSpec

(* No job is ever claimed more often than its max_attempts allows, and a   *)
(* FAILED job was claimed exactly that often (ClaimJob, FinishJob,         *)
(* ReapOrphanJobs).                                                        *)
THEOREM AttemptsAreBounded == StoreSpec => []AttemptsWithinLimit
<1>1. StoreInv => AttemptsWithinLimit
  BY DEF StoreInv
<1> QED BY <1>1, StoreCorrect, PTL

(* A running job always has a lease and a registered holder, the one that  *)
(* claimed it last, so ReapOrphanJobs can find it.                         *)
THEOREM LeasesAreDisciplined == StoreSpec => []LeaseDiscipline
<1>1. StoreInv => LeaseDiscipline
  BY DEF StoreInv
<1> QED BY <1>1, StoreCorrect, PTL

(* FinishJob completes a job only with the success of the newest grant.    *)
THEOREM CompletionIsFenced == StoreSpec => []FencedCompletion
<1>1. StoreInv => FencedCompletion
  BY DEF StoreInv
<1> QED BY <1>1, StoreCorrect, PTL

(* Every attempt has exactly one dispatch in job_outbox.                   *)
THEOREM DispatchesMatchAttempts == StoreSpec => []OneDispatchPerAttempt
<1>1. StoreInv => OneDispatchPerAttempt
  BY DEF StoreInv
<1> QED BY <1>1, StoreCorrect, PTL

(* COMPLETED and FAILED are final under every transaction.                 *)
THEOREM TerminalStates == StoreSpec => TerminalIsFinal
<1>1. StoreInv /\ [StoreNext]_storeVars =>
        \A j \in Jobs :
          jobs[j].status \in Terminal =>
            /\ jobs'[j] = jobs[j]
            /\ finisher'[j] = finisher[j]
            /\ Len(outbox'[j]) = Len(outbox[j])
  BY TerminalKept DEF StoreInv, SameHistory, SameDispatches
<1> QED BY <1>1, StoreCorrect, PTL DEF StoreSpec, TerminalIsFinal

(***************************************************************************)
(* Refinement                                                              *)
(***************************************************************************)

(* Each effect is a step of the life cycle of the job.                     *)
LEMMA LifecycleStep ==
  ASSUME StoreInv, [StoreNext]_storeVars
  PROVE  Lifecycle!Next
<1>1. StoreTypeOK /\ StoreTypeOK'
  BY NextType DEF StoreInv
<1>2. /\ [j \in Jobs |-> jobs[j].status]' \in [Jobs -> JobStatus]
      /\ [j \in Jobs |-> jobs[j].attempt]' \in [Jobs -> Nat]
      /\ [j \in Jobs |-> jobs[j].max]' \in [Jobs -> Nat]
  BY <1>1 DEF StoreTypeOK, JobRow
<1>3. ASSUME NEW j \in Jobs
      PROVE  \/ Lifecycle!Created(j) \/ Lifecycle!Queued(j)
             \/ Lifecycle!Started(j) \/ Lifecycle!Succeeded(j)
             \/ Lifecycle!Retried(j) \/ Lifecycle!Exhausted(j)
             \/ Lifecycle!Unmoved(j)
  <2> DEFINE r == jobs[j]
             q == jobs'[j]
  <2>1. Effect(j)
    BY <1>1, Effects
  <2>2. /\ r \in JobRow /\ r.attempt \in Nat /\ r.max \in Nat
        /\ grants[j] \in Seq(Workers)
    BY <1>1 DEF StoreTypeOK, JobRow
  <2>3. AttemptsWithinLimit /\ LeaseDiscipline
    BY DEF StoreInv
  <2>4. CASE Kept(j)
    <3>1. q.status = r.status /\ q.attempt = r.attempt /\ q.max = r.max
      <4>1. CASE q = r
        BY <4>1
      <4>2. CASE OnlyLease(j)
        <5>1. PICK l : q = [r EXCEPT !.lease = l]
          BY <4>2 DEF OnlyLease
        <5> HIDE DEF r, q
        <5> QED BY <2>2, <5>1, EditedFields
      <4> QED BY <2>4, <4>1, <4>2 DEF Kept
    <3> QED BY <3>1 DEF Lifecycle!Unmoved, Lifecycle!SameLimit
  <2>5. CASE Created(j)
    <3>1. /\ r.status = "ABSENT" /\ q.status \in {"NEW", "DISPATCHED"}
          /\ q.attempt = 0 /\ q.max >= 1
      BY <2>5, StoreAssumption, NewRowFields DEF Created, JobStatus
    <3> QED BY <3>1 DEF Lifecycle!Created
  <2>6. CASE Queued(j)
    <3>1. /\ r.status = "NEW" /\ q.status = "DISPATCHED"
          /\ q.attempt = r.attempt /\ q.max = r.max
      BY <2>2, <2>6, EditedFields DEF Queued
    <3> QED BY <3>1 DEF Lifecycle!Queued, Lifecycle!SameLimit
  <2>7. CASE Claimed(j)
    <3>1. /\ r.status = "DISPATCHED" /\ q.status = "RUNNING"
          /\ q.attempt = r.attempt + 1 /\ q.max = r.max
      BY <2>2, <2>7, ClaimedFields DEF Claimed, Claimable
    <3>2. r.attempt < r.max
      BY <2>3, <3>1 DEF AttemptsWithinLimit
    <3> QED BY <3>1, <3>2 DEF Lifecycle!Started, Lifecycle!SameLimit
  <2>8. CASE Completed(j)
    <3>1. PICK w \in Workers, g \in 1..Len(grants[j]) :
            FinishAccepted(j, w, g, TRUE) /\ q = CompletedRow(r)
      BY <2>8 DEF Completed
    <3>2. /\ q.status = "COMPLETED"
          /\ q.attempt = r.attempt /\ q.max = r.max
      BY <2>2, <3>1, CompletedFields
    <3>3. r.attempt >= 1
      BY <2>2, <2>3, <3>1 DEF AttemptsWithinLimit
    <3>4. r.status = "RUNNING" \/ r.status = "DISPATCHED"
      BY <3>1 DEF FinishAccepted, ActiveFinish, LateFinish, HoldsLease
    <3> QED BY <3>2, <3>3, <3>4
            DEF Lifecycle!Succeeded, Lifecycle!SameLimit
  <2>9. CASE AttemptLost(j)
    <3>1. r.status = "RUNNING" /\ q = FailedRow(r)
      BY <2>9 DEF AttemptLost
    <3>2. r.attempt <= r.max
      BY <2>3 DEF AttemptsWithinLimit
    <3>3. CASE r.attempt = r.max
      <4>1. /\ q.status = "FAILED"
            /\ q.attempt = r.attempt /\ q.max = r.max
        BY <2>2, <3>1, <3>3, FailedFields
      <4> QED BY <3>1, <3>3, <4>1
              DEF Lifecycle!Exhausted, Lifecycle!SameLimit
    <3>4. CASE r.attempt < r.max
      <4>1. /\ q.status = "DISPATCHED"
            /\ q.attempt = r.attempt /\ q.max = r.max
        BY <2>2, <3>1, <3>4, FailedFields
      <4> QED BY <3>1, <3>4, <4>1
              DEF Lifecycle!Retried, Lifecycle!SameLimit
    <3> QED BY <2>2, <3>2, <3>3, <3>4
  <2> QED BY <2>1, <2>4, <2>5, <2>6, <2>7, <2>8, <2>9 DEF Effect
<1> QED BY <1>2, <1>3 DEF Lifecycle!Next, Lifecycle!JobStatus, JobStatus

(* The tables implement the life cycle: the abstract specification holds   *)
(* of status, attempt and max_attempts of every job.                       *)
THEOREM StoreImplementsLifecycle == StoreSpec => ImplementsLifecycle
<1>1. StoreInit => Lifecycle!Init
  BY DEF StoreInit, Lifecycle!Init, NoRow
<1>2. StoreInv /\ [StoreNext]_storeVars => [Lifecycle!Next]_(Lifecycle!vars)
  BY LifecycleStep
<1> QED BY <1>1, <1>2, StoreCorrect, PTL
        DEF StoreSpec, ImplementsLifecycle, Lifecycle!Spec

(***************************************************************************)
(* Progress                                                                *)
(***************************************************************************)

(* How far a job has come, of the 2 * max + 3 steps there are for it.      *)
Progress(j) ==
  LET r == jobs[j]
  IN CASE r.status = "ABSENT" -> 0
       [] r.status = "NEW" -> 1
       [] r.status = "DISPATCHED" -> 2 * r.attempt + 2
       [] r.status = "RUNNING" -> 2 * r.attempt + 1
       [] r.status \in Terminal -> 2 * r.max + 3

MovesForward(j) ==
  \/ jobs'[j].status = jobs[j].status /\ jobs'[j].attempt = jobs[j].attempt
  \/ Progress(j)' > Progress(j)

ProgressIsBounded == \A j \in Jobs : Progress(j) \in 0..(2 * jobs[j].max + 3)

(* A job beyond the first attempt has not more attempts than allowed.      *)
LEMMA ProgressBound == StoreInv => ProgressIsBounded
<1> SUFFICES ASSUME StoreInv, NEW j \in Jobs
             PROVE  Progress(j) \in 0..(2 * jobs[j].max + 3)
  BY DEF ProgressIsBounded
<1> DEFINE s == jobs[j].status
           a == jobs[j].attempt
           m == jobs[j].max
<1>1. /\ s \in JobStatus /\ a \in Nat /\ m \in Nat /\ a <= m
  BY DEF StoreInv, StoreTypeOK, JobRow, AttemptsWithinLimit
<1>2. Progress(j) = CASE s = "ABSENT" -> 0
                      [] s = "NEW" -> 1
                      [] s = "DISPATCHED" -> 2 * a + 2
                      [] s = "RUNNING" -> 2 * a + 1
                      [] s \in Terminal -> 2 * m + 3
  BY DEF Progress
<1> HIDE DEF s, a, m
<1>3. Progress(j) \in 0..(2 * m + 3)
  BY <1>1, <1>2 DEF JobStatus, Terminal
<1> QED BY <1>3 DEF m

(* Every step of the life cycle that moves a job moves it forward.         *)
LEMMA StepsMoveForward ==
  ASSUME StoreInv, [StoreNext]_storeVars, NEW j \in Jobs
  PROVE  MovesForward(j)
<1> DEFINE s == jobs[j].status
           a == jobs[j].attempt
           m == jobs[j].max
           t == jobs'[j].status
           b == jobs'[j].attempt
           n == jobs'[j].max
<1>1. /\ s \in JobStatus /\ a \in Nat /\ m \in Nat /\ a <= m
  BY DEF StoreInv, StoreTypeOK, JobRow, AttemptsWithinLimit
<1>2. /\ t \in JobStatus /\ b \in Nat /\ n \in Nat
  BY NextType DEF StoreInv, StoreTypeOK, JobRow
<1>3. Progress(j) = CASE s = "ABSENT" -> 0
                      [] s = "NEW" -> 1
                      [] s = "DISPATCHED" -> 2 * a + 2
                      [] s = "RUNNING" -> 2 * a + 1
                      [] s \in Terminal -> 2 * m + 3
  BY DEF Progress
<1>4. Progress(j)' = CASE t = "ABSENT" -> 0
                       [] t = "NEW" -> 1
                       [] t = "DISPATCHED" -> 2 * b + 2
                       [] t = "RUNNING" -> 2 * b + 1
                       [] t \in Terminal -> 2 * n + 3
  BY DEF Progress
<1>5. \/ s = t /\ a = b
      \/ s = "ABSENT" /\ t \in {"NEW", "DISPATCHED"}
      \/ s = "NEW" /\ t = "DISPATCHED"
      \/ s = "DISPATCHED" /\ t = "RUNNING" /\ b = a + 1
      \/ s \in {"RUNNING", "DISPATCHED"} /\ t \in Terminal /\ n = m
      \/ s = "RUNNING" /\ t = "DISPATCHED" /\ b = a
  BY LifecycleStep
     DEF Lifecycle!Next, Lifecycle!Created, Lifecycle!Queued,
         Lifecycle!Started, Lifecycle!Succeeded, Lifecycle!Retried,
         Lifecycle!Exhausted, Lifecycle!Unmoved, Lifecycle!SameLimit, Terminal
<1> SUFFICES ~(s = t /\ a = b) => Progress(j)' > Progress(j)
  BY DEF MovesForward
<1> HIDE DEF s, a, m, t, b, n
<1> QED BY <1>1, <1>2, <1>3, <1>4, <1>5 DEF JobStatus, Terminal

(* No job is ever sent round for nothing: whatever claims, results,        *)
(* deaths, retries and reaper passes do to it, each of them that moves it  *)
(* takes it closer to an end, which is at most 2 * max_attempts + 3 moves  *)
(* away from the beginning.                                                *)
THEOREM JobsOnlyAdvance ==
  StoreSpec => /\ []ProgressIsBounded
               /\ [][\A j \in Jobs : MovesForward(j)]_storeVars
<1>1. StoreInv /\ [StoreNext]_storeVars
        => [\A j \in Jobs : MovesForward(j)]_storeVars
  BY StepsMoveForward
<1> QED BY <1>1, ProgressBound, StoreCorrect, PTL DEF StoreSpec

=============================================================================
