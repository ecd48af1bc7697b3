--------------------------- MODULE PlatformProofs ---------------------------
(***************************************************************************)
(* Proofs about Platform, for any jobs and workers, any number of handlers *)
(* per worker, and any number of faults of any kind.                       *)
(*                                                                         *)
(* What the parts send to the store is what the store has handed out, so   *)
(* the store's invariants hold for the composed system.  On top of them    *)
(* stands what relates handlers, messages and rows to the tables.          *)
(***************************************************************************)
EXTENDS Platform, JobStoreProofs, FiniteSetTheorems

Busy == {"run", "killed", "submit"}

(* A handler that works has a job, and one that has claimed it executes a  *)
(* generation that was granted to its worker.                              *)
SlotGranted(s) ==
  /\ slot[s].pc # "idle" => slot[s].job \in Jobs
  /\ slot[s].pc \in Busy => Granted(slot[s].job, s[1], slot[s].gen)

SlotsGranted == \A s \in Slots : SlotGranted(s)

(* Faults after which a handler gives up a message that it has not used.   *)
GivesUp == {"claimError", "shutdown"} \cap FaultKinds # {}

(* A message of the job is in the broker: ready, delayed, dead-lettered if *)
(* handlers give up, or delivered to a handler that has not claimed yet,   *)
(* so that the broker puts it back or dead-letters it unless the claim     *)
(* succeeds.                                                               *)
InBroker(j) ==
  \/ main[j] > 0 \/ retry[j] > 0 \/ (GivesUp /\ dlq[j] > 0)
  \/ \E s \in Slots : slot[s].pc = "claim" /\ slot[s].held /\ slot[s].job = j

RowToPublish(j) == \E i \in Unpublished(j) : <<j, i>> \notin pending

(* The waiting job lost a message for good, while it waits for this try.   *)
Gone(j) == <<j, jobs[j].attempt>> \in vanished

WaitingIsCarried ==
  \A j \in Jobs :
    jobs[j].status = "DISPATCHED" => RowToPublish(j) \/ InBroker(j) \/ Gone(j)

NobodyStops == GivesUp \/ \A w \in Workers : ~proc[w].cancelled

(* Faults after which a message is gone.                                   *)
Loses == {"misread", "publishLost"} \cap FaultKinds # {}

NothingVanishes == Loses \/ vanished = {}

PlatformInv ==
  /\ StoreInv /\ PlatformTypeOK /\ SlotsGranted
  /\ NobodyStops /\ NothingVanishes
  /\ OneExecutionPerGrant /\ KilledOnlyWhenLost /\ WaitingIsCarried

(* Nothing is dispatched and nobody works at first.                        *)
LEMMA PlatformInit == Init => PlatformInv
<1> HAVE Init
<1>1. StoreInv
  BY InitInv DEF Init
<1>2. \A s \in Slots : slot[s] = IdleSlot /\ slot[s].pc = "idle"
  BY DEF Init, IdleSlot
<1>3. IdleSlot \in SlotState
  BY DEF IdleSlot, SlotState
<1>4. Down \in Proc
  BY DEF Down, Proc
<1>5. PlatformTypeOK
  BY <1>1, <1>3, <1>4, PlatformAssumption
     DEF Init, PlatformTypeOK, StoreInv
<1>6. SlotsGranted /\ OneExecutionPerGrant /\ KilledOnlyWhenLost
  BY <1>2 DEF SlotsGranted, SlotGranted, OneExecutionPerGrant,
              KilledOnlyWhenLost, Busy
<1>7. WaitingIsCarried
  BY DEF Init, StoreInit, NoRow, WaitingIsCarried
<1>8. NobodyStops /\ NothingVanishes
  BY DEF Init, Down, NobodyStops, NothingVanishes
<1> QED BY <1>1, <1>5, <1>6, <1>7, <1>8 DEF PlatformInv

(***************************************************************************)
(* What the store does to grants, leases and dispatches                    *)
(***************************************************************************)

(* A grant is never taken back or changed.                                 *)
LEMMA GrantsKept ==
  ASSUME StoreInv, [StoreNext]_storeVars,
         NEW j \in Jobs, NEW w, NEW g, Granted(j, w, g)
  PROVE  Granted(j, w, g)'
<1>1. Effect(j) /\ grants[j] \in Seq(Workers)
  BY Effects DEF StoreInv, StoreTypeOK
<1>2. \/ grants'[j] = grants[j]
      \/ \E v \in Workers : grants'[j] = Append(grants[j], v)
  BY <1>1 DEF Effect, Kept, Created, Queued, Claimed, Completed, AttemptLost,
              SameHistory
<1> QED BY <1>1, <1>2 DEF Granted

(* A lease that a grantee has lost does not come back: a later claim has a *)
(* generation of its own.                                                  *)
LEMMA LostStaysLost ==
  ASSUME StoreInv, [StoreNext]_storeVars,
         NEW j \in Jobs, NEW w, NEW g, Granted(j, w, g), ~HoldsLease(j, w, g)
  PROVE  ~HoldsLease(j, w, g)'
<1>1. /\ Effect(j) /\ jobs[j] \in JobRow /\ g \in 1..Len(grants[j])
      /\ jobs[j].gen = Len(grants[j]) /\ jobs[j].gen \in Nat
  BY Effects DEF StoreInv, StoreTypeOK, AttemptsWithinLimit, Granted, JobRow
<1>2. CASE Kept(j)
  <2>1. /\ jobs'[j].worker = jobs[j].worker
        /\ jobs'[j].status = jobs[j].status /\ jobs'[j].gen = jobs[j].gen
    <3>1. CASE jobs'[j] = jobs[j]
      BY <3>1
    <3>2. CASE OnlyLease(j)
      <4>1. PICK l : jobs'[j] = [jobs[j] EXCEPT !.lease = l]
        BY <3>2 DEF OnlyLease
      <4> QED BY <1>1, <4>1, EditedFields
    <3> QED BY <1>2, <3>1, <3>2 DEF Kept
  <2> QED BY <2>1 DEF HoldsLease
<1>3. CASE Claimed(j)
  <2>1. PICK v \in Workers : jobs'[j] = ClaimedRow(jobs[j], v)
    BY <1>3 DEF Claimed
  <2>2. jobs'[j].gen = jobs[j].gen + 1
    BY <1>1, <2>1, ClaimedFields
  <2> QED BY <1>1, <2>2 DEF HoldsLease
<1>4. CASE Created(j)
  <2>1. jobs'[j].status \in {"NEW", "DISPATCHED"}
    BY <1>4, StoreAssumption, NewRowFields DEF Created, JobStatus
  <2> QED BY <2>1 DEF HoldsLease
<1>5. CASE Queued(j)
  BY <1>1, <1>5, EditedFields DEF Queued, HoldsLease
<1>6. CASE Completed(j)
  BY <1>1, <1>6, CompletedFields DEF Completed, HoldsLease
<1>7. CASE AttemptLost(j)
  <2>1. jobs'[j].status \in {"FAILED", "DISPATCHED"}
    BY <1>1, <1>7, FailedFields DEF AttemptLost, JobRow
  <2> QED BY <2>1 DEF HoldsLease
<1> QED BY <1>1, <1>2, <1>3, <1>4, <1>5, <1>6, <1>7 DEF Effect

(* All transactions but the relay's.                                       *)
PlainNext ==
  \/ \E j \in Jobs : JobStep(j)
  \/ \E w \in Workers : WorkerStep(w)
  \/ MarkStaleWorkersDead
  \/ ReapOrphanJobs

Extended(j) ==
  \/ outbox'[j] = outbox[j]
  \/ \E t \in Target, a \in Nat :
       outbox'[j] = Append(outbox[j], Dispatch(t, a))

Announced(j) ==
  /\ Extended(j)
  /\ jobs'[j].status = "DISPATCHED" =>
       \/ outbox'[j] # outbox[j]
       \/ /\ jobs[j].status = "DISPATCHED"
          /\ jobs'[j].attempt = jobs[j].attempt

(* Whoever makes a job wait inserts a row for the relay.                   *)
LEMMA WaitingIsAnnounced ==
  ASSUME StoreTypeOK, [PlainNext]_storeVars, NEW k \in Jobs
  PROVE  Announced(k)
<1> USE DEF StoreTypeOK
<1>1. ASSUME jobs'[k] = jobs[k], outbox'[k] = outbox[k]
      PROVE  Announced(k)
  BY <1>1 DEF Announced, Extended
<1>2. ASSUME NEW t \in Target, NEW a \in Nat,
             outbox'[k] = Append(outbox[k], Dispatch(t, a))
      PROVE  Announced(k)
  <2>1. outbox[k] \in Seq(OutboxRow)
    OBVIOUS
  <2>2. Len(outbox'[k]) # Len(outbox[k])
    BY <1>2, <2>1
  <2> QED BY <1>2, <2>2 DEF Announced, Extended
<1>3. ASSUME outbox'[k] = outbox[k], jobs'[k].status # "DISPATCHED"
      PROVE  Announced(k)
  BY <1>3 DEF Announced, Extended
<1>4. ASSUME NEW j \in Jobs, NEW t \in Target, NEW a \in Nat,
             insertOutboxTx(j, t, a), j # k => jobs'[k] = jobs[k]
      PROVE  Announced(k)
  <2>1. CASE j = k
    BY <1>2, <1>4, <2>1 DEF insertOutboxTx
  <2>2. CASE j # k
    BY <1>1, <1>4, <2>2 DEF insertOutboxTx
  <2> QED BY <2>1, <2>2
<1>5. /\ jobs \in [Jobs -> JobRow] /\ outbox \in [Jobs -> Seq(OutboxRow)]
      /\ \A j \in Jobs : jobs[j].attempt \in Nat
  BY DEF JobRow
<1>6. ASSUME NEW j \in Jobs, NEW m \in MaxAttemptsInputs,
             CreateJob(j, m) \/ CreateAndDispatch(j, m)
      PROVE  Announced(k)
  <2>1. CASE CreateJob(j, m)
    <3>1. NewRow("NEW", m).status = "NEW"
      BY DEF NewRow, NoRow
    <3> QED BY <1>1, <1>3, <1>5, <2>1, <3>1 DEF CreateJob
  <2>2. CASE CreateAndDispatch(j, m)
    BY <1>4, <1>5, <2>2 DEF CreateAndDispatch, Target
  <2> QED BY <1>6, <2>1, <2>2
<1>7. ASSUME NEW j \in Jobs, QueueJob(j)
      PROVE  Announced(k)
  BY <1>4, <1>5, <1>7 DEF QueueJob, Target
<1>8. ASSUME NEW j \in Jobs, NEW w \in Workers, ClaimJob(j, w)
      PROVE  Announced(k)
  <2>1. ClaimedRow(jobs[j], w).status = "RUNNING"
    BY ClaimedFields, <1>5
  <2> QED BY <1>1, <1>3, <1>5, <1>8, <2>1 DEF ClaimJob
<1>9. ASSUME NEW j \in Jobs, NEW l,
             jobs' = [jobs EXCEPT ![j].lease = l], outbox' = outbox
      PROVE  Announced(k)
  <2>1. /\ jobs'[k].status = jobs[k].status
        /\ jobs'[k].attempt = jobs[k].attempt
    BY <1>5, <1>9 DEF JobRow
  <2> QED BY <1>9, <2>1 DEF Announced, Extended
<1>10. ASSUME NEW j \in Jobs, NEW w, NEW g, NEW art,
              FinishSuccess(j, w, g, art)
       PROVE  Announced(k)
  <2>1. CompletedRow(jobs[j]).status = "COMPLETED"
    BY CompletedFields, <1>5
  <2> QED BY <1>1, <1>3, <1>5, <1>10, <2>1 DEF FinishSuccess
<1>11. ASSUME NEW j \in Jobs, NEW w, NEW g, NEW art,
              FinishFailure(j, w, g, art)
       PROVE  Announced(k)
  <2>1. CASE Exhausted(jobs[j])
    <3>1. FailedRow(jobs[j]).status = "FAILED"
      BY <1>5, <2>1 DEF FailedRow, JobRow
    <3> QED BY <1>1, <1>3, <1>5, <1>11, <2>1, <3>1 DEF FinishFailure
  <2>2. CASE ~Exhausted(jobs[j])
    BY <1>4, <1>5, <1>11, <2>2 DEF FinishFailure, Target
  <2> QED BY <2>1, <2>2
<1>12. ASSUME NEW j \in Jobs, JobStep(j)
       PROVE  Announced(k)
  <2>1. \A w, g : RenewLease(j, w, g) => Announced(k)
    BY <1>9 DEF RenewLease
  <2>2. LeaseExpires(j) => Announced(k)
    BY <1>9 DEF LeaseExpires
  <2>3. \A art : FinishAgain(j, art) => Announced(k)
    BY <1>1 DEF FinishAgain
  <2> QED BY <1>6, <1>7, <1>8, <1>10, <1>11, <1>12, <2>1, <2>2, <2>3
          DEF JobStep, CreateStep, ServeStep
<1>13. CASE ReapOrphanJobs
  <2>1. CASE k \in Orphans /\ ~Exhausted(jobs[k])
    BY <1>2, <1>5, <1>13, <2>1 DEF ReapOrphanJobs, Target
  <2>2. CASE k \in Orphans /\ Exhausted(jobs[k])
    <3>1. FailedRow(jobs[k]).status = "FAILED"
      BY <1>5, <2>2 DEF FailedRow, JobRow
    <3> QED BY <1>3, <1>13, <2>2, <3>1 DEF ReapOrphanJobs
  <2>3. CASE k \notin Orphans
    BY <1>1, <1>13, <2>3 DEF ReapOrphanJobs
  <2> QED BY <2>1, <2>2, <2>3
<1>14. CASE MarkStaleWorkersDead \/ \E w \in Workers : WorkerStep(w)
  BY <1>1, <1>14 DEF MarkStaleWorkersDead, WorkerStep, RegisterWorker,
                     Heartbeat, HeartbeatAges
<1>15. CASE UNCHANGED storeVars
  BY <1>1, <1>15 DEF storeVars
<1> QED BY <1>12, <1>13, <1>14, <1>15 DEF PlainNext
(***************************************************************************)
(* What a step of the loop does to the handlers                            *)
(***************************************************************************)

(* A handler that has claimed goes on with its grant, is cancelled when    *)
(* the lease is lost or an error is misread, or starts with the newest     *)
(* grant.                                                                  *)
GoesOn(s) ==
  /\ slot[s].pc \in Busy /\ slot'[s].pc \in Busy
  /\ slot'[s].job = slot[s].job /\ slot'[s].gen = slot[s].gen
  /\ slot'[s].pc = "killed"
       => ~Holds(s) \/ <<slot[s].job, slot[s].gen>> \in misread'

Starts(s) ==
  LET j == slot'[s].job
  IN /\ slot'[s].pc = "run" /\ j \in Jobs
     /\ slot'[s].gen = Len(grants[j]) + 1
     /\ grants'[j] = Append(grants[j], s[1])

NotClaimed(s) ==
  \/ slot'[s].pc = "idle"
  \/ slot'[s].pc = "claim" /\ slot'[s].job \in Jobs

SlotMove(s) == NotClaimed(s) \/ GoesOn(s) \/ Starts(s)

(* Histories only grow, and nothing vanishes where nothing is lost.        *)
HistoryMove ==
  /\ vanished \subseteq vanished' /\ vanished' \subseteq Jobs \X Nat
  /\ misread \subseteq misread' /\ misread' \subseteq Jobs \X Nat
  /\ Loses \/ vanished' = {}

LEMMA HistoryStays ==
  ASSUME PlatformInv, UNCHANGED historyVars
  PROVE  HistoryMove
BY DEF PlatformInv, PlatformTypeOK, NothingVanishes, HistoryMove, historyVars

(* Such moves, one start at most among them, keep what is said of handlers *)
(* and grants: the new grant is one that nobody has worked with.           *)
LEMMA HandlersKeepGrants ==
  ASSUME PlatformInv, [StoreNext]_storeVars, misread \subseteq misread',
         \A s \in Slots : SlotMove(s),
         \A s, t \in Slots : Starts(s) /\ Starts(t) => s = t
  PROVE  SlotsGranted' /\ OneExecutionPerGrant' /\ KilledOnlyWhenLost'
<1>1. \A j \in Jobs : grants[j] \in Seq(Workers)
  BY DEF PlatformInv, StoreInv, StoreTypeOK
<1>2. ASSUME NEW s \in Slots
      PROVE  s[1] \in Workers
  BY DEF Slots
<1>3. ASSUME NEW s \in Slots, GoesOn(s)
      PROVE  /\ slot[s].job \in Jobs
             /\ Granted(slot[s].job, s[1], slot[s].gen)
             /\ Granted(slot[s].job, s[1], slot[s].gen)'
  <2>1. slot[s].job \in Jobs /\ Granted(slot[s].job, s[1], slot[s].gen)
    BY <1>3 DEF PlatformInv, SlotsGranted, SlotGranted, GoesOn, Busy
  <2>2. PICK j \in Jobs, g \in Nat : j = slot[s].job /\ g = slot[s].gen
    BY <2>1 DEF PlatformInv, PlatformTypeOK, SlotState
  <2>3. \A w : Granted(j, w, g) => Granted(j, w, g)'
    BY GrantsKept DEF PlatformInv
  <2> QED BY <1>3, <2>1, <2>2, <2>3 DEF Granted, GoesOn
<1>4. ASSUME NEW s \in Slots, Starts(s)
      PROVE  LET j == slot'[s].job
             IN /\ j \in Jobs /\ slot'[s].gen = Len(grants[j]) + 1
                /\ slot'[s].gen \in 1..Len(grants'[j])
                /\ grants'[j][slot'[s].gen] = s[1]
  BY <1>1, <1>2, <1>4 DEF Starts
<1>5. SlotsGranted'
  <2> SUFFICES ASSUME NEW s \in Slots
               PROVE  SlotGranted(s)'
    BY DEF SlotsGranted
  <2>1. CASE NotClaimed(s)
    BY <2>1 DEF NotClaimed, SlotGranted, Busy
  <2>2. CASE GoesOn(s)
    BY <1>3, <2>2 DEF GoesOn, SlotGranted, Granted
  <2>3. CASE Starts(s)
    BY <1>4, <2>3 DEF SlotGranted, Granted
  <2> QED BY <2>1, <2>2, <2>3 DEF SlotMove
<1>6. OneExecutionPerGrant'
  <2> SUFFICES ASSUME NEW s \in Slots, NEW t \in Slots, s # t,
                      slot'[s].pc \in Busy, slot'[t].pc \in Busy
               PROVE  \/ slot'[s].job # slot'[t].job
                      \/ slot'[s].gen # slot'[t].gen
    BY DEF OneExecutionPerGrant, Busy
  <2>1. /\ GoesOn(s) \/ Starts(s)
        /\ GoesOn(t) \/ Starts(t)
        /\ ~(Starts(s) /\ Starts(t))
    BY DEF SlotMove, NotClaimed, Busy
  <2>2. CASE GoesOn(s) /\ GoesOn(t)
    BY <2>2 DEF PlatformInv, OneExecutionPerGrant, GoesOn, Busy
  <2>3. ASSUME NEW u \in Slots, NEW v \in Slots, GoesOn(u), Starts(v)
        PROVE  \/ slot'[u].job # slot'[v].job
               \/ slot'[u].gen # slot'[v].gen
    <3>1. /\ slot'[u].job = slot[u].job /\ slot'[u].gen = slot[u].gen
          /\ slot[u].gen \in 1..Len(grants[slot[u].job])
      BY <1>3, <2>3 DEF GoesOn, Granted
    <3>2. slot'[v].job \in Jobs
          /\ slot'[v].gen = Len(grants[slot'[v].job]) + 1
      BY <1>4, <2>3
    <3>3. Len(grants[slot'[v].job]) \in Nat
      BY <1>1, <3>2
    <3> QED BY <3>1, <3>2, <3>3
  <2> QED BY <2>1, <2>2, <2>3
<1>7. KilledOnlyWhenLost'
  <2> SUFFICES ASSUME NEW s \in Slots, slot'[s].pc = "killed",
                      <<slot'[s].job, slot'[s].gen>> \notin misread'
               PROVE  ~Holds(s)'
    BY DEF KilledOnlyWhenLost
  <2>1. GoesOn(s)
    BY DEF SlotMove, NotClaimed, Starts
  <2>2. PICK j \in Jobs, g \in Nat : j = slot[s].job /\ g = slot[s].gen
    BY <1>3, <2>1 DEF PlatformInv, PlatformTypeOK, SlotState
  <2>3. Granted(j, s[1], g) /\ ~HoldsLease(j, s[1], g)
    BY <1>3, <2>1, <2>2 DEF GoesOn, Holds
  <2>4. ~HoldsLease(j, s[1], g)'
    BY <2>3, LostStaysLost DEF PlatformInv
  <2> QED BY <2>1, <2>2, <2>4 DEF GoesOn, Holds, HoldsLease
<1> QED BY <1>5, <1>6, <1>7

(***************************************************************************)
(* Steps that are not the relay's commit                                   *)
(***************************************************************************)

(* A job that waits after the step has a message, or none was needed: the  *)
(* relay has not published more of its rows.                               *)
KeepsMessage(j) ==
  jobs'[j].status = "DISPATCHED" =>
    \/ InBroker(j)' \/ Gone(j)'
    \/ ~InBroker(j) /\ \A i : <<j, i>> \in pending' => <<j, i>> \in pending

(* No worker is told to stop by a step, unless handlers may give up.       *)
NoStop ==
  GivesUp \/ \A w \in Workers : proc'[w].cancelled => proc[w].cancelled

(* What has to be shown of such a step.                                    *)
LEMMA PlainStep ==
  ASSUME PlatformInv, [PlainNext]_storeVars,
         main' \in [Jobs -> Nat], retry' \in [Jobs -> Nat],
         dlq' \in [Jobs -> Nat],
         pending' \subseteq pending \cup UnpublishedRows,
         blocked' \subseteq blocked \cup UnpublishedRows,
         reaper' \in {"mark", "reap"}, proc' \in [Workers -> Proc],
         slot' \in [Slots -> SlotState], faults' \in 0..MaxFaults,
         HistoryMove,
         \A s \in Slots : SlotMove(s),
         \A s, t \in Slots : Starts(s) /\ Starts(t) => s = t,
         \A j \in Jobs : KeepsMessage(j), NoStop
  PROVE  PlatformInv'
<1>1. [StoreNext]_storeVars
  BY DEF PlainNext, StoreNext, TableStep
<1>2. StoreInv'
  BY <1>1, NextInv DEF PlatformInv
<1>3. SlotsGranted' /\ OneExecutionPerGrant' /\ KilledOnlyWhenLost'
  BY <1>1, HandlersKeepGrants DEF HistoryMove
<1>4. \A j \in Jobs : Announced(j)
  BY WaitingIsAnnounced DEF PlatformInv, StoreInv
<1>5. ASSUME NEW j \in Jobs
      PROVE  /\ Unpublished(j) \subseteq Unpublished(j)'
             /\ outbox'[j] # outbox[j]
                  => Len(outbox[j]) + 1 \in Unpublished(j)' \ Unpublished(j)
  <2>1. outbox[j] \in Seq(OutboxRow)
    BY DEF PlatformInv, StoreInv, StoreTypeOK
  <2>2. CASE outbox'[j] = outbox[j]
    BY <2>2 DEF Unpublished
  <2>3. ASSUME NEW t, NEW a, outbox'[j] = Append(outbox[j], Dispatch(t, a))
        PROVE  /\ Unpublished(j) \subseteq Unpublished(j)'
               /\ Len(outbox[j]) + 1 \in Unpublished(j)' \ Unpublished(j)
    <3>1. /\ DOMAIN outbox'[j] = 1..(Len(outbox[j]) + 1)
          /\ DOMAIN outbox[j] = 1..Len(outbox[j]) /\ Len(outbox[j]) \in Nat
          /\ \A i \in 1..Len(outbox[j]) : outbox'[j][i] = outbox[j][i]
          /\ outbox'[j][Len(outbox[j]) + 1] = Dispatch(t, a)
      BY <2>1, <2>3
    <3>2. Dispatch(t, a).published = FALSE
      BY DEF Dispatch
    <3> QED BY <3>1, <3>2 DEF Unpublished
  <2> QED BY <1>4, <2>2, <2>3 DEF Announced, Extended
<1>6. /\ pending' \subseteq UnpublishedRows'
      /\ blocked' \subseteq UnpublishedRows'
  <2> SUFFICES ASSUME NEW row \in UnpublishedRows
               PROVE  row \in UnpublishedRows'
    BY DEF PlatformInv, PlatformTypeOK
  <2>1. PICK j \in Jobs : \E i \in Unpublished(j) : row = <<j, i>>
    BY DEF UnpublishedRows
  <2> QED BY <1>5, <2>1 DEF UnpublishedRows
<1>7. PlatformTypeOK'
  BY <1>2, <1>6 DEF PlatformTypeOK, StoreInv, HistoryMove
<1>8. WaitingIsCarried'
  <2> SUFFICES ASSUME NEW j \in Jobs, jobs'[j].status = "DISPATCHED",
                      ~InBroker(j)', ~Gone(j)'
               PROVE  RowToPublish(j)'
    BY DEF WaitingIsCarried
  <2>1. ~InBroker(j) /\ \A i : <<j, i>> \in pending' => <<j, i>> \in pending
    BY DEF KeepsMessage
  <2>2. CASE /\ jobs[j].status = "DISPATCHED"
             /\ jobs'[j].attempt = jobs[j].attempt
    <3>0. ~Gone(j)
      BY <2>2 DEF Gone, HistoryMove
    <3>1. PICK i \in Unpublished(j) : <<j, i>> \notin pending
      BY <2>1, <2>2, <3>0 DEF PlatformInv, WaitingIsCarried, RowToPublish
    <3> QED BY <1>5, <2>1, <3>1 DEF RowToPublish
  <2>3. CASE outbox'[j] # outbox[j]
    <3> DEFINE i == Len(outbox[j]) + 1
    <3>1. i \in Unpublished(j)' /\ i \notin Unpublished(j)
      BY <1>5, <2>3
    <3> HIDE DEF i
    <3>2. <<j, i>> \notin UnpublishedRows
      BY <3>1 DEF UnpublishedRows
    <3>3. <<j, i>> \notin pending'
      BY <2>1, <3>2 DEF PlatformInv, PlatformTypeOK
    <3> QED BY <3>1, <3>3 DEF RowToPublish
  <2> QED BY <1>4, <2>2, <2>3 DEF Announced
<1>9. NobodyStops' /\ NothingVanishes'
  BY DEF PlatformInv, NobodyStops, NoStop, GivesUp, NothingVanishes, Loses,
         HistoryMove
<1> QED BY <1>2, <1>3, <1>7, <1>8, <1>9 DEF PlatformInv

(* A handler that keeps its place and its grant makes such a move.         *)
LEMMA HandlerStays ==
  ASSUME PlatformInv, NEW t \in Slots,
         slot'[t].pc = slot[t].pc, slot'[t].job = slot[t].job,
         slot'[t].gen = slot[t].gen, misread \subseteq misread'
  PROVE  SlotMove(t) /\ ~Starts(t)
<1>1. /\ slot[t] \in SlotState
      /\ slot[t].pc # "idle" => slot[t].job \in Jobs
      /\ slot[t].pc = "killed"
           => ~Holds(t) \/ <<slot[t].job, slot[t].gen>> \in misread'
  BY DEF PlatformInv, PlatformTypeOK, SlotsGranted, SlotGranted,
         KilledOnlyWhenLost
<1>2. SlotMove(t)
  BY <1>1 DEF SlotMove, NotClaimed, GoesOn, Busy, SlotState
<1>3. ~Starts(t)
  <2>1. SUFFICES ASSUME Starts(t) PROVE FALSE
    OBVIOUS
  <2>2. PICK j \in Jobs : j = slot[t].job
    BY <2>1 DEF Starts
  <2>3. Granted(j, t[1], slot[t].gen) /\ slot[t].gen = Len(grants[j]) + 1
    BY <2>1, <2>2 DEF Starts, PlatformInv, SlotsGranted, SlotGranted, Busy
  <2>4. Len(grants[j]) \in Nat
    BY DEF PlatformInv, StoreInv, StoreTypeOK
  <2> QED BY <2>3, <2>4 DEF Granted
<1> QED BY <1>2, <1>3

(* A step of one handler that leaves the queues alone, but for a message   *)
(* it may dead-letter.                                                     *)
LEMMA HandlerMove ==
  ASSUME PlatformInv, [PlainNext]_storeVars,
         NEW s \in Slots, NEW r \in SlotState,
         slot' = [slot EXCEPT ![s] = r], SlotMove(s),
         UNCHANGED <<main, retry, relayVars, reaper, proc>>, HistoryMove,
         faults' \in 0..MaxFaults, dlq' \in [Jobs -> Nat],
         \A j \in Jobs : dlq[j] > 0 => dlq'[j] > 0,
         \A j \in Jobs :
           slot[s].pc = "claim" /\ slot[s].held /\ slot[s].job = j
             => \/ jobs'[j].status # "DISPATCHED" \/ Gone(j)'
                \/ GivesUp /\ dlq'[j] > 0
  PROVE  PlatformInv'
<1>1. /\ slot \in [Slots -> SlotState] /\ main \in [Jobs -> Nat]
      /\ retry \in [Jobs -> Nat] /\ reaper \in {"mark", "reap"}
      /\ proc \in [Workers -> Proc]
  BY DEF PlatformInv, PlatformTypeOK
<1>2. slot' \in [Slots -> SlotState]
      /\ \A t \in Slots : slot'[t] = IF t = s THEN r ELSE slot[t]
  BY <1>1
<1>3. ASSUME NEW t \in Slots, t # s
      PROVE  SlotMove(t) /\ ~Starts(t)
  BY <1>2, <1>3, HandlerStays DEF HistoryMove
<1>4. \A j \in Jobs : KeepsMessage(j)
  <2> SUFFICES ASSUME NEW j \in Jobs, jobs'[j].status = "DISPATCHED",
                      InBroker(j), ~Gone(j)'
               PROVE  InBroker(j)'
    BY DEF KeepsMessage, relayVars
  <2>1. CASE main[j] > 0 \/ retry[j] > 0 \/ (GivesUp /\ dlq[j] > 0)
    BY <2>1 DEF InBroker, GivesUp
  <2>2. ASSUME NEW t \in Slots,
               slot[t].pc = "claim", slot[t].held, slot[t].job = j
        PROVE  InBroker(j)'
    <3>1. CASE t = s
      BY <2>2, <3>1 DEF InBroker, GivesUp
    <3>2. CASE t # s
      BY <1>2, <2>2, <3>2 DEF InBroker
    <3> QED BY <3>1, <3>2
  <2> QED BY <2>1, <2>2 DEF InBroker
<1>5. \A t \in Slots : SlotMove(t)
  BY <1>3
<1>6. \A t, u \in Slots : Starts(t) /\ Starts(u) => t = u
  BY <1>3
<1>7. /\ pending' \subseteq pending \cup UnpublishedRows
      /\ blocked' \subseteq blocked \cup UnpublishedRows
  BY DEF relayVars
<1>8. NoStop
  BY DEF NoStop
<1> QED BY <1>1, <1>2, <1>4, <1>5, <1>6, <1>7, <1>8, PlainStep

(* A step that changes no handler and takes no message away.               *)
LEMMA QueueMove ==
  ASSUME PlatformInv, [PlainNext]_storeVars, slot' = slot,
         main' \in [Jobs -> Nat], retry' \in [Jobs -> Nat], dlq' = dlq,
         pending' \subseteq pending \cup UnpublishedRows,
         blocked' \subseteq blocked \cup UnpublishedRows,
         reaper' \in {"mark", "reap"}, proc' \in [Workers -> Proc],
         faults' \in 0..MaxFaults, NoStop, HistoryMove,
         \A j \in Jobs : main[j] > 0 \/ retry[j] > 0
                           => main'[j] > 0 \/ retry'[j] > 0,
         \A j \in Jobs :
           \/ main'[j] > 0 \/ retry'[j] > 0
           \/ jobs'[j].status = "DISPATCHED" => Gone(j)'
           \/ \A i : <<j, i>> \in pending' => <<j, i>> \in pending
  PROVE  PlatformInv'
<1>1. slot \in [Slots -> SlotState] /\ dlq \in [Jobs -> Nat]
  BY DEF PlatformInv, PlatformTypeOK
<1>2. ASSUME NEW t \in Slots
      PROVE  SlotMove(t) /\ ~Starts(t)
  BY HandlerStays DEF HistoryMove
<1>3. \A j \in Jobs : KeepsMessage(j)
  BY DEF KeepsMessage, InBroker, GivesUp
<1>4. \A t \in Slots : SlotMove(t)
  BY <1>2
<1>5. \A t, u \in Slots : Starts(t) /\ Starts(u) => t = u
  BY <1>2
<1> QED BY <1>1, <1>3, <1>4, <1>5, PlainStep

(* A worker has finitely many deliveries, so they can be counted.          *)
LEMMA HeldForFinite ==
  ASSUME NEW w \in Workers, NEW j
  PROVE  /\ IsFiniteSet(HeldFor(w, j)) /\ Cardinality(HeldFor(w, j)) \in Nat
         /\ HeldFor(w, j) # {} => Cardinality(HeldFor(w, j)) > 0
<1> DEFINE S == HeldFor(w, j)
           T == 1..MaxParallelJobs
           f == [s \in S |-> s[2]]
<1>1. IsFiniteSet(T)
  BY FS_Interval, PlatformAssumption
<1>2. \A s \in S : s \in Slots /\ s[1] = w /\ s[2] \in T /\ s = <<w, s[2]>>
  BY DEF HeldFor, Slots
<1>3. f \in Injection(S, T)
  <2> HIDE DEF S, T
  <2> QED BY <1>2 DEF Injection, IsInjective
<1>4. IsFiniteSet(S)
  <2> HIDE DEF S, T, f
  <2> QED BY <1>1, <1>3, FS_Injection
<1>5. Cardinality(S) \in Nat /\ (Cardinality(S) = 0 <=> S = {})
  <2> HIDE DEF S
  <2> QED BY <1>4, FS_CardinalityType, FS_EmptySet
<1> QED BY <1>4, <1>5

(* Deliveries that are put back are not lost: what the handlers of the     *)
(* worker have not claimed is in jobs.main again.                          *)
LEMMA RequeueMove ==
  ASSUME PlatformInv, UNCHANGED <<storeVars, relayVars, reaper, historyVars>>,
         NEW w \in Workers, Requeue(w),
         proc' \in [Workers -> Proc], faults' \in 0..MaxFaults, NoStop,
         slot' \in [Slots -> SlotState],
         \A s \in Slots :
           IF s[1] = w
           THEN \/ slot'[s] = IdleSlot
                \/ slot'[s] = [slot[s] EXCEPT !.held = FALSE]
           ELSE slot'[s] = slot[s]
  PROVE  PlatformInv'
<1>1. /\ slot \in [Slots -> SlotState] /\ main \in [Jobs -> Nat]
      /\ retry \in [Jobs -> Nat] /\ dlq \in [Jobs -> Nat]
      /\ reaper \in {"mark", "reap"}
  BY DEF PlatformInv, PlatformTypeOK
<1>2. /\ main' = [j \in Jobs |-> main[j] + Cardinality(HeldFor(w, j))]
      /\ retry' = retry /\ dlq' = dlq
  BY DEF Requeue
<1>3. main' \in [Jobs -> Nat]
  BY <1>1, <1>2, HeldForFinite
<1>4. ASSUME NEW s \in Slots
      PROVE  SlotMove(s) /\ ~Starts(s)
  <2>1. CASE slot'[s] = IdleSlot
    BY <2>1 DEF IdleSlot, SlotMove, NotClaimed, Starts
  <2>2. CASE slot'[s] # IdleSlot
    <3>1. /\ slot'[s].pc = slot[s].pc /\ slot'[s].job = slot[s].job
          /\ slot'[s].gen = slot[s].gen
      BY <1>1, <2>2 DEF SlotState
    <3> QED BY <3>1, HandlerStays DEF historyVars
  <2> QED BY <2>1, <2>2
<1>5. ASSUME NEW j \in Jobs, InBroker(j)
      PROVE  InBroker(j)'
  <2>1. main'[j] >= main[j] /\ main[j] \in Nat /\ main'[j] \in Nat
    BY <1>1, <1>2, HeldForFinite
  <2>2. CASE main[j] > 0 \/ retry[j] > 0 \/ (GivesUp /\ dlq[j] > 0)
    BY <1>2, <2>1, <2>2 DEF InBroker, GivesUp
  <2>3. ASSUME NEW s \in Slots,
               slot[s].pc = "claim", slot[s].held, slot[s].job = j
        PROVE  InBroker(j)'
    <3>1. CASE s[1] = w
      <4>1. HeldFor(w, j) # {}
        BY <2>3, <3>1 DEF HeldFor
      <4>2. /\ Cardinality(HeldFor(w, j)) \in Nat
            /\ Cardinality(HeldFor(w, j)) > 0
        BY <4>1, HeldForFinite
      <4>3. main'[j] > 0
        BY <1>2, <2>1, <4>2
      <4> QED BY <4>3 DEF InBroker
    <3>2. CASE s[1] # w
      <4>1. slot'[s] = slot[s]
        BY <3>2
      <4> QED BY <2>3, <4>1 DEF InBroker
    <3> QED BY <3>1, <3>2
  <2> QED BY <1>5, <2>2, <2>3 DEF InBroker
<1>6. \A j \in Jobs : KeepsMessage(j)
  BY <1>5 DEF KeepsMessage, relayVars
<1>7. /\ [PlainNext]_storeVars /\ HistoryMove
      /\ pending' \subseteq pending \cup UnpublishedRows
      /\ blocked' \subseteq blocked \cup UnpublishedRows
  BY HistoryStays DEF relayVars
<1>8. /\ \A s \in Slots : SlotMove(s)
      /\ \A s, t \in Slots : Starts(s) /\ Starts(t) => s = t
  BY <1>4
<1> QED BY <1>1, <1>2, <1>3, <1>6, <1>7, <1>8, PlainStep

(* A commit takes rows that were published, and no other, off the outbox.  *)
LEMMA CommitMove ==
  PlatformInv /\ RelayCommit => PlatformInv' /\ [StoreNext]_storeVars
<1> SUFFICES ASSUME PlatformInv, RelayCommit
             PROVE  PlatformInv' /\ [StoreNext]_storeVars
  OBVIOUS
<1>0. PICK rows \in SUBSET (pending \ blocked) :
        /\ MarkOutboxPublishedTx(rows)
        /\ pending' = pending \ rows
        /\ UNCHANGED <<brokerVars, blocked, reaper, workerVars, faultVars>>
  BY DEF RelayCommit
<1>1. [StoreNext]_storeVars
  <2>1. rows \in SUBSET UnpublishedRows
    BY DEF PlatformInv, PlatformTypeOK
  <2> QED BY <1>0, <2>1 DEF StoreNext, TableStep
<1>2. StoreInv'
  BY <1>1, NextInv DEF PlatformInv
<1>3. SlotsGranted' /\ OneExecutionPerGrant' /\ KilledOnlyWhenLost'
  <2>1. \A s \in Slots : SlotMove(s) /\ ~Starts(s)
    BY <1>0, HandlerStays DEF workerVars, faultVars, historyVars
  <2> QED BY <1>0, <1>1, <2>1, HandlersKeepGrants DEF faultVars, historyVars
<1>4. \A j \in Jobs : \A i \in Unpublished(j) :
        <<j, i>> \notin rows => i \in Unpublished(j)'
  <2> SUFFICES ASSUME NEW j \in Jobs, NEW i \in Unpublished(j),
                      <<j, i>> \notin rows
               PROVE  i \in Unpublished(j)'
    OBVIOUS
  <2>1. outbox'[j] = [h \in DOMAIN outbox[j] |->
                        IF <<j, h>> \in rows
                        THEN [outbox[j][h] EXCEPT !.published = TRUE]
                        ELSE outbox[j][h]]
    BY <1>0 DEF MarkOutboxPublishedTx
  <2> QED BY <2>1 DEF Unpublished
<1>5. PlatformTypeOK'
  <2>1. /\ pending' \subseteq UnpublishedRows'
        /\ blocked' \subseteq UnpublishedRows'
    <3> SUFFICES ASSUME NEW row \in pending' \cup blocked'
                 PROVE  row \in UnpublishedRows'
      OBVIOUS
    <3>1. row \in UnpublishedRows /\ row \notin rows
      BY <1>0 DEF PlatformInv, PlatformTypeOK
    <3>2. PICK j \in Jobs : \E i \in Unpublished(j) : row = <<j, i>>
      BY <3>1 DEF UnpublishedRows
    <3> QED BY <1>4, <3>1, <3>2 DEF UnpublishedRows
  <2> QED BY <1>0, <1>2, <2>1
          DEF PlatformInv, PlatformTypeOK, StoreInv, brokerVars, workerVars,
              faultVars, historyVars
<1>6. WaitingIsCarried'
  <2> SUFFICES ASSUME NEW j \in Jobs, jobs'[j].status = "DISPATCHED",
                      ~InBroker(j)', ~Gone(j)'
               PROVE  RowToPublish(j)'
    BY DEF WaitingIsCarried
  <2>1. jobs[j].status = "DISPATCHED" /\ ~InBroker(j) /\ ~Gone(j)
    BY <1>0 DEF MarkOutboxPublishedTx, brokerVars, workerVars, faultVars,
                historyVars, InBroker, Gone, GivesUp
  <2>2. PICK i \in Unpublished(j) : <<j, i>> \notin pending
    BY <2>1 DEF PlatformInv, WaitingIsCarried, RowToPublish
  <2> QED BY <1>0, <1>4, <2>2 DEF RowToPublish
<1>7. NobodyStops' /\ NothingVanishes'
  BY <1>0 DEF PlatformInv, NobodyStops, workerVars, GivesUp, NothingVanishes,
              Loses, faultVars, historyVars
<1> QED BY <1>1, <1>2, <1>3, <1>5, <1>6, <1>7 DEF PlatformInv

(***************************************************************************)
(* Every step keeps the invariant                                          *)
(***************************************************************************)

(* What a handler step leaves of a handler: its record is still a record.  *)
LEMMA SlotEdits ==
  ASSUME NEW r \in SlotState, NEW g \in Nat, NEW b \in BOOLEAN,
         NEW pc \in {"idle", "claim", "run", "killed", "submit"}
  PROVE  /\ [r EXCEPT !.pc = pc, !.gen = g] \in SlotState
         /\ [r EXCEPT !.pc = pc, !.success = b] \in SlotState
         /\ [r EXCEPT !.pc = pc] \in SlotState
         /\ [r EXCEPT !.held = FALSE] \in SlotState
BY DEF SlotState

(* A handler's step is a transaction of the store that the store expects,  *)
(* or none.                                                                *)
LEMMA FinishIsPlain ==
  ASSUME PlatformInv, NEW s \in Slots, slot[s].pc = "submit", Finish(s)
  PROVE  PlainNext /\ slot[s].job \in Jobs
<1>1. /\ slot[s].job \in Jobs /\ s[1] \in Workers
      /\ Granted(slot[s].job, s[1], slot[s].gen)
  BY DEF PlatformInv, SlotsGranted, SlotGranted, Busy, Slots
<1>2. PICK j \in Jobs, w \in Workers, g \in Nat :
        /\ j = slot[s].job /\ w = s[1] /\ g = slot[s].gen
        /\ g \in 1..Len(grants[j]) /\ Granted(j, w, g)
  BY <1>1 DEF Granted
<1>3. jobs[j].attempt \in 0..jobs[j].attempt
  BY DEF PlatformInv, StoreInv, StoreTypeOK, JobRow
<1>4. PICK art \in 0..jobs[j].attempt :
        \/ FinishAgain(j, art) \/ FinishSuccess(j, w, g, art)
        \/ FinishFailure(j, w, g, art)
  BY <1>2, <1>3 DEF Finish
<1>5. ServeStep(j)
  BY <1>2, <1>4 DEF ServeStep
<1> QED BY <1>1, <1>5 DEF PlainNext, JobStep

(* A renewal names a grant of its worker, as the store expects.            *)
LEMMA RenewIsPlain ==
  ASSUME PlatformInv, NEW s \in Slots, slot[s].pc \in Busy,
         RenewLease(slot[s].job, s[1], slot[s].gen)
  PROVE  PlainNext
<1>1. PICK j \in Jobs, w \in Workers, g \in Nat :
        /\ j = slot[s].job /\ w = s[1] /\ g = slot[s].gen
        /\ Granted(j, w, g)
  BY DEF PlatformInv, PlatformTypeOK, SlotState, SlotsGranted, SlotGranted,
         Busy, Slots
<1>2. RenewLease(j, w, g) /\ g \in 1..Len(grants[j])
  BY <1>1 DEF Granted
<1>3. ServeStep(j)
  BY <1>1, <1>2 DEF ServeStep
<1> QED BY <1>3 DEF PlainNext, JobStep

(* A lost message is remembered if its job waits.                          *)
LEMMA VanishMove ==
  ASSUME PlatformInv, NEW j \in Jobs, Vanishes(j), Loses, UNCHANGED storeVars
  PROVE  HistoryMove /\ (jobs'[j].status = "DISPATCHED" => Gone(j)')
<1>1. <<j, jobs[j].attempt>> \in Jobs \X Nat
  BY DEF PlatformInv, PlatformTypeOK, StoreTypeOK, JobRow
<1>2. jobs' = jobs
  BY DEF storeVars
<1> QED BY <1>1, <1>2
        DEF PlatformInv, PlatformTypeOK, Vanishes, HistoryMove, Gone

(* A claimed job does not wait any more.                                   *)
LEMMA ClaimRuns ==
  ASSUME PlatformInv, NEW j \in Jobs, NEW w \in Workers, ClaimJob(j, w)
  PROVE  PlainNext /\ jobs'[j].status = "RUNNING"
<1>1. jobs \in [Jobs -> JobRow]
  BY DEF PlatformInv, StoreInv, StoreTypeOK
<1>2. jobs'[j] = ClaimedRow(jobs[j], w) /\ jobs[j] \in JobRow
  BY <1>1 DEF ClaimJob
<1>3. PlainNext
  BY DEF PlainNext, JobStep, ServeStep
<1> QED BY <1>2, <1>3, ClaimedFields

(* Handlers: claim, run, submit.                                           *)
LEMMA HandlerKeeps ==
  ASSUME PlatformInv, NEW s \in Slots,
         HandlerStep(s) \/ RenewRefused(s) \/ RenewMisread(s)
  PROVE  PlatformInv' /\ [PlainNext]_storeVars
<1>0. /\ slot[s] \in SlotState /\ slot \in [Slots -> SlotState]
      /\ dlq \in [Jobs -> Nat] /\ faults \in 0..MaxFaults /\ MaxFaults \in Nat
      /\ s[1] \in Workers /\ IdleSlot \in SlotState
      /\ slot[s].pc # "idle" => slot[s].job \in Jobs
  BY PlatformAssumption
     DEF PlatformInv, PlatformTypeOK, SlotsGranted, SlotGranted, Slots,
         IdleSlot, SlotState
<1>1. ASSUME NEW kind, Fault(kind) \/ Strikes(kind)
      PROVE  faults' \in 0..MaxFaults
  BY <1>0, <1>1 DEF Fault, Strikes
<1>2. ASSUME NEW kind, ClaimFault(s, kind) \/ Fault(kind)
      PROVE  faults' \in 0..MaxFaults /\ HistoryMove
  BY <1>0, <1>1, <1>2, HistoryStays DEF ClaimFault, Fault, faultVars
<1>3. ASSUME slot' = [slot EXCEPT ![s] = IdleSlot]
      PROVE  SlotMove(s)
  BY <1>0, <1>3 DEF SlotMove, NotClaimed, IdleSlot
<1>4. ASSUME Ack(s), [PlainNext]_storeVars, faults' \in 0..MaxFaults,
             UNCHANGED <<relayVars, reaper, proc>>, HistoryMove,
             \A j \in Jobs :
               slot[s].pc = "claim" /\ slot[s].job = j
                 => jobs'[j].status # "DISPATCHED" \/ Gone(j)'
      PROVE  PlatformInv'
  <2>1. slot' = [slot EXCEPT ![s] = IdleSlot] /\ dlq' = dlq
        /\ UNCHANGED <<main, retry>>
    BY <1>4 DEF Ack, brokerVars
  <2> QED BY <1>0, <1>3, <1>4, <2>1, HandlerMove
<1>5. ASSUME Nack(s), [PlainNext]_storeVars, faults' \in 0..MaxFaults,
             UNCHANGED <<relayVars, reaper, proc>>, HistoryMove,
             slot[s].job \in Jobs,
             slot[s].pc = "claim"
               => jobs'[slot[s].job].status # "DISPATCHED" \/ GivesUp
      PROVE  PlatformInv'
  <2>1. /\ slot' = [slot EXCEPT ![s] = IdleSlot] /\ UNCHANGED <<main, retry>>
        /\ dlq' = IF slot[s].held
                  THEN [dlq EXCEPT ![slot[s].job] = dlq[slot[s].job] + 1]
                  ELSE dlq
    BY <1>5 DEF Nack
  <2>2. /\ dlq' \in [Jobs -> Nat]
        /\ \A j \in Jobs : dlq[j] > 0 => dlq'[j] > 0
        /\ slot[s].held => dlq'[slot[s].job] > 0
    BY <1>0, <1>5, <2>1
  <2> QED BY <1>0, <1>3, <1>5, <2>1, <2>2, HandlerMove
<1>6. CASE ClaimOK(s)
  <2>1. PICK j \in Jobs : j = slot[s].job
    BY <1>0, <1>6 DEF ClaimOK, Claiming
  <2>2. PICK w \in Workers : w = s[1]
    BY <1>0
  <2>3. ClaimJob(j, w)
    BY <1>6, <2>1, <2>2 DEF ClaimOK
  <2>4. /\ jobs'[j].gen = Len(grants[j]) + 1 /\ jobs'[j].gen \in Nat
        /\ jobs'[j].status = "RUNNING"
        /\ grants'[j] = Append(grants[j], w)
    <3>1. /\ jobs \in [Jobs -> JobRow] /\ grants \in [Jobs -> Seq(Workers)]
          /\ jobs[j].gen = jobs[j].attempt
          /\ Len(grants[j]) = jobs[j].attempt
      BY DEF PlatformInv, StoreInv, StoreTypeOK, AttemptsWithinLimit
    <3>2. /\ jobs[j] \in JobRow /\ jobs[j].gen \in Nat
          /\ jobs[j].gen = Len(grants[j])
      BY <3>1 DEF JobRow
    <3>3. jobs'[j] = ClaimedRow(jobs[j], w)
      BY <2>3, <3>1 DEF ClaimJob
    <3>4. jobs'[j].gen = jobs[j].gen + 1 /\ jobs'[j].status = "RUNNING"
      BY <3>2, <3>3, ClaimedFields
    <3> QED BY <2>3, <3>1, <3>2, <3>4 DEF ClaimJob
  <2>5. [PlainNext]_storeVars
    BY <2>3 DEF PlainNext, JobStep, ServeStep
  <2> DEFINE r == [slot[s] EXCEPT !.pc = "run", !.gen = jobs'[j].gen]
  <2>6. slot' = [slot EXCEPT ![s] = r] /\ r \in SlotState
    BY <1>0, <1>6, <2>1, <2>4, SlotEdits DEF ClaimOK
  <2>7. r.pc = "run" /\ r.job = j /\ r.gen = jobs'[j].gen
    BY <1>0, <2>1 DEF SlotState
  <2> HIDE DEF r
  <2>8. SlotMove(s)
    BY <1>0, <2>2, <2>4, <2>6, <2>7 DEF SlotMove, Starts
  <2>9. UNCHANGED <<main, retry, relayVars, reaper, proc, dlq, faults,
                    historyVars>>
    BY <1>6 DEF ClaimOK, brokerVars, faultVars
  <2>10. PlatformInv'
    BY <1>0, <2>1, <2>4, <2>5, <2>6, <2>8, <2>9, HandlerMove, HistoryStays
  <2> QED BY <2>5, <2>10
<1>7. CASE ClaimConflict(s)
  BY <1>0, <1>4, <1>7, HistoryStays DEF ClaimConflict, storeVars, faultVars
<1>8. CASE ClaimError(s)
  <2>1. faults' \in 0..MaxFaults /\ HistoryMove
    BY <1>2, <1>8 DEF ClaimError
  <2>2. GivesUp
    <3>1. CASE Stopping(s)
      BY <1>0, <3>1 DEF Stopping, PlatformInv, NobodyStops
    <3>2. CASE ~Stopping(s)
      BY <1>8, <3>2 DEF ClaimError, ClaimFault, Fault, Strikes, GivesUp
    <3> QED BY <3>1, <3>2
  <2> QED BY <1>0, <1>5, <1>8, <2>1, <2>2 DEF ClaimError, Claiming, storeVars
<1>9. CASE ClaimReplyLost(s)
  <2>1. faults' \in 0..MaxFaults /\ HistoryMove
    BY <1>2, <1>9 DEF ClaimReplyLost
  <2>2. slot[s].job \in Jobs
    BY <1>0, <1>9 DEF ClaimReplyLost, Claiming
  <2>3. PlainNext
    BY <1>0, <1>9, <2>2 DEF ClaimReplyLost, PlainNext, JobStep, ServeStep
  <2>4. jobs'[slot[s].job].status = "RUNNING"
    BY <1>0, <1>9, <2>2, ClaimRuns DEF ClaimReplyLost
  <2> QED BY <1>5, <1>9, <2>1, <2>2, <2>3, <2>4 DEF ClaimReplyLost
<1>10. ASSUME NEW pc \in Busy, NEW b \in BOOLEAN, slot[s].pc \in Busy,
              \/ slot' = [slot EXCEPT ![s].pc = pc]
              \/ slot' = [slot EXCEPT ![s].pc = pc, ![s].success = b],
              pc = "killed"
                => ~Holds(s) \/ <<slot[s].job, slot[s].gen>> \in misread',
              [PlainNext]_storeVars, HistoryMove, faults' \in 0..MaxFaults,
              UNCHANGED <<brokerVars, relayVars, reaper, proc>>
       PROVE  PlatformInv'
  <2>1. PICK r \in SlotState :
          /\ slot' = [slot EXCEPT ![s] = r] /\ r.pc = pc
          /\ r.job = slot[s].job /\ r.gen = slot[s].gen
    <3> DEFINE r1 == [slot[s] EXCEPT !.pc = pc]
               r2 == [slot[s] EXCEPT !.pc = pc, !.success = b]
    <3>1. r1 \in SlotState /\ r2 \in SlotState
      BY <1>0, <1>10, SlotEdits DEF Busy
    <3>2. /\ r1.pc = pc /\ r1.job = slot[s].job /\ r1.gen = slot[s].gen
          /\ r2.pc = pc /\ r2.job = slot[s].job /\ r2.gen = slot[s].gen
      BY <1>0 DEF SlotState
    <3>3. \/ slot' = [slot EXCEPT ![s] = r1]
          \/ slot' = [slot EXCEPT ![s] = r2]
      BY <1>10
    <3> QED BY <3>1, <3>2, <3>3
  <2>2. SlotMove(s)
    BY <1>0, <1>10, <2>1 DEF SlotMove, GoesOn
  <2>3. slot[s].pc # "claim"
    BY <1>10 DEF Busy
  <2> QED BY <1>0, <1>10, <2>1, <2>2, <2>3, HandlerMove DEF brokerVars
<1>11. ASSUME NEW b \in BOOLEAN, RunEnds(s, b)
       PROVE  PlatformInv'
  BY <1>0, <1>10, <1>11, HistoryStays DEF RunEnds, Busy, faultVars
<1>12. CASE RenewRefused(s)
  BY <1>0, <1>10, <1>12, HistoryStays DEF RenewRefused, Busy, faultVars
<1>13. CASE SubmitOK(s)
  <2>1. PlainNext
    BY <1>13, FinishIsPlain DEF SubmitOK
  <2> QED BY <1>0, <1>4, <1>13, <2>1, HistoryStays DEF SubmitOK, faultVars
<1>14. CASE SubmitRefused(s)
  BY <1>0, <1>5, <1>14, HistoryStays DEF SubmitRefused, storeVars, faultVars
<1>15. CASE SubmitError(s)
  <2>1. faults' \in 0..MaxFaults /\ HistoryMove
    BY <1>2, <1>15 DEF SubmitError
  <2> QED BY <1>0, <1>5, <1>15, <2>1 DEF SubmitError, storeVars
<1>16. CASE SubmitReplyLost(s)
  <2>1. /\ PlainNext /\ slot[s].job \in Jobs
        /\ faults' \in 0..MaxFaults /\ HistoryMove
    BY <1>2, <1>16, FinishIsPlain DEF SubmitReplyLost
  <2> QED BY <1>5, <1>16, <2>1 DEF SubmitReplyLost
<1>17. RunEnds(s, TRUE) \/ RunEnds(s, FALSE) \/ RenewRefused(s)
         => UNCHANGED storeVars
  BY DEF RunEnds, RenewRefused
<1>18. \/ ClaimConflict(s) \/ ClaimError(s) \/ SubmitRefused(s)
       \/ SubmitError(s)
       => UNCHANGED storeVars
  BY DEF ClaimConflict, ClaimError, SubmitRefused, SubmitError
<1>19. SubmitOK(s) \/ SubmitReplyLost(s) => PlainNext
  BY FinishIsPlain DEF SubmitOK, SubmitReplyLost
<1>20. ClaimReplyLost(s) => PlainNext
  <2>1. ClaimReplyLost(s) => slot[s].job \in Jobs
    BY <1>0 DEF ClaimReplyLost, Claiming
  <2> QED BY <1>0, <2>1 DEF ClaimReplyLost, PlainNext, JobStep, ServeStep
<1>21. CASE ClaimMisread(s)
  <2>1. PICK j \in Jobs, w \in Workers : j = slot[s].job /\ w = s[1]
    BY <1>0, <1>21 DEF ClaimMisread, Claiming
  <2>2. faults' \in 0..MaxFaults /\ Loses
    BY <1>1, <1>21 DEF ClaimMisread, Strikes, Loses
  <2>3. CASE Vanishes(j) /\ UNCHANGED storeVars
    <3>1. HistoryMove /\ (jobs'[j].status = "DISPATCHED" => Gone(j)')
      BY <2>2, <2>3, VanishMove
    <3>2. PlatformInv'
      BY <1>4, <1>21, <2>1, <2>2, <2>3, <3>1 DEF ClaimMisread
    <3> QED BY <2>3, <3>2
  <2>4. CASE ClaimJob(j, w) /\ UNCHANGED historyVars
    <3>1. PlainNext /\ jobs'[j].status = "RUNNING" /\ HistoryMove
      BY <2>4, ClaimRuns, HistoryStays
    <3>2. PlatformInv'
      BY <1>4, <1>21, <2>1, <2>2, <3>1 DEF ClaimMisread
    <3> QED BY <3>1, <3>2
  <2> QED BY <1>21, <2>1, <2>3, <2>4 DEF ClaimMisread
<1>22. ClaimMisread(s) => [PlainNext]_storeVars
  <2> HAVE ClaimMisread(s)
  <2>1. PICK j \in Jobs, w \in Workers : j = slot[s].job /\ w = s[1]
    BY <1>0 DEF ClaimMisread, Claiming
  <2> QED BY <2>1, ClaimRuns DEF ClaimMisread
<1>23. RenewMisread(s) => [PlainNext]_storeVars
  BY RenewIsPlain DEF RenewMisread, Busy
<1>24. CASE RenewMisread(s)
  <2>1. HistoryMove
    <3>1. <<slot[s].job, slot[s].gen>> \in Jobs \X Nat
      BY <1>0, <1>24 DEF RenewMisread, SlotState
    <3>2. Loses /\ misread' = misread \cup {<<slot[s].job, slot[s].gen>>}
          /\ vanished' = vanished
      BY <1>24 DEF RenewMisread, Strikes, Loses
    <3> QED BY <3>1, <3>2 DEF HistoryMove, PlatformInv, PlatformTypeOK
  <2>2. <<slot[s].job, slot[s].gen>> \in misread' /\ faults' \in 0..MaxFaults
    BY <1>1, <1>24 DEF RenewMisread
  <2> QED BY <1>10, <1>23, <1>24, <2>1, <2>2 DEF RenewMisread, Busy
<1> QED BY <1>6, <1>7, <1>8, <1>9, <1>11, <1>12, <1>13, <1>14, <1>15, <1>16,
           <1>17, <1>18, <1>19, <1>20, <1>21, <1>22, <1>23, <1>24
        DEF HandlerStep

(* A worker takes a message off jobs.main.                                 *)
LEMMA DeliverKeeps ==
  ASSUME PlatformInv, NEW s \in Slots, NEW j \in Jobs, Deliver(s, j)
  PROVE  PlatformInv' /\ [PlainNext]_storeVars
<1> DEFINE r == [IdleSlot EXCEPT !.pc = "claim", !.job = j, !.held = TRUE]
<1>1. /\ slot \in [Slots -> SlotState] /\ main \in [Jobs -> Nat]
      /\ retry \in [Jobs -> Nat] /\ dlq \in [Jobs -> Nat]
      /\ reaper \in {"mark", "reap"} /\ proc \in [Workers -> Proc]
      /\ faults \in 0..MaxFaults
  BY DEF PlatformInv, PlatformTypeOK
<1>2. /\ r \in SlotState /\ r.pc = "claim" /\ r.job = j /\ r.held = TRUE
  BY DEF IdleSlot, SlotState
<1>3. /\ slot' = [slot EXCEPT ![s] = r] /\ slot[s].pc = "idle"
      /\ main' = [main EXCEPT ![j] = main[j] - 1] /\ main[j] > 0
      /\ UNCHANGED <<storeVars, retry, dlq, pending, blocked, reaper, proc,
                     faults, historyVars>>
  BY DEF Deliver, relayVars, faultVars
<1> HIDE DEF r
<1>4. slot' \in [Slots -> SlotState] /\ main' \in [Jobs -> Nat]
  BY <1>1, <1>2, <1>3
<1>5. \A t \in Slots : slot'[t] = IF t = s THEN r ELSE slot[t]
  BY <1>1, <1>3
<1>6. SlotMove(s) /\ ~Starts(s)
  BY <1>2, <1>5 DEF SlotMove, NotClaimed, Starts
<1>7. \A t \in Slots : SlotMove(t) /\ ~Starts(t)
  BY <1>3, <1>5, <1>6, HandlerStays DEF historyVars
<1>8. ASSUME NEW k \in Jobs, InBroker(k)
      PROVE  InBroker(k)'
  <2>1. CASE k = j
    BY <1>2, <1>5, <2>1 DEF InBroker
  <2>2. CASE k # j
    <3>1. main'[k] = main[k] /\ retry' = retry /\ dlq' = dlq
      BY <1>1, <1>3, <2>2
    <3>2. ASSUME NEW t \in Slots,
                 slot[t].pc = "claim", slot[t].held, slot[t].job = k
          PROVE  InBroker(k)'
      BY <1>3, <1>5, <3>2 DEF InBroker
    <3> QED BY <1>8, <3>1, <3>2 DEF InBroker, GivesUp
  <2> QED BY <2>1, <2>2
<1>9. \A k \in Jobs : KeepsMessage(k)
  BY <1>3, <1>8 DEF KeepsMessage
<1>10. /\ [PlainNext]_storeVars /\ HistoryMove
       /\ pending' \subseteq pending \cup UnpublishedRows
       /\ blocked' \subseteq blocked \cup UnpublishedRows
  BY <1>3, HistoryStays
<1>11. \A t, u \in Slots : Starts(t) /\ Starts(u) => t = u
  BY <1>7
<1>12. PlatformInv'
  BY <1>1, <1>3, <1>4, <1>7, <1>9, <1>10, <1>11, PlainStep DEF NoStop
<1> QED BY <1>10, <1>12

(* The relay publishes a row, or tries to: a lost message is remembered,   *)
(* and a row that could not be published is still to be published.         *)
LEMMA PublishKeeps ==
  ASSUME PlatformInv, NEW row \in UnpublishedRows,
         \/ RelayPublish(row[1], row[2]) \/ RelayPublishLost(row[1], row[2])
         \/ RelayPublishError(row[1], row[2])
  PROVE  PlatformInv' /\ [PlainNext]_storeVars
<1>1. PICK j \in Jobs, i \in Nat :
        \/ RelayPublish(j, i) \/ RelayPublishLost(j, i)
        \/ RelayPublishError(j, i)
  <2>1. PICK j \in Jobs : row \in {j} \X Unpublished(j)
    BY DEF UnpublishedRows
  <2>2. row[1] = j /\ row[2] \in DOMAIN outbox[j]
    BY <2>1 DEF Unpublished
  <2>3. outbox[j] \in Seq(OutboxRow)
    BY DEF PlatformInv, StoreInv, StoreTypeOK
  <2>4. row[2] \in Nat
    BY <2>2, <2>3
  <2> QED BY <2>2, <2>4
<1>2. /\ main \in [Jobs -> Nat] /\ retry \in [Jobs -> Nat]
      /\ reaper \in {"mark", "reap"} /\ proc \in [Workers -> Proc]
      /\ faults \in 0..MaxFaults /\ MaxFaults \in Nat
  BY PlatformAssumption DEF PlatformInv, PlatformTypeOK
<1>3. CASE RelayPublish(j, i)
  <2>1. /\ \/ main' = [main EXCEPT ![j] = main[j] + 1] /\ retry' = retry
           \/ retry' = [retry EXCEPT ![j] = retry[j] + 1] /\ main' = main
        /\ pending' = pending \cup {<<j, i>>} /\ <<j, i>> \in UnpublishedRows
        /\ UNCHANGED <<storeVars, dlq, blocked, reaper, proc, slot, faults,
                       historyVars>>
    BY <1>3 DEF RelayPublish, Free, workerVars, faultVars
  <2>2. /\ main' \in [Jobs -> Nat] /\ retry' \in [Jobs -> Nat]
        /\ main'[j] > 0 \/ retry'[j] > 0
        /\ \A k \in Jobs : main[k] > 0 \/ retry[k] > 0
                             => main'[k] > 0 \/ retry'[k] > 0
    BY <1>2, <2>1
  <2>3. \A k \in Jobs :
          \/ main'[k] > 0 \/ retry'[k] > 0
          \/ \A h : <<k, h>> \in pending' => <<k, h>> \in pending
    BY <2>1, <2>2
  <2>4. [PlainNext]_storeVars /\ HistoryMove /\ NoStop
    BY <2>1, HistoryStays DEF NoStop
  <2> QED BY <1>2, <2>1, <2>2, <2>3, <2>4, QueueMove
<1>4. CASE RelayPublishLost(j, i)
  <2>1. /\ pending' = pending \cup {<<j, i>>} /\ <<j, i>> \in UnpublishedRows
        /\ UNCHANGED <<storeVars, main, retry, dlq, blocked, reaper, proc,
                       slot>>
        /\ Loses /\ faults' \in 0..MaxFaults
    BY <1>2, <1>4 DEF RelayPublishLost, Free, Strikes, Loses, brokerVars,
                      workerVars
  <2>2. HistoryMove /\ (jobs'[j].status = "DISPATCHED" => Gone(j)')
    BY <1>4, <2>1, VanishMove DEF RelayPublishLost
  <2>3. \A k \in Jobs :
          \/ jobs'[k].status = "DISPATCHED" => Gone(k)'
          \/ \A h : <<k, h>> \in pending' => <<k, h>> \in pending
    BY <2>1, <2>2
  <2>4. [PlainNext]_storeVars /\ NoStop
    BY <2>1 DEF NoStop
  <2> QED BY <1>2, <2>1, <2>2, <2>3, <2>4, QueueMove
<1>5. CASE RelayPublishError(j, i)
  <2>1. /\ UNCHANGED <<storeVars, main, retry, dlq, pending, reaper, proc,
                       slot, historyVars>>
        /\ blocked' \subseteq blocked \cup UnpublishedRows
        /\ faults' \in 0..MaxFaults
    BY <1>2, <1>5 DEF RelayPublishError, Fault, Strikes, brokerVars,
                      workerVars
  <2>2. [PlainNext]_storeVars /\ HistoryMove /\ NoStop
    BY <2>1, HistoryStays DEF NoStop
  <2> QED BY <1>2, <2>1, <2>2, QueueMove
<1>6. RelayPublish(j, i) \/ RelayPublishLost(j, i) \/ RelayPublishError(j, i)
        => UNCHANGED storeVars
  BY DEF RelayPublish, RelayPublishLost, RelayPublishError
<1> QED BY <1>1, <1>3, <1>4, <1>5, <1>6

(* The reaper, clients, clocks, the retry queue, heartbeats, renewals, and *)
(* worker processes that start, stop and exit: no handler moves.           *)
LEMMA QuietKeeps ==
  ASSUME PlatformInv,
         \/ \E j \in Jobs : ClientStep(j) \/ RetryDelayPasses(j)
         \/ SchedulerCrash \/ ReaperStep \/ ClockStep
         \/ \E s \in Slots : RenewOK(s)
         \/ \E w \in Workers : Start(w) \/ WorkerHeartbeat(w) \/ Exit(w)
                               \/ Shutdown(w)
         \/ UNCHANGED vars
  PROVE  PlatformInv' /\ [PlainNext]_storeVars
<1>1. /\ main \in [Jobs -> Nat] /\ retry \in [Jobs -> Nat]
      /\ reaper \in {"mark", "reap"} /\ proc \in [Workers -> Proc]
      /\ faults \in 0..MaxFaults /\ MaxFaults \in Nat
      /\ Up \in Proc /\ Down \in Proc
  BY PlatformAssumption
     DEF PlatformInv, PlatformTypeOK, Up, Down, Proc
<1>2. ASSUME [PlainNext]_storeVars, slot' = slot, dlq' = dlq,
             UNCHANGED <<main, retry, historyVars>>,
             pending' \subseteq pending, blocked' \subseteq blocked,
             reaper' \in {"mark", "reap"}, proc' \in [Workers -> Proc],
             faults' \in 0..MaxFaults, NoStop
      PROVE  PlatformInv' /\ [PlainNext]_storeVars
  BY <1>1, <1>2, QueueMove, HistoryStays
<1>3. ASSUME [PlainNext]_storeVars, UNCHANGED platformVars
      PROVE  PlatformInv' /\ [PlainNext]_storeVars
  BY <1>1, <1>2, <1>3
     DEF platformVars, brokerVars, relayVars, workerVars, faultVars, NoStop
<1>4. ASSUME NEW j \in Jobs, ClientStep(j)
      PROVE  PlatformInv' /\ [PlainNext]_storeVars
  <2>1. CreateStep(j) /\ UNCHANGED platformVars
    BY <1>4 DEF ClientStep, initR2Job, createJob, createJobFromUpload,
                submitR2Job, CreateStep
  <2> QED BY <1>3, <2>1 DEF PlainNext, JobStep
<1>5. ASSUME NEW j \in Jobs, RetryDelayPasses(j)
      PROVE  PlatformInv' /\ [PlainNext]_storeVars
  <2>1. /\ main' = [main EXCEPT ![j] = main[j] + 1]
        /\ retry' = [retry EXCEPT ![j] = retry[j] - 1] /\ retry[j] > 0
        /\ UNCHANGED <<storeVars, dlq, pending, blocked, reaper, proc, slot,
                       faults, historyVars>>
    BY <1>5 DEF RetryDelayPasses, relayVars, workerVars, faultVars
  <2>2. /\ main' \in [Jobs -> Nat] /\ retry' \in [Jobs -> Nat]
        /\ \A k \in Jobs : main[k] > 0 \/ retry[k] > 0
                             => main'[k] > 0 \/ retry'[k] > 0
    BY <1>1, <2>1
  <2> QED BY <1>1, <2>1, <2>2, QueueMove, HistoryStays DEF NoStop
<1>6. CASE SchedulerCrash
  <2>1. /\ UNCHANGED <<storeVars, main, retry, dlq, proc, slot, historyVars>>
        /\ pending' \subseteq pending /\ blocked' \subseteq blocked
        /\ reaper' \in {"mark", "reap"} /\ faults' \in 0..MaxFaults
    BY <1>1, <1>6 DEF SchedulerCrash, Fault, Strikes, brokerVars, workerVars
  <2> QED BY <1>1, <1>2, <2>1 DEF NoStop
<1>7. CASE ReaperStep
  <2>1. PlainNext
    BY <1>7 DEF ReaperStep, ReaperMark, ReaperReap, PlainNext
  <2>2. /\ UNCHANGED <<main, retry, dlq, pending, blocked, proc, slot, faults,
                       historyVars>>
        /\ reaper' \in {"mark", "reap"}
    BY <1>7 DEF ReaperStep, ReaperMark, ReaperReap, brokerVars, relayVars,
                workerVars, faultVars
  <2> QED BY <1>1, <1>2, <2>1, <2>2 DEF NoStop
<1>8. CASE ClockStep
  BY <1>3, <1>8 DEF ClockStep, PlainNext, JobStep, ServeStep, WorkerStep
<1>9. ASSUME NEW s \in Slots, RenewOK(s)
      PROVE  PlatformInv' /\ [PlainNext]_storeVars
  BY <1>3, <1>9, RenewIsPlain DEF RenewOK, Busy
<1>10. ASSUME NEW w \in Workers, Start(w)
       PROVE  PlatformInv' /\ [PlainNext]_storeVars
  <2>1. PlainNext /\ proc' \in [Workers -> Proc]
    BY <1>1, <1>10 DEF Start, PlainNext, WorkerStep
  <2>2. NoStop
    BY <1>1, <1>10 DEF Start, Up, NoStop
  <2> QED BY <1>1, <1>2, <1>10, <2>1, <2>2
          DEF Start, brokerVars, relayVars, faultVars
<1>11. ASSUME NEW w \in Workers, WorkerHeartbeat(w)
       PROVE  PlatformInv' /\ [PlainNext]_storeVars
  BY <1>3, <1>11 DEF WorkerHeartbeat, PlainNext, WorkerStep
<1>12. ASSUME NEW w \in Workers, Exit(w)
       PROVE  PlatformInv' /\ [PlainNext]_storeVars
  <2>1. proc' \in [Workers -> Proc]
    BY <1>1, <1>12 DEF Exit
  <2>2. NoStop
    BY <1>1, <1>12 DEF Exit, Down, NoStop
  <2> QED BY <1>1, <1>2, <1>12, <2>1, <2>2
          DEF Exit, brokerVars, relayVars, faultVars
<1>13. ASSUME NEW w \in Workers, Shutdown(w)
       PROVE  PlatformInv' /\ [PlainNext]_storeVars
  <2>1. proc' \in [Workers -> Proc]
    <3>1. [proc[w] EXCEPT !.cancelled = TRUE] \in Proc
      BY <1>1 DEF Proc
    <3> QED BY <1>1, <1>13, <3>1 DEF Shutdown
  <2>2. faults' \in 0..MaxFaults
    BY <1>1, <1>13 DEF Shutdown, Fault, Strikes
  <2>3. NoStop
    BY <1>13 DEF Shutdown, Fault, Strikes, GivesUp, NoStop
  <2> QED BY <1>1, <1>2, <1>13, <2>1, <2>2, <2>3
          DEF Shutdown, Fault, brokerVars, relayVars
<1>14. CASE UNCHANGED vars
  BY <1>3, <1>14 DEF vars
<1> QED BY <1>4, <1>5, <1>6, <1>7, <1>8, <1>9, <1>10, <1>11, <1>12, <1>13,
           <1>14

(* A worker dies, or its channel does.                                     *)
LEMMA RequeueKeeps ==
  ASSUME PlatformInv, NEW w \in Workers, Crash(w) \/ ChannelClosed(w)
  PROVE  PlatformInv' /\ [PlainNext]_storeVars
<1>1. /\ slot \in [Slots -> SlotState] /\ proc \in [Workers -> Proc]
      /\ faults \in 0..MaxFaults /\ MaxFaults \in Nat
      /\ Down \in Proc /\ IdleSlot \in SlotState
  BY PlatformAssumption
     DEF PlatformInv, PlatformTypeOK, Down, Proc, IdleSlot, SlotState
<1>2. faults' \in 0..MaxFaults
  BY <1>1 DEF Crash, ChannelClosed, Fault, Strikes
<1>3. proc' \in [Workers -> Proc]
  <2>1. [proc[w] EXCEPT !.channel = FALSE] \in Proc
    BY <1>1 DEF Proc
  <2> QED BY <1>1, <2>1 DEF Crash, ChannelClosed
<1>4. /\ UNCHANGED <<storeVars, relayVars, reaper, historyVars>> /\ Requeue(w)
      /\ \/ slot' = SlotsLost(w)
         \/ slot' = [s \in Slots |->
                       IF s[1] = w THEN [slot[s] EXCEPT !.held = FALSE]
                                   ELSE slot[s]]
  BY DEF Crash, ChannelClosed, Fault
<1>5. /\ slot' = [s \in Slots |-> slot'[s]]
      /\ \A s \in Slots :
           IF s[1] = w
           THEN \/ slot'[s] = IdleSlot
                \/ slot'[s] = [slot[s] EXCEPT !.held = FALSE]
           ELSE slot'[s] = slot[s]
  BY <1>4 DEF SlotsLost
<1>6. \A s \in Slots : [slot[s] EXCEPT !.held = FALSE] \in SlotState
  BY <1>1 DEF SlotState
<1>7. slot' \in [Slots -> SlotState]
  BY <1>1, <1>5, <1>6
<1>8. NoStop
  <2>1. CASE Crash(w)
    BY <1>1, <2>1 DEF Crash, Down, NoStop
  <2>2. CASE ChannelClosed(w)
    <3>1. \A v \in Workers : proc[v] \in Proc
      BY <1>1
    <3> QED BY <1>1, <2>2, <3>1 DEF ChannelClosed, Proc, NoStop
  <2> QED BY <2>1, <2>2
<1>9. PlatformInv'
  BY <1>2, <1>3, <1>4, <1>5, <1>7, <1>8, RequeueMove
<1> QED BY <1>4, <1>9

(* One step per part of the system.                                        *)
LEMMA PlatformStep ==
  PlatformInv /\ [Next]_vars => PlatformInv' /\ [StoreNext]_storeVars
<1> SUFFICES ASSUME PlatformInv, [Next]_vars
             PROVE  PlatformInv' /\ [StoreNext]_storeVars
  OBVIOUS
<1>1. [PlainNext]_storeVars => [StoreNext]_storeVars
  BY DEF PlainNext, StoreNext, TableStep
<1>2. CASE RelayCommit
  BY <1>2, CommitMove
<1>3. CASE \E row \in UnpublishedRows : \/ RelayPublish(row[1], row[2])
                                        \/ RelayPublishLost(row[1], row[2])
                                        \/ RelayPublishError(row[1], row[2])
  BY <1>1, <1>3, PublishKeeps
<1>4. CASE \E s \in Slots : \/ HandlerStep(s) \/ RenewRefused(s)
                           \/ RenewMisread(s)
  BY <1>1, <1>4, HandlerKeeps
<1>5. CASE \E s \in Slots, j \in Jobs : Deliver(s, j)
  BY <1>1, <1>5, DeliverKeeps
<1>6. CASE \E w \in Workers : Crash(w) \/ ChannelClosed(w)
  BY <1>1, <1>6, RequeueKeeps
<1>7. CASE \/ \E j \in Jobs : ClientStep(j) \/ RetryDelayPasses(j)
           \/ SchedulerCrash \/ ReaperStep \/ ClockStep
           \/ \E s \in Slots : RenewOK(s)
           \/ \E w \in Workers : Start(w) \/ WorkerHeartbeat(w) \/ Exit(w)
                                 \/ Shutdown(w)
           \/ UNCHANGED vars
  BY <1>1, <1>7, QuietKeeps
<1> QED BY <1>2, <1>3, <1>4, <1>5, <1>6, <1>7
        DEF Next, RelayStep, RelayFault

(* The inductive invariant holds in every reachable state of the loop.     *)
THEOREM PlatformCorrect == Spec => []PlatformInv
BY PlatformInit, PlatformStep, PTL DEF Spec

(* Types are kept, and the relay has published only rows of the outbox.    *)
THEOREM PlatformTypeCorrect == Spec => []PlatformTypeOK
<1>1. PlatformInv => PlatformTypeOK
  BY DEF PlatformInv
<1> QED BY <1>1, PlatformCorrect, PTL

(* Workers, messages, relay and reaper use the store as its specification  *)
(* says, for any faults: every theorem about the store holds for the loop. *)
THEOREM LoopUsesTheStore == Spec => UsesStoreProperly
<1>1. Init => StoreInit
  BY DEF Init
<1> QED BY <1>1, PlatformCorrect, PlatformStep, PTL
        DEF Spec, StoreSpec, UsesStoreProperly

(* No two handlers ever execute one grant (handleMessage), whatever is     *)
(* redelivered, published twice or put back.                               *)
THEOREM ExecutionsAreUnique == Spec => []OneExecutionPerGrant
<1>1. PlatformInv => OneExecutionPerGrant
  BY DEF PlatformInv
<1> QED BY <1>1, PlatformCorrect, PTL

(* leaseRenewalLoop kills a run whose lease is lost for good, or one whose *)
(* renewal failed with an error that isLeaseLost misread, and no other.    *)
THEOREM KillsAreJustified == Spec => []KilledOnlyWhenLost
<1>1. PlatformInv => KilledOnlyWhenLost
  BY DEF PlatformInv
<1> QED BY <1>1, PlatformCorrect, PTL

(* A waiting job is in the outbox or in the broker, if only in jobs.dlq,   *)
(* under any number of faults of any kind, unless one of two faults took   *)
(* its message while it was waiting for this very attempt: a publish lost  *)
(* with its connection, or a failed claim that isClaimConflict misread.    *)
THEOREM WaitingJobsNeverVanish == Spec => []CarriedOrDeadLettered
<1>1. PlatformInv => CarriedOrDeadLettered
  <2> SUFFICES ASSUME PlatformInv, NEW j \in Jobs,
                      jobs[j].status = "DISPATCHED"
               PROVE  \/ Carried(j) \/ dlq[j] > 0
                      \/ <<j, jobs[j].attempt>> \in vanished
    BY DEF CarriedOrDeadLettered
  <2>1. RowToPublish(j) \/ InBroker(j) \/ Gone(j)
    BY DEF PlatformInv, WaitingIsCarried
  <2>2. main[j] \in Nat /\ retry[j] \in Nat
    BY DEF PlatformInv, PlatformTypeOK
  <2> QED BY <2>1, <2>2 DEF RowToPublish, InBroker, Gone, Carried
<1> QED BY <1>1, PlatformCorrect, PTL

(* Unless a claim fails, a worker is told to stop or a publish is lost,    *)
(* what carries a waiting job will still reach a worker: crashes, closed   *)
(* channels, blocked relays, lost replies and failing reports never take   *)
(* its only message.                                                       *)
THEOREM DispatchesAreNotLost ==
  ASSUME "claimError" \notin FaultKinds, "shutdown" \notin FaultKinds,
         "misread" \notin FaultKinds, "publishLost" \notin FaultKinds
  PROVE  Spec => []DispatchNotLost
<1>1. PlatformInv => DispatchNotLost
  <2> SUFFICES ASSUME PlatformInv, NEW j \in Jobs,
                      jobs[j].status = "DISPATCHED"
               PROVE  Carried(j)
    BY DEF DispatchNotLost
  <2>1. RowToPublish(j) \/ InBroker(j) \/ Gone(j)
    BY DEF PlatformInv, WaitingIsCarried
  <2>2. main[j] \in Nat /\ retry[j] \in Nat
    BY DEF PlatformInv, PlatformTypeOK
  <2>3. ~GivesUp /\ vanished = {}
    BY DEF GivesUp, PlatformInv, NothingVanishes, Loses
  <2> QED BY <2>1, <2>2, <2>3 DEF RowToPublish, InBroker, Gone, Carried
<1> QED BY <1>1, PlatformCorrect, PTL

(***************************************************************************)
(* The loop treats outbox rows as the abstract outbox says                 *)
(***************************************************************************)

InsertedRows == UNION {{j} \X DOMAIN outbox[j] : j \in Jobs}

PublishedRows ==
  UNION {{j} \X (DOMAIN outbox[j] \ Unpublished(j)) : j \in Jobs}

LEMMA RowsAreNamed ==
  ASSUME PlatformInv
  PROVE  /\ InsertedRows \subseteq Jobs \X Nat
         /\ pending \subseteq UnpublishedRows
         /\ UnpublishedRows \subseteq InsertedRows
         /\ UnpublishedRows \cap PublishedRows = {}
<1>1. \A j \in Jobs : DOMAIN outbox[j] \subseteq Nat
  <2>1. \A j \in Jobs : outbox[j] \in Seq(OutboxRow)
    BY DEF PlatformInv, StoreInv, StoreTypeOK
  <2>2. ASSUME NEW j \in Jobs PROVE DOMAIN outbox[j] \subseteq Nat
    BY <2>1
  <2> QED BY <2>2
<1>2. InsertedRows \subseteq Jobs \X Nat
  BY <1>1 DEF InsertedRows
<1>3. \A j \in Jobs : Unpublished(j) \subseteq DOMAIN outbox[j]
  BY DEF Unpublished
<1>4. UnpublishedRows \subseteq InsertedRows
  BY <1>3 DEF UnpublishedRows, InsertedRows
<1>5. UnpublishedRows \cap PublishedRows = {}
  BY DEF UnpublishedRows, PublishedRows
<1> QED BY <1>2, <1>4, <1>5 DEF PlatformInv, PlatformTypeOK

(* A transaction that is not the relay's only adds unpublished rows.       *)
LEMMA PlainInserts ==
  ASSUME PlatformInv, [PlainNext]_storeVars, PlatformInv'
  PROVE  /\ InsertedRows \subseteq InsertedRows'
         /\ PublishedRows' = PublishedRows
<1>1. ASSUME NEW j \in Jobs
      PROVE  /\ DOMAIN outbox[j] \subseteq DOMAIN outbox'[j]
             /\ DOMAIN outbox'[j] \ Unpublished(j)'
                  = DOMAIN outbox[j] \ Unpublished(j)
  <2>1. outbox[j] \in Seq(OutboxRow)
    BY DEF PlatformInv, StoreInv, StoreTypeOK
  <2>2. Extended(j)
    BY WaitingIsAnnounced DEF PlatformInv, StoreInv, Announced
  <2>3. CASE outbox'[j] = outbox[j]
    BY <2>3 DEF Unpublished
  <2>4. ASSUME NEW t, NEW a, outbox'[j] = Append(outbox[j], Dispatch(t, a))
        PROVE  /\ DOMAIN outbox[j] \subseteq DOMAIN outbox'[j]
               /\ DOMAIN outbox'[j] \ Unpublished(j)'
                    = DOMAIN outbox[j] \ Unpublished(j)
    <3>1. /\ DOMAIN outbox'[j] = 1..(Len(outbox[j]) + 1)
          /\ DOMAIN outbox[j] = 1..Len(outbox[j]) /\ Len(outbox[j]) \in Nat
          /\ \A i \in 1..Len(outbox[j]) : outbox'[j][i] = outbox[j][i]
          /\ outbox'[j][Len(outbox[j]) + 1] = Dispatch(t, a)
      BY <2>1, <2>4
    <3>2. Dispatch(t, a).published = FALSE
      BY DEF Dispatch
    <3> QED BY <3>1, <3>2 DEF Unpublished
  <2> QED BY <2>2, <2>3, <2>4 DEF Extended
<1>2. InsertedRows \subseteq InsertedRows'
  BY <1>1 DEF InsertedRows
<1>3. PublishedRows' = PublishedRows
  BY <1>1 DEF PublishedRows
<1> QED BY <1>2, <1>3

(* The relay's marks publish exactly the rows of its transaction.          *)
LEMMA MarksPublish ==
  ASSUME PlatformInv, NEW rows, MarkOutboxPublishedTx(rows)
  PROVE  /\ InsertedRows' = InsertedRows
         /\ PublishedRows' = PublishedRows \cup rows
<1>1. ASSUME NEW j \in Jobs
      PROVE  /\ DOMAIN outbox'[j] = DOMAIN outbox[j]
             /\ \A i \in DOMAIN outbox[j] :
                  i \in Unpublished(j)'
                    <=> i \in Unpublished(j) /\ <<j, i>> \notin rows
  <2>1. outbox'[j] = [h \in DOMAIN outbox[j] |->
                        IF <<j, h>> \in rows
                        THEN [outbox[j][h] EXCEPT !.published = TRUE]
                        ELSE outbox[j][h]]
    BY DEF MarkOutboxPublishedTx
  <2>2. \A i \in DOMAIN outbox[j] : outbox[j][i] \in OutboxRow
    <3>1. outbox[j] \in Seq(OutboxRow)
      BY DEF PlatformInv, StoreInv, StoreTypeOK
    <3> QED BY <3>1
  <2> QED BY <2>1, <2>2 DEF Unpublished, OutboxRow
<1>2. InsertedRows' = InsertedRows
  BY <1>1 DEF InsertedRows
<1>3. rows \subseteq UnpublishedRows
  BY DEF MarkOutboxPublishedTx
<1>4. ASSUME NEW row
      PROVE  row \in PublishedRows' <=> row \in PublishedRows \cup rows
  <2>1. row \in PublishedRows'
          <=> \E j \in Jobs : \E i \in DOMAIN outbox[j] :
                /\ row = <<j, i>>
                /\ i \notin Unpublished(j) \/ <<j, i>> \in rows
    <3>1. row \in PublishedRows'
            <=> \E j \in Jobs : \E i \in DOMAIN outbox'[j] :
                  row = <<j, i>> /\ i \notin Unpublished(j)'
      BY DEF PublishedRows
    <3>2. ASSUME NEW j \in Jobs
          PROVE  (\E i \in DOMAIN outbox'[j] :
                    row = <<j, i>> /\ i \notin Unpublished(j)')
                   <=> \E i \in DOMAIN outbox[j] :
                         /\ row = <<j, i>>
                         /\ i \notin Unpublished(j) \/ <<j, i>> \in rows
      BY <1>1
    <3> QED BY <3>1, <3>2
  <2>2. row \in PublishedRows
          <=> \E j \in Jobs : \E i \in DOMAIN outbox[j] :
                row = <<j, i>> /\ i \notin Unpublished(j)
    BY DEF PublishedRows
  <2>3. row \in rows => \E j \in Jobs : \E i \in DOMAIN outbox[j] :
                          row = <<j, i>>
    BY <1>3 DEF UnpublishedRows, Unpublished
  <2> QED BY <2>1, <2>2, <2>3
<1> QED BY <1>2, <1>4

(* What an abstract step needs to know of a step of the loop.              *)
LEMMA AbstractRowStep ==
  ASSUME PlatformInv,
         \/ /\ InsertedRows' \subseteq Jobs \X Nat
            /\ InsertedRows \subseteq InsertedRows'
            /\ UNCHANGED <<PublishedRows, pending>>
         \/ \E row \in InsertedRows \ (PublishedRows \cup pending) :
              /\ pending' = pending \cup {row}
              /\ UNCHANGED <<InsertedRows, PublishedRows>>
         \/ \E rows \in SUBSET pending :
              /\ pending' = pending \ rows
              /\ PublishedRows' \in {PublishedRows, PublishedRows \cup rows}
              /\ UNCHANGED InsertedRows
  PROVE  Dispatches!Next
<1> DEFINE A == InsertedRows  P == PublishedRows
           A1 == InsertedRows'  P1 == PublishedRows'
<1>1. \/ A1 \subseteq Jobs \X Nat /\ A \subseteq A1 /\ P1 = P
         /\ pending' = pending
      \/ \E i \in A \ (P \cup pending) : /\ pending' = pending \cup {i}
                                         /\ A1 = A /\ P1 = P
      \/ \E S \in SUBSET pending : /\ pending' = pending \ S /\ A1 = A
                                   /\ P1 = P \/ P1 = P \cup S
  OBVIOUS
<1> HIDE DEF A, P, A1, P1
<1>2. \/ /\ A1 \subseteq Jobs \X Nat /\ A1 = A \cup (A1 \ A) /\ P1 = P
         /\ pending' = pending
      \/ \E i \in A : /\ i \in A \ (P \cup pending)
                      /\ pending' = pending \cup {i}
                      /\ A1 = A /\ P1 = P
      \/ \E S \in SUBSET pending :
           \/ P1 = P \cup S /\ pending' = pending \ S /\ A1 = A
           \/ pending' = pending \ S /\ A1 = A /\ P1 = P
  BY <1>1
<1> QED BY <1>2
        DEF A, P, A1, P1, InsertedRows, PublishedRows,
            Dispatches!Next, Dispatches!Insert, Dispatches!Publish,
            Dispatches!Commit, Dispatches!Rollback

(* Only relays and a scheduler's crash touch open transactions.            *)
LEMMA OthersLeavePending ==
  ASSUME \/ \E j \in Jobs : ClientStep(j) \/ RetryDelayPasses(j)
         \/ ReaperStep \/ ClockStep
         \/ \E s \in Slots : RenewOK(s)
         \/ \E w \in Workers : Start(w) \/ WorkerHeartbeat(w) \/ Exit(w)
                               \/ Shutdown(w)
         \/ UNCHANGED vars
         \/ \E s \in Slots : \/ HandlerStep(s) \/ RenewRefused(s)
                             \/ RenewMisread(s)
         \/ \E row \in UnpublishedRows : RelayPublishError(row[1], row[2])
         \/ \E s \in Slots, j \in Jobs : Deliver(s, j)
         \/ \E w \in Workers : Crash(w) \/ ChannelClosed(w)
  PROVE  pending' = pending
<1>1. \A j \in Jobs : ClientStep(j) \/ RetryDelayPasses(j)
                        => pending' = pending
  BY DEF ClientStep, RetryDelayPasses, platformVars, relayVars
<1>2. ReaperStep \/ ClockStep => pending' = pending
  BY DEF ReaperStep, ReaperMark, ReaperReap, ClockStep, platformVars,
         relayVars
<1>3. \A w \in Workers : Start(w) \/ WorkerHeartbeat(w) \/ Exit(w)
                         \/ Shutdown(w) \/ Crash(w) \/ ChannelClosed(w)
                           => pending' = pending
  BY DEF Start, WorkerHeartbeat, Exit, Shutdown, Crash, ChannelClosed,
         platformVars, relayVars
<1>4. \A s \in Slots : HandlerStep(s) => pending' = pending
  BY DEF HandlerStep, ClaimOK, ClaimConflict, ClaimMisread, ClaimError,
         ClaimReplyLost, RunEnds, SubmitOK, SubmitRefused, SubmitError,
         SubmitReplyLost, relayVars
<1>5. \A s \in Slots : RenewOK(s) \/ RenewRefused(s) \/ RenewMisread(s)
                       => pending' = pending
  BY DEF RenewOK, RenewRefused, RenewMisread, platformVars, relayVars
<1>6. \A s \in Slots, j \in Jobs : Deliver(s, j) => pending' = pending
  BY DEF Deliver, relayVars
<1>7. UNCHANGED vars => pending' = pending
  BY DEF vars, platformVars, relayVars
<1>8. \A j, i : RelayPublishError(j, i) => pending' = pending
  BY DEF RelayPublishError
<1> QED BY <1>1, <1>2, <1>3, <1>4, <1>5, <1>6, <1>7, <1>8

(* One case for each party: a store transaction, the relay, a crash.       *)
LEMMA LoopStepIsAbstract ==
  PlatformInv /\ [Next]_vars => [Dispatches!Next]_(Dispatches!vars)
<1> SUFFICES ASSUME PlatformInv, [Next]_vars
             PROVE  Dispatches!Next
  OBVIOUS
<1>0. PlatformInv'
  BY PlatformStep
<1>1. ASSUME [PlainNext]_storeVars, pending' = pending
      PROVE  Dispatches!Next
  <2>1. InsertedRows' \subseteq Jobs \X Nat
    <3>1. \A j \in Jobs : outbox'[j] \in Seq(OutboxRow)
      BY <1>0 DEF PlatformInv, StoreInv, StoreTypeOK
    <3>2. ASSUME NEW j \in Jobs PROVE DOMAIN outbox'[j] \subseteq Nat
      BY <3>1
    <3> QED BY <3>2 DEF InsertedRows
  <2> QED BY <1>0, <1>1, <2>1, PlainInserts, AbstractRowStep
<1>2. CASE RelayCommit
  <2>1. PICK rows \in SUBSET pending :
          MarkOutboxPublishedTx(rows) /\ pending' = pending \ rows
    BY <1>2 DEF RelayCommit
  <2> QED BY <2>1, MarksPublish, AbstractRowStep
<1>3. ASSUME NEW row \in UnpublishedRows,
             \/ RelayPublish(row[1], row[2])
             \/ RelayPublishLost(row[1], row[2])
      PROVE  Dispatches!Next
  <2>1. <<row[1], row[2]>> = row
    BY DEF UnpublishedRows
  <2>2. /\ row \in UnpublishedRows \ pending
        /\ pending' = pending \cup {row} /\ outbox' = outbox
    BY <1>3, <2>1 DEF RelayPublish, RelayPublishLost, Free, storeVars
  <2>3. row \in InsertedRows \ (PublishedRows \cup pending)
    BY <2>2, RowsAreNamed
  <2>4. UNCHANGED <<InsertedRows, PublishedRows>>
    BY <2>2 DEF InsertedRows, PublishedRows, Unpublished
  <2> QED BY <2>2, <2>3, <2>4, AbstractRowStep
<1>4. CASE SchedulerCrash
  <2>1. PICK rows \in SUBSET pending : pending' = pending \ rows
    <3>1. PICK rows \in SUBSET (pending \cup blocked) :
            pending' = pending \ rows
      BY <1>4 DEF SchedulerCrash
    <3>2. pending' = pending \ (rows \cap pending)
      BY <3>1
    <3> QED BY <3>2
  <2>2. UNCHANGED <<InsertedRows, PublishedRows>>
    BY <1>4 DEF SchedulerCrash, storeVars, InsertedRows, PublishedRows,
                Unpublished
  <2> QED BY <2>1, <2>2, AbstractRowStep
<1>5. CASE \E s \in Slots : \/ HandlerStep(s) \/ RenewRefused(s)
                           \/ RenewMisread(s)
  BY <1>1, <1>5, HandlerKeeps, OthersLeavePending
<1>6. CASE \E s \in Slots, j \in Jobs : Deliver(s, j)
  BY <1>1, <1>6, DeliverKeeps, OthersLeavePending
<1>7. CASE \E w \in Workers : Crash(w) \/ ChannelClosed(w)
  BY <1>1, <1>7, RequeueKeeps, OthersLeavePending
<1>8. CASE \/ \E j \in Jobs : ClientStep(j) \/ RetryDelayPasses(j)
           \/ ReaperStep \/ ClockStep
           \/ \E s \in Slots : RenewOK(s)
           \/ \E w \in Workers : Start(w) \/ WorkerHeartbeat(w) \/ Exit(w)
                                 \/ Shutdown(w)
           \/ UNCHANGED vars
  BY <1>1, <1>8, QuietKeeps, OthersLeavePending
<1>9. CASE \E row \in UnpublishedRows : RelayPublishError(row[1], row[2])
  BY <1>1, <1>9, PublishKeeps, OthersLeavePending
<1> QED BY <1>2, <1>3, <1>4, <1>5, <1>6, <1>7, <1>8, <1>9
        DEF Next, RelayStep, RelayFault

(* The loop implements the store's specification and that of the outbox.   *)
THEOREM LoopImplementsItsParts == Spec => ImplementsItsParts
<1>1. Init => Dispatches!Init
  <2> HAVE Init
  <2>1. pending = {} /\ \A j \in Jobs : outbox[j] = <<>>
    BY DEF Init, StoreInit
  <2>2. \A j \in Jobs : DOMAIN outbox[j] = {}
    BY <2>1
  <2> QED BY <2>1, <2>2 DEF Dispatches!Init
<1>2. Spec => Dispatches!Spec
  BY <1>1, PlatformCorrect, LoopStepIsAbstract, PTL
     DEF Spec, Dispatches!Spec
<1> QED BY <1>2, LoopUsesTheStore DEF ImplementsItsParts, RelaysProperly
=============================================================================
