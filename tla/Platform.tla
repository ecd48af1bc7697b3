------------------------------ MODULE Platform ------------------------------
(***************************************************************************)
(* The whole dispatch loop: the scheduler's tables (JobStore) together     *)
(* with the outbox relay, the RabbitMQ queues, the workers' consume ->     *)
(* claim -> execute -> submit handlers, and the reaper.                    *)
(*                                                                         *)
(* A message carries a job id and an attempt; the consumer reads only the  *)
(* job id, so a queue is the number of messages it holds for each job.     *)
(* Order in a queue is dropped: a consumer may get any message.            *)
(*                                                                         *)
(* An HTTP call of a worker is one step: the scheduler applies it and the  *)
(* reply arrives.  What can go wrong is a step of its own: the call fails  *)
(* before it has an effect, or its effect is kept and the reply is lost.   *)
(* Faults are counted; FaultKinds says which of them a model allows.       *)
(* vanished and misread are history variables: they record what two of     *)
(* the faults did, and no step depends on them.                            *)
(***************************************************************************)
EXTENDS JobStore

CONSTANTS MaxParallelJobs,  \* deliveries a worker handles at a time
          FaultKinds,       \* which faults may happen
          MaxFaults         \* bound: how many faults may happen in all

(* misread: a call failed for another reason than a refusal, but the text  *)
(* of its error has "409" in it.                                           *)
AllFaults == {"claimError", "replyLost", "submitError", "crash", "shutdown",
              "channelClosed", "schedulerCrash", "misread", "publishLost",
              "publishError"}

ASSUME PlatformAssumption ==
  /\ NONE \notin Jobs
  /\ MaxParallelJobs \in Nat \ {0}
  /\ FaultKinds \subseteq AllFaults
  /\ MaxFaults \in Nat

VARIABLES
  main, retry, dlq, \* messages ready in jobs.main, jobs.retry and jobs.dlq
  pending,   \* outbox rows marked published in open transactions of relays
  blocked,   \* outbox rows locked by relays that wait for themselves
  reaper,    \* the next transaction of Reaper.Tick: "mark" or "reap"
  proc,      \* state of each worker process
  slot,      \* what each delivery handler of a worker is doing
  faults,    \* faults so far
  vanished,  \* <<job, attempt>> of waiting jobs that lost a message for good
  misread    \* <<job, gen>> of runs killed by an error taken for a refusal

brokerVars == <<main, retry, dlq>>
relayVars == <<pending, blocked>>
workerVars == <<proc, slot>>
historyVars == <<vanished, misread>>
faultVars == <<faults, historyVars>>
platformVars == <<brokerVars, relayVars, reaper, workerVars, faultVars>>
vars == <<storeVars, platformVars>>

Slots == Workers \X (1..MaxParallelJobs)

(* cancelled: SIGTERM was received and the context is done.                *)
(* channel: the AMQP channel is open.                                      *)
Proc == [up : BOOLEAN, cancelled : BOOLEAN, channel : BOOLEAN]

Down == [up |-> FALSE, cancelled |-> FALSE, channel |-> FALSE]
Up == [up |-> TRUE, cancelled |-> FALSE, channel |-> TRUE]

IdleSlot == [pc |-> "idle", job |-> NONE, gen |-> 0, success |-> FALSE,
             held |-> FALSE]

(* held: the delivery is unacknowledged on an open channel.                *)
SlotState == [pc : {"idle", "claim", "run", "killed", "submit"},
              job : Jobs \cup {NONE}, gen : Nat, success : BOOLEAN,
              held : BOOLEAN]

Init ==
  /\ StoreInit
  /\ main = [j \in Jobs |-> 0]
  /\ retry = [j \in Jobs |-> 0]
  /\ dlq = [j \in Jobs |-> 0]
  /\ pending = {} /\ blocked = {}
  /\ reaper = "mark"
  /\ proc = [w \in Workers |-> Down]
  /\ slot = [s \in Slots |-> IdleSlot]
  /\ faults = 0
  /\ vanished = {} /\ misread = {}

Strikes(kind) ==
  /\ kind \in FaultKinds
  /\ faults < MaxFaults
  /\ faults' = faults + 1

Fault(kind) == Strikes(kind) /\ UNCHANGED historyVars

(* A message of j is gone that nobody has used.                            *)
Vanishes(j) ==
  /\ vanished' = IF jobs[j].status = "DISPATCHED"
                 THEN vanished \cup {<<j, jobs[j].attempt>>} ELSE vanished
  /\ UNCHANGED misread

(***************************************************************************)
(* Clients                                                                 *)
(***************************************************************************)

(* POST /jobs/init: a row that waits for the upload of its input.          *)
initR2Job(j, m) == CreateJob(j, m)

(* POST /jobs/{id}/submit                                                  *)
submitR2Job(j) == QueueJob(j)

(* POST /jobs with a JSON body                                             *)
createJob(j, m) == CreateAndDispatch(j, m)

(* POST /jobs with the input: a max_attempts below 1 is refused.           *)
createJobFromUpload(j, m) == m >= 1 /\ CreateAndDispatch(j, m)

ClientStep(j) ==
  /\ \/ \E m \in MaxAttemptsInputs :
          initR2Job(j, m) \/ createJob(j, m) \/ createJobFromUpload(j, m)
     \/ submitR2Job(j)
  /\ UNCHANGED platformVars

(***************************************************************************)
(* Outbox relay                                                            *)
(***************************************************************************)

(* Relay.Tick publishes the rows it has locked one by one and marks them   *)
(* in its open transaction: consumers see the message before anybody sees  *)
(* the mark.  Any number of schedulers may do so (see OutboxRelay).        *)
Free(j, i) == <<j, i>> \in UnpublishedRows \ (pending \cup blocked)

RelayPublish(j, i) ==
  /\ Free(j, i)
  /\ IF outbox[j][i].target = "main"
     THEN main' = [main EXCEPT ![j] = @ + 1] /\ UNCHANGED retry
     ELSE retry' = [retry EXCEPT ![j] = @ + 1] /\ UNCHANGED main
  /\ pending' = pending \cup {<<j, i>>}
  /\ UNCHANGED <<storeVars, dlq, blocked, reaper, workerVars, faultVars>>

(* PublishWithContext returns before the broker has answered: what it      *)
(* wrote to a connection that dies is lost, and the row is marked.         *)
RelayPublishLost(j, i) ==
  /\ Free(j, i)
  /\ Strikes("publishLost")
  /\ Vanishes(j)
  /\ pending' = pending \cup {<<j, i>>}
  /\ UNCHANGED <<storeVars, brokerVars, blocked, reaper, workerVars>>

(* Publish fails: MarkOutboxPublishError waits for the lock that the tick  *)
(* itself has on the row, and every row of its batch stays locked.         *)
RelayPublishError(j, i) ==
  /\ Free(j, i)
  /\ Fault("publishError")
  /\ \E batch \in SUBSET (UnpublishedRows \ blocked) :
       /\ <<j, i>> \in batch
       /\ blocked' = blocked \cup batch
  /\ UNCHANGED <<storeVars, brokerVars, pending, reaper, workerVars>>

RelayCommit_KeepsPending ==
  \E rows \in SUBSET (pending \ blocked) :
    /\ MarkOutboxPublishedTx(rows)
    /\ UNCHANGED <<brokerVars, relayVars, reaper, workerVars, faultVars>>

(* The rows of one open transaction: each scheduler has its own.           *)
RelayCommit ==
  \E rows \in SUBSET (pending \ blocked) :
    /\ MarkOutboxPublishedTx(rows)
    /\ pending' = pending \ rows
    /\ UNCHANGED <<brokerVars, blocked, reaper, workerVars, faultVars>>

(* A scheduler dies (or its commit fails): marks that were not committed   *)
(* are gone and the rows will be published again; its locks are released.  *)
SchedulerCrash ==
  /\ Fault("schedulerCrash")
  /\ \E rows \in SUBSET (pending \cup blocked) :
       /\ rows # {} \/ reaper = "reap"
       /\ pending' = pending \ rows
       /\ blocked' = blocked \ rows
  /\ reaper' = "mark"
  /\ UNCHANGED <<storeVars, brokerVars, workerVars>>

(***************************************************************************)
(* Broker                                                                  *)
(***************************************************************************)

(* x-message-ttl of jobs.retry passes; its dead-letter route is jobs.main. *)
RetryDelayPasses(j) ==
  /\ retry[j] > 0
  /\ retry' = [retry EXCEPT ![j] = @ - 1]
  /\ main' = [main EXCEPT ![j] = @ + 1]
  /\ UNCHANGED <<storeVars, dlq, relayVars, reaper, workerVars, faultVars>>

(* How a handler ends: its delivery is acknowledged, or rejected without   *)
(* requeue, which jobs.main routes to jobs.dlq.  Nobody consumes jobs.dlq. *)
(* Both are void once the channel is closed.                               *)
Ack(s) ==
  /\ slot' = [slot EXCEPT ![s] = IdleSlot]
  /\ UNCHANGED brokerVars

Nack(s) ==
  /\ slot' = [slot EXCEPT ![s] = IdleSlot]
  /\ dlq' = IF slot[s].held THEN [dlq EXCEPT ![slot[s].job] = @ + 1] ELSE dlq
  /\ UNCHANGED <<main, retry>>

(* The broker puts the unacknowledged deliveries of w back into jobs.main. *)
HeldFor(w, j) ==
  {s \in Slots : s[1] = w /\ slot[s].held /\ slot[s].job = j}

Requeue(w) ==
  /\ main' = [j \in Jobs |-> main[j] + Cardinality(HeldFor(w, j))]
  /\ UNCHANGED <<retry, dlq>>

(***************************************************************************)
(* Worker: Consumer.handleMessage                                          *)
(***************************************************************************)

(* After SIGTERM the select of consumeParallel may still pick a delivery.  *)
Deliver_AutoAck(s, j) ==
  /\ proc[s[1]].channel
  /\ slot[s].pc = "idle"
  /\ main[j] > 0
  /\ main' = [main EXCEPT ![j] = @ - 1]
  /\ slot' = [slot EXCEPT ![s] = [IdleSlot EXCEPT !.pc = "claim", !.job = j]]
  /\ UNCHANGED <<storeVars, retry, dlq, relayVars, reaper, proc, faultVars>>

Deliver(s, j) ==
  /\ proc[s[1]].channel
  /\ slot[s].pc = "idle"
  /\ main[j] > 0
  /\ main' = [main EXCEPT ![j] = @ - 1]
  /\ slot' = [slot EXCEPT ![s] = [IdleSlot EXCEPT !.pc = "claim", !.job = j,
                                                  !.held = TRUE]]
  /\ UNCHANGED <<storeVars, retry, dlq, relayVars, reaper, proc, faultVars>>

Claiming(s) == slot[s].pc = "claim"

Stopping(s) == proc[s[1]].cancelled

ClaimOK(s) ==
  /\ Claiming(s) /\ ~Stopping(s)
  /\ ClaimJob(slot[s].job, s[1])
  /\ slot' = [slot EXCEPT ![s].pc = "run",
                          ![s].gen = jobs'[slot[s].job].gen]
  /\ UNCHANGED <<brokerVars, relayVars, reaper, proc, faultVars>>

(* 409: somebody else has the job, or it is finished.                      *)
ClaimConflict(s) ==
  /\ Claiming(s) /\ ~Stopping(s)
  /\ jobs[slot[s].job].status # "DISPATCHED"
  /\ Ack(s)
  /\ UNCHANGED <<storeVars, relayVars, reaper, proc, faultVars>>

(* isClaimConflict looks for "409" anywhere in the text of the error, also *)
(* of a transport error, which names addresses and ports (40912): the      *)
(* message is acknowledged, whether or not the scheduler made the claim.   *)
ClaimMisread(s) ==
  /\ Claiming(s)
  /\ Strikes("misread")
  /\ \/ Vanishes(slot[s].job) /\ UNCHANGED storeVars
     \/ ClaimJob(slot[s].job, s[1]) /\ UNCHANGED historyVars
  /\ Ack(s)
  /\ UNCHANGED <<relayVars, reaper, proc>>

(* The call fails with any other error (timeout, refused connection, 5xx,  *)
(* cancelled context): the handler gives the message up.                   *)
ClaimFault(s, kind) ==
  IF Stopping(s) THEN UNCHANGED faultVars ELSE Fault(kind)

ClaimError_Acks(s) ==
  /\ Claiming(s)
  /\ ClaimFault(s, "claimError")
  /\ Ack(s)
  /\ UNCHANGED <<storeVars, relayVars, reaper, proc>>

ClaimError(s) ==
  /\ Claiming(s)
  /\ ClaimFault(s, "claimError")
  /\ Nack(s)
  /\ UNCHANGED <<storeVars, relayVars, reaper, proc>>

ClaimReplyLost(s) ==
  /\ Claiming(s)
  /\ ClaimFault(s, "replyLost")
  /\ ClaimJob(slot[s].job, s[1])
  /\ Nack(s)
  /\ UNCHANGED <<relayVars, reaper, proc>>

Holds(s) == HoldsLease(slot[s].job, s[1], slot[s].gen)

(* leaseRenewalLoop: a refused renewal cancels ffmpeg, and a renewal that  *)
(* fails otherwise is tried again at the next tick.                        *)
RenewOK(s) ==
  /\ slot[s].pc = "run" /\ ~Stopping(s)
  /\ RenewLease(slot[s].job, s[1], slot[s].gen)
  /\ UNCHANGED platformVars

RenewRefused_Expired(s) ==
  /\ slot[s].pc = "run" /\ ~Stopping(s)
  /\ ~Holds(s) \/ jobs[slot[s].job].lease = "expired"
  /\ slot' = [slot EXCEPT ![s].pc = "killed"]
  /\ UNCHANGED <<storeVars, brokerVars, relayVars, reaper, proc, faultVars>>

RenewRefused(s) ==
  /\ slot[s].pc = "run" /\ ~Stopping(s)
  /\ ~Holds(s)
  /\ slot' = [slot EXCEPT ![s].pc = "killed"]
  /\ UNCHANGED <<storeVars, brokerVars, relayVars, reaper, proc, faultVars>>

(* isLeaseLost looks for "409" in the text of the error as isClaimConflict *)
(* does: a run that still has its lease may be cancelled.                  *)
RenewMisread(s) ==
  /\ slot[s].pc = "run" /\ ~Stopping(s)
  /\ Strikes("misread")
  /\ \/ UNCHANGED storeVars
     \/ RenewLease(slot[s].job, s[1], slot[s].gen)
  /\ slot' = [slot EXCEPT ![s].pc = "killed"]
  /\ misread' = misread \cup {<<slot[s].job, slot[s].gen>>}
  /\ UNCHANGED <<brokerVars, relayVars, reaper, proc, vanished>>

(* ffmpeg ends by itself, at its maximum duration, or because the context  *)
(* was cancelled; a run that was just over may still report success.       *)
RunEnds(s, success) ==
  /\ slot[s].pc \in {"run", "killed"}
  /\ slot' = [slot EXCEPT ![s].pc = "submit", ![s].success = success]
  /\ UNCHANGED <<storeVars, brokerVars, relayVars, reaper, proc, faultVars>>

(* POST /workers/job-result with logs, on a context of its own that        *)
(* SIGTERM does not cancel.                                                *)
Finish_KeepsRefusedLogs(s) ==
  LET j == slot[s].job  w == s[1]  g == slot[s].gen  art == jobs[j].attempt
  IN \/ FinishAgain(j, art)
     \/ slot[s].success /\ FinishSuccess(j, w, g, art)
     \/ ~slot[s].success /\ FinishFailure(j, w, g, art)
     \/ /\ ~FinishAccepted(j, w, g, slot[s].success)
        /\ insertLogArtifactTx(j, art)
        /\ UNCHANGED <<jobs, workers, outbox, grants, finisher>>

Finish(s) ==
  LET j == slot[s].job  w == s[1]  g == slot[s].gen  art == jobs[j].attempt
  IN \/ FinishAgain(j, art)
     \/ slot[s].success /\ FinishSuccess(j, w, g, art)
     \/ ~slot[s].success /\ FinishFailure(j, w, g, art)

SubmitOK(s) ==
  /\ slot[s].pc = "submit"
  /\ Finish(s)
  /\ Ack(s)
  /\ UNCHANGED <<relayVars, reaper, proc, faultVars>>

(* 409: the lease was lost and the result is not wanted any more.          *)
SubmitRefused(s) ==
  /\ slot[s].pc = "submit"
  /\ jobs[slot[s].job].status # "COMPLETED"
  /\ ~FinishAccepted(slot[s].job, s[1], slot[s].gen, slot[s].success)
  /\ Nack(s)
  /\ UNCHANGED <<storeVars, relayVars, reaper, proc, faultVars>>

SubmitError(s) ==
  /\ slot[s].pc = "submit"
  /\ Fault("submitError")
  /\ Nack(s)
  /\ UNCHANGED <<storeVars, relayVars, reaper, proc>>

SubmitReplyLost(s) ==
  /\ slot[s].pc = "submit"
  /\ Fault("replyLost")
  /\ Finish(s)
  /\ Nack(s)
  /\ UNCHANGED <<relayVars, reaper, proc>>

(***************************************************************************)
(* Worker processes                                                        *)
(***************************************************************************)

(* A process registers before it consumes; restarts keep the worker id.    *)
Start(w) ==
  /\ ~proc[w].up
  /\ RegisterWorker(w)
  /\ proc' = [proc EXCEPT ![w] = Up]
  /\ UNCHANGED <<brokerVars, relayVars, reaper, slot, faultVars>>

(* The heartbeat loop ends with the context.                               *)
WorkerHeartbeat(w) ==
  /\ proc[w].up /\ ~proc[w].cancelled
  /\ Heartbeat(w)
  /\ UNCHANGED platformVars

SlotsLost(w) == [s \in Slots |-> IF s[1] = w THEN IdleSlot ELSE slot[s]]

Crash(w) ==
  /\ proc[w].up
  /\ Fault("crash")
  /\ proc' = [proc EXCEPT ![w] = Down]
  /\ slot' = SlotsLost(w)
  /\ Requeue(w)
  /\ UNCHANGED <<storeVars, relayVars, reaper>>

Shutdown(w) ==
  /\ proc[w].up /\ ~proc[w].cancelled
  /\ Fault("shutdown")
  /\ proc' = [proc EXCEPT ![w].cancelled = TRUE]
  /\ UNCHANGED <<storeVars, brokerVars, relayVars, reaper, slot>>

(* The broker closes the channel (connection lost, acknowledgement         *)
(* timeout): the deliveries are requeued while their handlers go on.       *)
ChannelClosed(w) ==
  /\ proc[w].channel
  /\ Fault("channelClosed")
  /\ proc' = [proc EXCEPT ![w].channel = FALSE]
  /\ slot' = [s \in Slots |-> IF s[1] = w THEN [slot[s] EXCEPT !.held = FALSE]
                                          ELSE slot[s]]
  /\ Requeue(w)
  /\ UNCHANGED <<storeVars, relayVars, reaper>>

(* consumeParallel waits for its handlers, then the process exits.         *)
Exit(w) ==
  /\ proc[w].up
  /\ proc[w].cancelled \/ ~proc[w].channel
  /\ \A s \in Slots : s[1] = w => slot[s].pc = "idle"
  /\ proc' = [proc EXCEPT ![w] = Down]
  /\ UNCHANGED <<storeVars, brokerVars, relayVars, reaper, slot, faultVars>>

(***************************************************************************)
(* Reaper.Tick: two transactions                                           *)
(***************************************************************************)

ReaperMark ==
  /\ reaper = "mark"
  /\ MarkStaleWorkersDead
  /\ reaper' = "reap"
  /\ UNCHANGED <<brokerVars, relayVars, workerVars, faultVars>>

ReaperReap ==
  /\ reaper = "reap"
  /\ ReapOrphanJobs
  /\ reaper' = "mark"
  /\ UNCHANGED <<brokerVars, relayVars, workerVars, faultVars>>

(***************************************************************************)
(* Time                                                                    *)
(***************************************************************************)

ClockStep ==
  /\ \/ \E j \in Jobs : LeaseExpires(j)
     \/ \E w \in Workers : HeartbeatAges(w)
  /\ UNCHANGED platformVars

(***************************************************************************)

RelayStep ==
  \/ \E row \in UnpublishedRows : RelayPublish(row[1], row[2])
  \/ RelayCommit

RelayFault ==
  \/ \E row \in UnpublishedRows : \/ RelayPublishLost(row[1], row[2])
                                  \/ RelayPublishError(row[1], row[2])
  \/ SchedulerCrash

ReaperStep == ReaperMark \/ ReaperReap

HandlerStep(s) ==
  \/ ClaimOK(s)
  \/ ClaimConflict(s)
  \/ ClaimMisread(s)
  \/ ClaimError(s)
  \/ ClaimReplyLost(s)
  \/ RunEnds(s, TRUE)
  \/ RunEnds(s, FALSE)
  \/ SubmitOK(s)
  \/ SubmitRefused(s)
  \/ SubmitError(s)
  \/ SubmitReplyLost(s)

Next ==
  \/ \E j \in Jobs : ClientStep(j) \/ RetryDelayPasses(j)
  \/ RelayStep \/ RelayFault
  \/ \E s \in Slots : \/ \E j \in Jobs : Deliver(s, j)
                      \/ HandlerStep(s) \/ RenewOK(s) \/ RenewRefused(s)
                      \/ RenewMisread(s)
  \/ \E w \in Workers : \/ Start(w) \/ WorkerHeartbeat(w) \/ Exit(w)
                        \/ Crash(w) \/ Shutdown(w) \/ ChannelClosed(w)
  \/ ReaperStep
  \/ ClockStep

Spec == Init /\ [][Next]_vars

(***************************************************************************)
(* Fairness                                                                *)
(***************************************************************************)

(* A handler that works on the job with the job's current lease.           *)
Executes(s, j) ==
  /\ slot[s].pc \in {"run", "killed", "submit"}
  /\ slot[s].job = j
  /\ Holds(s)

AbandonedLeaseExpires(j) ==
  /\ ~\E s \in Slots : Executes(s, j)
  /\ LeaseExpires(j)
  /\ UNCHANGED platformVars

(* Relay and reaper run on tickers; the broker delivers what is ready and  *)
(* expires what it delays; every HTTP call and every ffmpeg run has a time *)
(* limit; processes that end are restarted (docker-compose: restart        *)
(* unless-stopped); a lease that nobody renews runs out.  Nothing is       *)
(* assumed of clients, faults, heartbeats, renewals, or of leases that a   *)
(* live executor holds.  WF of RelayStep asks for a scheduler that can     *)
(* publish: one whose connection to the broker died cannot until it is     *)
(* restarted (its channel is not opened again), so liveness is checked     *)
(* without publishLost and publishError.                                   *)
Fairness ==
  /\ WF_vars(RelayStep)
  /\ WF_vars(ReaperMark) /\ WF_vars(ReaperReap)
  /\ \A j \in Jobs : /\ WF_vars(RetryDelayPasses(j))
                     /\ WF_vars(AbandonedLeaseExpires(j))
  /\ \A s \in Slots : /\ WF_vars(\E j \in Jobs : Deliver(s, j))
                      /\ WF_vars(HandlerStep(s))
  /\ \A w \in Workers : WF_vars(Start(w)) /\ WF_vars(Exit(w))

FairSpec == Spec /\ Fairness

(***************************************************************************)
(* Properties                                                              *)
(***************************************************************************)

(* Every variable of the loop has its type; an idle handler holds nothing. *)
PlatformTypeOK ==
  /\ StoreTypeOK
  /\ main \in [Jobs -> Nat] /\ retry \in [Jobs -> Nat] /\ dlq \in [Jobs -> Nat]
  /\ pending \subseteq UnpublishedRows /\ blocked \subseteq UnpublishedRows
  /\ reaper \in {"mark", "reap"}
  /\ proc \in [Workers -> Proc]
  /\ slot \in [Slots -> SlotState]
  /\ faults \in 0..MaxFaults
  /\ vanished \subseteq Jobs \X Nat /\ misread \subseteq Jobs \X Nat

(* A job that waits for a worker is carried by something that will still   *)
(* reach one: a row a relay has to publish (once its scheduler restarts if *)
(* the row is blocked), a message in jobs.main or jobs.retry, or a         *)
(* delivery whose handler is about to claim.  The reaper looks at RUNNING  *)
(* jobs only, so a waiting job that nothing carries waits forever.         *)
Carried(j) ==
  \/ \E i \in Unpublished(j) : <<j, i>> \notin pending
  \/ main[j] + retry[j] > 0
  \/ \E s \in Slots : slot[s].pc = "claim" /\ slot[s].job = j

DispatchNotLost ==
  \A j \in Jobs : jobs[j].status = "DISPATCHED" => Carried(j)

(* With failing claims or SIGTERM a waiting job may have lost its last     *)
(* message to jobs.dlq, where an operator can still find it.  It is        *)
(* nowhere at all only if, while it was waiting for this very attempt, a   *)
(* publish was lost with its connection (rabbit.go does not wait for the   *)
(* confirm) or a failed claim was misread as a conflict: not by crashes,   *)
(* blocked relays, closed channels, lost replies, redelivered, repeated or *)
(* stale messages, in whatever number and order.                           *)
CarriedOrDeadLettered ==
  \A j \in Jobs :
    jobs[j].status = "DISPATCHED" =>
      \/ Carried(j) \/ dlq[j] > 0
      \/ <<j, jobs[j].attempt>> \in vanished

(* No lease generation is executed by two handlers, whatever is            *)
(* redelivered, published twice or retried: the generation identifies one  *)
(* execution, which is what RenewLease and FinishJob rely on.              *)
OneExecutionPerGrant ==
  \A s, t \in Slots :
    /\ s # t
    /\ slot[s].pc \in {"run", "killed", "submit"}
    /\ slot[t].pc \in {"run", "killed", "submit"}
    => <<slot[s].job, slot[s].gen>> # <<slot[t].job, slot[t].gen>>

(* The renewal loop cancels a run only when the worker can never get its   *)
(* result in as the owner of the job again, but for the runs it cancels on *)
(* an error that isLeaseLost misreads.  A refusal in particular is never   *)
(* one that a later renewal or claim would have made wrong.                *)
KilledOnlyWhenLost ==
  \A s \in Slots :
    slot[s].pc = "killed" =>
      ~Holds(s) \/ <<slot[s].job, slot[s].gen>> \in misread

(* Workers, messages and schedulers together use the store as JobStore     *)
(* expects it: in particular no renewal or result carries a generation     *)
(* that was not handed to the worker that sends it.                        *)
UsesStoreProperly == StoreSpec

Dispatches == INSTANCE Outbox WITH
  Rows      <- Jobs \X Nat,
  inserted  <- UNION {{j} \X DOMAIN outbox[j] : j \in Jobs},
  published <- UNION {{j} \X (DOMAIN outbox[j] \ Unpublished(j)) : j \in Jobs},
  taken     <- pending

(* The loop treats the rows of the outbox as Outbox promises, which is     *)
(* what the relays of OutboxRelay do: only they publish, what they publish *)
(* is not published yet, and no transaction takes a row or a mark back.    *)
RelaysProperly == Dispatches!Spec

ImplementsItsParts == UsesStoreProperly /\ RelaysProperly

(* Every job that is dispatched is completed or failed in the end, in      *)
(* spite of crashes, lost replies, closed channels and duplicate messages. *)
EveryJobEnds ==
  \A j \in Jobs : jobs[j].status = "DISPATCHED" ~> jobs[j].status \in Terminal

(* At-least-once: a dispatched job is given to a worker at least once more *)
(* or ends.                                                                *)
AtLeastOnce ==
  \A j \in Jobs :
    jobs[j].status = "DISPATCHED" ~> jobs[j].status # "DISPATCHED"
=============================================================================
