------------------------------- MODULE JobLogs --------------------------------
(***************************************************************************)
(* The logs of a job: the handler of POST /workers/job-result in its three *)
(* steps.  It reads the job to learn its attempt, uploads the lines to     *)
(* jobs/{id}/logs/attempt-{n}.jsonl in object storage, and only then calls *)
(* FinishJob, which decides whether the report is still wanted and records *)
(* the artifact.  Between these steps the job may be reaped, claimed and   *)
(* finished by others.  JobStore has FinishJob's transaction; this module  *)
(* adds the handler and the objects.                                       *)
(*                                                                         *)
(* There is one report for each grant, sent at any time after the claim.   *)
(***************************************************************************)
EXTENDS JobStore

VARIABLES
  object, \* object[j][a]: generation of the run whose lines are stored under
          \* attempt a; its domain is the set of attempts with an object
  report, \* report[j][g]: progress of the report of generation g
  configured \* the scheduler was started with object storage

logVars == <<object, report, configured>>
vars == <<storeVars, logVars>>

(* art: the attempt the handler has read, 0 when the report has no lines.  *)
Report == [pc : {"running", "upload", "finish", "done"}, art : Nat,
           success : BOOLEAN]

Running == [pc |-> "running", art |-> 0, success |-> FALSE]

Init ==
  /\ StoreInit
  /\ object = [j \in Jobs |-> <<>>]
  /\ report = [j \in Jobs |-> <<>>]
  /\ configured \in BOOLEAN

Claim(j, w) ==
  /\ ClaimJob(j, w)
  /\ report' = [report EXCEPT ![j] = Append(@, Running)]
  /\ UNCHANGED <<object, configured>>

At(j, g, pc) == g \in DOMAIN report[j] /\ report[j][g].pc = pc

Goto(j, g, pc) == report' = [report EXCEPT ![j][g].pc = pc]

(* GetJob: the attempt of the row as it is now, whoever runs the job.      *)
ReadAttempt_Previous(j, g, success) ==
  /\ At(j, g, "running") /\ configured
  /\ report' = [report EXCEPT ![j][g] = [pc |-> "upload", success |-> success,
                                         art |-> jobs[j].attempt - 1]]
  /\ UNCHANGED <<storeVars, object, configured>>

ReadAttempt(j, g, success) ==
  /\ At(j, g, "running") /\ configured
  /\ report' = [report EXCEPT ![j][g] = [pc |-> "upload", success |-> success,
                                         art |-> jobs[j].attempt]]
  /\ UNCHANGED <<storeVars, object, configured>>

(* 503 for a report with lines when there is no object storage.            *)
NotConfigured(j, g, success) ==
  /\ At(j, g, "running") /\ ~configured
  /\ report' = [report EXCEPT ![j][g] = [pc |-> "done", success |-> success,
                                         art |-> 0]]
  /\ UNCHANGED <<storeVars, object, configured>>

(* A report without lines skips the upload.                                *)
NoLines(j, g, success) ==
  /\ At(j, g, "running")
  /\ report' = [report EXCEPT ![j][g] = [pc |-> "finish", success |-> success,
                                         art |-> 0]]
  /\ UNCHANGED <<storeVars, object, configured>>

(* The object is overwritten if it exists.                                 *)
Upload(j, g) ==
  LET a == report[j][g].art
  IN /\ At(j, g, "upload")
     /\ object' = [object EXCEPT ![j] =
                     [x \in DOMAIN @ \cup {a} |-> IF x = a THEN g ELSE @[x]]]
     /\ Goto(j, g, "finish")
     /\ UNCHANGED <<storeVars, configured>>

(* 500, and FinishJob is not called.                                       *)
UploadFails_Ignored(j, g) ==
  /\ At(j, g, "upload")
  /\ Goto(j, g, "finish")
  /\ UNCHANGED <<storeVars, object, configured>>

UploadFails(j, g) ==
  /\ At(j, g, "upload")
  /\ Goto(j, g, "done")
  /\ UNCHANGED <<storeVars, object, configured>>

Accept(j, g) ==
  LET r == report[j][g]  w == grants[j][g]
  IN /\ At(j, g, "finish")
     /\ \/ FinishAgain(j, r.art)
        \/ r.success /\ FinishSuccess(j, w, g, r.art)
        \/ ~r.success /\ FinishFailure(j, w, g, r.art)
     /\ Goto(j, g, "done")
     /\ UNCHANGED <<object, configured>>

(* 409, or the attempt has moved on since it was read: rolled back.        *)
Refuse(j, g) ==
  LET r == report[j][g]  w == grants[j][g]
  IN /\ At(j, g, "finish")
     /\ \/ /\ jobs[j].status # "COMPLETED"
           /\ ~FinishAccepted(j, w, g, r.success)
        \/ ~ArtifactMatches(j, r.art)
     /\ Goto(j, g, "done")
     /\ UNCHANGED <<storeVars, object, configured>>

ReportStep(j, g) ==
  \/ \E success \in BOOLEAN : \/ ReadAttempt(j, g, success)
                             \/ NotConfigured(j, g, success)
                             \/ NoLines(j, g, success)
  \/ Upload(j, g) \/ UploadFails(j, g)
  \/ Accept(j, g) \/ Refuse(j, g)

(* The rest of the platform, as far as it moves jobs between attempts.     *)
Others ==
  /\ \/ \E j \in Jobs, m \in MaxAttemptsInputs : CreateAndDispatch(j, m)
     \/ \E j \in Jobs : LeaseExpires(j)
     \/ \E w \in Workers : workers[w] = "ABSENT" /\ RegisterWorker(w)
     \/ Orphans # {} /\ ReapOrphanJobs
  /\ UNCHANGED logVars

Next ==
  \/ \E j \in Jobs : \/ \E w \in Workers : Claim(j, w)
                     \/ \E g \in DOMAIN report[j] : ReportStep(j, g)
  \/ Others

Spec == Init /\ [][Next]_vars

(***************************************************************************)
(* Properties                                                              *)
(***************************************************************************)

(* Every grant has a report and every object is under an attempt.          *)
LogsTypeOK ==
  /\ StoreTypeOK
  /\ configured \in BOOLEAN
  /\ \A j \in Jobs :
       /\ report[j] \in Seq(Report) /\ Len(report[j]) = Len(grants[j])
       /\ \A a \in DOMAIN object[j] : a \in Nat /\ object[j][a] \in Nat

(* Every artifact that the table lists has its object.  joblogs.LoadAll    *)
(* gives up on the first object it cannot open, so one missing object      *)
(* hides all the logs of the job.                                          *)
ListedLogsExist ==
  \A j \in Jobs : artifacts[j] \subseteq DOMAIN object[j]

(* The object of an attempt never holds the lines of a later run: a report *)
(* is filed under its own attempt or a newer one.                          *)
NoLinesOfLaterRuns ==
  \A j \in Jobs : \A a \in DOMAIN object[j] : object[j][a] <= a

(* The report of run h is filed under the attempt of a later run: the      *)
(* handler read the job when it was already there.                         *)
LateReport(j, h, a) ==
  h \in DOMAIN report[j] /\ h < a /\ report[j][h].art = a

(* The result and its lines are recorded together: the lines of the report *)
(* that completed a job are listed and stored under the attempt it ran as, *)
(* unless a late report of an earlier run took their place.  That one is   *)
(* possible, also after the job has completed (FinishJob accepts it then): *)
(* what is lost is lost to a run that was reaped, never to a failed upload *)
(* or to a report of a different attempt.                                  *)
ResultKeepsItsLogs ==
  \A j \in Jobs : jobs[j].status = "COMPLETED" =>
    LET g == finisher[j][2]
    IN report[j][g].art # 0 =>
         /\ report[j][g].art = g /\ g \in artifacts[j]
         /\ g \in DOMAIN object[j]
         /\ object[j][g] = g \/ LateReport(j, object[j][g], g)

(* Without object storage, jobs with local paths still work: a success     *)
(* that the holder of the lease has reported is taken.                     *)
LocalResultsAreTaken ==
  ~configured =>
    \A j \in Jobs : \A g \in DOMAIN report[j] :
      report[j][g].pc = "done" /\ report[j][g].success
      => ~HoldsLease(j, grants[j][g], g)
=============================================================================
