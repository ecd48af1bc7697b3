---------------------------- MODULE JobLogsProofs -----------------------------
(***************************************************************************)
(* Proofs about JobLogs, for any jobs, workers and numbers of attempts.    *)
(*                                                                         *)
(* The handler's steps are steps of the store, or leave it alone: so the   *)
(* store's invariants hold here too, and what remains is to relate them to *)
(* the reports and the objects.                                            *)
(***************************************************************************)
EXTENDS JobLogs, JobStoreProofs

Tables == /\ object = [j \in Jobs |-> object[j]]
          /\ report = [j \in Jobs |-> report[j]]

(* The attempt that a report has read is one the job has had, is not older *)
(* than the run that reports, and has an object once it was uploaded.      *)
ArtRead(j, g) ==
  LET r == report[j][g]
  IN /\ r.art <= jobs[j].attempt
     /\ r.pc = "upload" => r.art # 0
     /\ r.pc = "running" => r.art = 0
     /\ r.art # 0 => g <= r.art
     /\ r.pc = "finish" /\ r.art # 0 => r.art \in DOMAIN object[j]

ArtsRead == \A j \in Jobs : \A g \in DOMAIN report[j] : ArtRead(j, g)

(* The report that completed the job is over.                              *)
FinisherDone ==
  \A j \in Jobs :
    jobs[j].status = "COMPLETED" => report[j][finisher[j][2]].pc = "done"

(* The report that completed the job is listed, if it has lines.           *)
ResultIsListed ==
  \A j \in Jobs : jobs[j].status = "COMPLETED" =>
    LET g == finisher[j][2]
    IN report[j][g].art # 0 => report[j][g].art = g /\ g \in artifacts[j]

(* Who stored an object had read its attempt.                              *)
StoredBy(j, a) ==
  LET h == object[j][a]
  IN a # 0 /\ h \in DOMAIN report[j] /\ report[j][h].art = a

ObjectsAreReported ==
  \A j \in Jobs : \A a \in DOMAIN object[j] : StoredBy(j, a)

LogsInv ==
  /\ StoreInv /\ LogsTypeOK /\ Tables
  /\ ListedLogsExist /\ NoLinesOfLaterRuns /\ ResultIsListed
  /\ ArtsRead /\ FinisherDone /\ ObjectsAreReported

(* There are no reports and no objects at first.                           *)
LEMMA LogsInit == Init => LogsInv
<1> HAVE Init
<1>1. StoreInv
  BY InitInv DEF Init
<1>2. \A j \in Jobs : /\ object[j] = <<>> /\ report[j] = <<>>
                      /\ grants[j] = <<>> /\ artifacts[j] = {}
                      /\ jobs[j].status = "ABSENT"
  BY DEF Init, StoreInit, NoRow
<1>3. Tables
  BY DEF Init, Tables
<1>4. LogsTypeOK
  BY <1>1, <1>2 DEF Init, LogsTypeOK, StoreInv
<1> QED BY <1>1, <1>2, <1>3, <1>4
        DEF LogsInv, ListedLogsExist, NoLinesOfLaterRuns, ResultIsListed,
            ArtsRead, FinisherDone, ObjectsAreReported

(* Each report belongs to a grant.                                         *)
LEMMA ReportOfGrant ==
  ASSUME LogsInv, NEW j \in Jobs, NEW g \in DOMAIN report[j]
  PROVE  /\ g \in 1..Len(grants[j]) /\ grants[j][g] \in Workers
         /\ Granted(j, grants[j][g], g)
         /\ report[j][g] \in Report
         /\ g \in Nat \ {0} /\ g <= jobs[j].attempt
<1>1. /\ report[j] \in Seq(Report) /\ Len(report[j]) = Len(grants[j])
      /\ grants[j] \in Seq(Workers) /\ Len(grants[j]) = jobs[j].attempt
      /\ jobs[j].attempt \in Nat
  BY DEF LogsInv, LogsTypeOK, StoreInv, StoreTypeOK, AttemptsWithinLimit,
         JobRow
<1> QED BY <1>1 DEF Granted

(* Every step of JobLogs is a step of the store or leaves it alone: the    *)
(* handler presents only what a claim has handed out.                      *)
LEMMA LogsStoreStep == LogsInv /\ [Next]_vars => [StoreNext]_storeVars
<1> SUFFICES ASSUME LogsInv, [Next]_vars PROVE [StoreNext]_storeVars
  OBVIOUS
<1>1. ASSUME NEW j \in Jobs, NEW w \in Workers, Claim(j, w)
      PROVE  StoreNext
  BY <1>1 DEF Claim, StoreNext, JobStep, ServeStep
<1>2. ASSUME NEW j \in Jobs, NEW g \in DOMAIN report[j], Accept(j, g)
      PROVE  StoreNext
  <2> DEFINE w == grants[j][g]
             art == report[j][g].art
  <2>1. w \in Workers /\ g \in 1..Len(grants[j]) /\ Granted(j, w, g)
    BY ReportOfGrant
  <2>2. \/ FinishAgain(j, art) \/ FinishSuccess(j, w, g, art)
        \/ FinishFailure(j, w, g, art)
    BY <1>2 DEF Accept
  <2>3. ArtifactMatches(j, art)
    BY <2>2 DEF FinishAgain, FinishSuccess, FinishFailure
  <2>4. art \in 0..jobs[j].attempt
    <3>1. jobs[j].attempt \in Nat
      BY DEF LogsInv, StoreInv, StoreTypeOK, JobRow
    <3> QED BY <2>3, <3>1 DEF ArtifactMatches
  <2> HIDE DEF w, art
  <2>5. ServeStep(j)
    BY <2>1, <2>2, <2>4 DEF ServeStep
  <2> QED BY <2>5 DEF StoreNext, JobStep
<1>3. ASSUME NEW j \in Jobs, NEW g \in DOMAIN report[j], ReportStep(j, g),
             ~Accept(j, g)
      PROVE  UNCHANGED storeVars
  BY <1>3 DEF ReportStep, ReadAttempt, NotConfigured, NoLines, Upload,
              UploadFails, Refuse
<1>4. CASE Others
  BY <1>4 DEF Others, StoreNext, JobStep, CreateStep, ServeStep, TableStep,
              WorkerStep
<1>5. CASE UNCHANGED vars
  BY <1>5 DEF vars, storeVars
<1> QED BY <1>1, <1>2, <1>3, <1>4, <1>5 DEF Next

(* A step changes one report of one job.                                   *)
LEMMA ReportSet ==
  ASSUME LogsInv, NEW j \in Jobs, NEW g \in DOMAIN report[j],
         NEW rec \in Report, report' = [report EXCEPT ![j][g] = rec]
  PROVE  /\ report' = [k \in Jobs |-> report'[k]]
         /\ \A k \in Jobs :
              /\ report'[k] \in Seq(Report)
              /\ Len(report'[k]) = Len(report[k])
              /\ DOMAIN report'[k] = DOMAIN report[k]
         /\ report'[j][g] = rec
         /\ \A k \in Jobs : \A h \in DOMAIN report[k] :
              (k = j /\ h = g) \/ report'[k][h] = report[k][h]
<1>1. /\ report = [k \in Jobs |-> report[k]]
      /\ \A k \in Jobs : report[k] \in Seq(Report)
  BY DEF LogsInv, LogsTypeOK, Tables
<1>2. report'[j] = [report[j] EXCEPT ![g] = rec]
  BY <1>1
<1>3. \A k \in Jobs \ {j} : report'[k] = report[k]
  BY <1>1
<1>4. /\ report'[j] \in Seq(Report) /\ Len(report'[j]) = Len(report[j])
      /\ DOMAIN report'[j] = DOMAIN report[j]
  BY <1>1, <1>2
<1>5. report' = [k \in Jobs |-> report'[k]]
  BY <1>1
<1> QED BY <1>1, <1>2, <1>3, <1>4, <1>5

(* A step stores no object but one for the report rec of run g.            *)
Stores(j, g, rec) ==
  \A k \in Jobs : \A a \in DOMAIN object'[k] :
    \/ a \in DOMAIN object[k] /\ object'[k][a] = object[k][a]
    \/ k = j /\ object'[k][a] = g /\ rec.art = a /\ a # 0

(* The attempts and objects a report refers to do not go away.             *)
LEMMA StepOfReport ==
  ASSUME LogsInv, [StoreNext]_storeVars,
         NEW j \in Jobs, NEW g \in DOMAIN report[j], NEW rec \in Report,
         report' = [report EXCEPT ![j][g] = rec],
         report[j][g].pc # "done", ArtRead(j, g)',
         report[j][g].pc = "running" \/ rec.art = report[j][g].art,
         Stores(j, g, rec),
         grants' = grants, configured' \in BOOLEAN,
         object' = [k \in Jobs |-> object'[k]],
         \A k \in Jobs : /\ DOMAIN object[k] \subseteq DOMAIN object'[k]
                         /\ \A a \in DOMAIN object'[k] :
                              /\ a \in Nat /\ object'[k][a] \in Nat
                              /\ object'[k][a] <= a
                         /\ artifacts[k] \subseteq artifacts'[k]
                         /\ artifacts'[k] \subseteq DOMAIN object'[k],
         \A k \in Jobs : jobs'[k].status = "COMPLETED" =>
           \/ jobs[k].status = "COMPLETED" /\ finisher'[k] = finisher[k]
           \/ /\ k = j /\ finisher'[j][2] = g /\ rec.pc = "done"
              /\ rec.art # 0 => rec.art = g /\ g \in artifacts'[j]
  PROVE  LogsInv'
<1>1. StoreInv'
  BY NextInv DEF LogsInv
<1>2. /\ report' = [k \in Jobs |-> report'[k]]
      /\ \A k \in Jobs :
           /\ report'[k] \in Seq(Report)
           /\ Len(report'[k]) = Len(report[k])
           /\ DOMAIN report'[k] = DOMAIN report[k]
      /\ report'[j][g] = rec
      /\ \A k \in Jobs : \A h \in DOMAIN report[k] :
           (k = j /\ h = g) \/ report'[k][h] = report[k][h]
  BY ReportSet
<1>3. LogsTypeOK' /\ Tables'
  BY <1>1, <1>2 DEF LogsInv, LogsTypeOK, Tables, StoreInv
<1>4. ListedLogsExist' /\ NoLinesOfLaterRuns'
  BY DEF ListedLogsExist, NoLinesOfLaterRuns
<1>5. ArtsRead'
  <2> SUFFICES ASSUME NEW k \in Jobs, NEW h \in DOMAIN report[k]
               PROVE  ArtRead(k, h)'
    BY <1>2 DEF ArtsRead
  <2>1. CASE k = j /\ h = g
    BY <2>1
  <2>2. CASE ~(k = j /\ h = g)
    <3>1. ArtRead(k, h) /\ report'[k][h] = report[k][h]
      BY <1>2, <2>2 DEF LogsInv, ArtsRead
    <3>2. jobs'[k].attempt >= jobs[k].attempt
          /\ jobs[k].attempt \in Nat /\ jobs'[k].attempt \in Nat
      BY AttemptsGrow DEF LogsInv
    <3>3. report[k][h].art \in Nat
      BY ReportOfGrant DEF Report
    <3> QED BY <3>1, <3>2, <3>3 DEF ArtRead
  <2> QED BY <2>1, <2>2
<1>6. \A k \in Jobs : jobs'[k].status = "COMPLETED" =>
        LET h == finisher'[k][2]
        IN /\ report'[k][h].pc = "done"
           /\ report'[k][h].art # 0 =>
                report'[k][h].art = h /\ h \in artifacts'[k]
  <2> SUFFICES ASSUME NEW k \in Jobs, jobs'[k].status = "COMPLETED"
               PROVE  LET h == finisher'[k][2]
                      IN /\ report'[k][h].pc = "done"
                         /\ report'[k][h].art # 0 =>
                              report'[k][h].art = h /\ h \in artifacts'[k]
    OBVIOUS
  <2>1. CASE jobs[k].status = "COMPLETED" /\ finisher'[k] = finisher[k]
    <3> DEFINE h == finisher[k][2]
    <3>1. h \in 1..Len(grants[k])
      BY <2>1 DEF LogsInv, StoreInv, FencedCompletion, Granted
    <3>2. h \in DOMAIN report[k]
      BY <3>1 DEF LogsInv, LogsTypeOK
    <3>3. report[k][h].pc = "done"
      BY <2>1 DEF LogsInv, FinisherDone
    <3>4. report'[k][h] = report[k][h]
      BY <1>2, <3>2, <3>3
    <3>5. report[k][h].art # 0 => report[k][h].art = h /\ h \in artifacts[k]
      BY <2>1 DEF LogsInv, ResultIsListed
    <3> QED BY <2>1, <3>3, <3>4, <3>5
  <2>2. CASE /\ k = j /\ finisher'[j][2] = g /\ rec.pc = "done"
             /\ rec.art # 0 => rec.art = g /\ g \in artifacts'[j]
    BY <1>2, <2>2
  <2> QED BY <2>1, <2>2
<1>7. FinisherDone' /\ ResultIsListed'
  BY <1>6 DEF FinisherDone, ResultIsListed
<1>8. ObjectsAreReported'
  <2> SUFFICES ASSUME NEW k \in Jobs, NEW a \in DOMAIN object'[k]
               PROVE  StoredBy(k, a)'
    BY DEF ObjectsAreReported
  <2>1. CASE a \in DOMAIN object[k] /\ object'[k][a] = object[k][a]
    <3> DEFINE h == object[k][a]
    <3>1. a # 0 /\ h \in DOMAIN report[k] /\ report[k][h].art = a
      BY <2>1 DEF LogsInv, ObjectsAreReported, StoredBy
    <3>2. ArtRead(k, h)
      BY <3>1 DEF LogsInv, ArtsRead
    <3>3. report[k][h].pc # "running"
      BY <3>1, <3>2 DEF ArtRead
    <3>4. h \in DOMAIN report'[k] /\ report'[k][h].art = a
      BY <1>2, <3>1, <3>3
    <3> QED BY <2>1, <3>1, <3>4 DEF StoredBy
  <2>2. CASE k = j /\ object'[k][a] = g /\ rec.art = a /\ a # 0
    BY <1>2, <2>2 DEF StoredBy
  <2> QED BY <2>1, <2>2 DEF Stores
<1> QED BY <1>1, <1>3, <1>4, <1>5, <1>7, <1>8 DEF LogsInv

(* A step of the handler that leaves tables and objects alone.             *)
LEMMA QuietStep ==
  ASSUME LogsInv, UNCHANGED <<storeVars, object, configured>>,
         NEW j \in Jobs, NEW g \in DOMAIN report[j], NEW rec \in Report,
         report' = [report EXCEPT ![j][g] = rec],
         report[j][g].pc # "done",
         rec.art <= jobs[j].attempt,
         report[j][g].pc = "running" \/ rec.art = report[j][g].art,
         rec.pc # "running",
         rec.pc = "upload" => rec.art # 0,
         rec.art # 0 => g <= rec.art,
         rec.pc = "finish" /\ rec.art # 0 => rec.art \in DOMAIN object[j]
  PROVE  LogsInv'
<1>1. [StoreNext]_storeVars
  BY DEF storeVars
<1>2. report'[j][g] = rec
  BY ReportSet
<1>3. ArtRead(j, g)'
  BY <1>2 DEF ArtRead, storeVars
<1>4. \A k \in Jobs : /\ artifacts[k] \subseteq DOMAIN object[k]
                      /\ \A a \in DOMAIN object[k] :
                           /\ a \in Nat /\ object[k][a] \in Nat
                           /\ object[k][a] <= a
  BY DEF LogsInv, LogsTypeOK, ListedLogsExist, NoLinesOfLaterRuns
<1>5. object = [k \in Jobs |-> object[k]] /\ configured \in BOOLEAN
  BY DEF LogsInv, LogsTypeOK, Tables
<1>6. Stores(j, g, rec)
  BY DEF Stores
<1> QED BY <1>1, <1>3, <1>4, <1>5, <1>6, StepOfReport DEF storeVars

(* Accepting a report changes its job only.                                *)
LEMMA AcceptEffect ==
  ASSUME LogsInv, NEW j \in Jobs, NEW g \in DOMAIN report[j], Accept(j, g)
  PROVE  LET art == report[j][g].art
         IN /\ art = 0 \/ art = jobs[j].attempt
            /\ grants' = grants /\ jobs'[j].attempt = jobs[j].attempt
            /\ \A k \in Jobs : artifacts'[k] = IF k = j /\ art # 0
                                               THEN artifacts[k] \cup {art}
                                               ELSE artifacts[k]
            /\ \A k \in Jobs : jobs'[k].status = "COMPLETED" =>
                 \/ jobs[k].status = "COMPLETED" /\ finisher'[k] = finisher[k]
                 \/ k = j /\ finisher'[j][2] = g /\ g = jobs[j].attempt
<1> DEFINE art == report[j][g].art
           w == grants[j][g]
<1>0. /\ jobs \in [Jobs -> JobRow] /\ artifacts \in [Jobs -> SUBSET Nat]
      /\ finisher \in [Jobs -> (Workers \cup {NONE}) \X Nat]
      /\ jobs[j].attempt \in Nat /\ jobs[j].gen = jobs[j].attempt
  BY DEF LogsInv, StoreInv, StoreTypeOK, AttemptsWithinLimit, JobRow
<1>1. /\ ArtifactMatches(j, art) /\ insertLogArtifactTx(j, art)
      /\ grants' = grants
  BY DEF Accept, FinishAgain, FinishSuccess, FinishFailure
<1>2. \A k \in Jobs : artifacts'[k] = IF k = j /\ art # 0
                                     THEN artifacts[k] \cup {art}
                                     ELSE artifacts[k]
  BY <1>0, <1>1 DEF insertLogArtifactTx
<1>3. CASE FinishAgain(j, art)
  BY <1>1, <1>2, <1>3 DEF FinishAgain, ArtifactMatches
<1>4. CASE FinishSuccess(j, w, g, art)
  <2>1. g = jobs[j].attempt
    BY <1>0, <1>4 DEF FinishSuccess, FinishAccepted, ActiveFinish, LateFinish,
                      HoldsLease
  <2>2. /\ jobs'[j] = CompletedRow(jobs[j]) /\ finisher'[j] = <<w, g>>
        /\ \A k \in Jobs \ {j} : /\ jobs'[k] = jobs[k]
                                 /\ finisher'[k] = finisher[k]
    BY <1>0, <1>4 DEF FinishSuccess
  <2>3. jobs'[j].attempt = jobs[j].attempt
    BY <1>0, <2>2, CompletedFields
  <2> QED BY <1>1, <1>2, <2>1, <2>2, <2>3 DEF ArtifactMatches
<1>5. CASE FinishFailure(j, w, g, art)
  <2>1. /\ jobs'[j] = FailedRow(jobs[j]) /\ finisher' = finisher
        /\ \A k \in Jobs \ {j} : jobs'[k] = jobs[k]
    BY <1>0, <1>5 DEF FinishFailure
  <2>2. /\ jobs'[j].attempt = jobs[j].attempt
        /\ jobs'[j].status # "COMPLETED"
    <3>1. jobs[j].max \in Nat
      BY <1>0 DEF JobRow
    <3> QED BY <1>0, <2>1, <3>1, FailedFields
  <2> QED BY <1>1, <1>2, <2>1, <2>2 DEF ArtifactMatches
<1> QED BY <1>3, <1>4, <1>5 DEF Accept

(* Every step keeps the invariant.                                         *)
LEMMA LogsNext == LogsInv /\ [Next]_vars => LogsInv'
<1> SUFFICES ASSUME LogsInv, [Next]_vars PROVE LogsInv'
  OBVIOUS
<1>0. [StoreNext]_storeVars
  BY LogsStoreStep
<1>1. ASSUME NEW j \in Jobs, NEW w \in Workers, Claim(j, w)
      PROVE  LogsInv'
  <2>1. StoreInv'
    BY <1>0, NextInv DEF LogsInv
  <2>2. /\ \A k \in Jobs : report[k] \in Seq(Report)
        /\ Running \in Report
        /\ report = [k \in Jobs |-> report[k]]
    BY DEF LogsInv, LogsTypeOK, Tables, Running, Report
  <2>3. /\ report' = [k \in Jobs |-> report'[k]]
        /\ report'[j] = Append(report[j], Running)
        /\ \A k \in Jobs \ {j} : report'[k] = report[k]
    BY <1>1, <2>2 DEF Claim
  <2>4. \A k \in Jobs : /\ report'[k] \in Seq(Report)
                        /\ \A h \in DOMAIN report[k] :
                             report'[k][h] = report[k][h]
                        /\ \A h \in DOMAIN report'[k] :
                             \/ h \in DOMAIN report[k]
                             \/ report'[k][h] = Running
    <3>1. \A s \in Seq(Report) :
            LET t == Append(s, Running)
            IN /\ t \in Seq(Report)
               /\ \A h \in DOMAIN s : t[h] = s[h]
               /\ \A h \in DOMAIN t : h \in DOMAIN s \/ t[h] = Running
      BY <2>2
    <3>2. ASSUME NEW k \in Jobs, k # j
          PROVE  /\ report'[k] \in Seq(Report)
                 /\ \A h \in DOMAIN report[k] : report'[k][h] = report[k][h]
                 /\ DOMAIN report'[k] = DOMAIN report[k]
      BY <2>2, <2>3, <3>2
    <3>3. /\ report'[j] \in Seq(Report)
          /\ \A h \in DOMAIN report[j] : report'[j][h] = report[j][h]
          /\ \A h \in DOMAIN report'[j] :
               h \in DOMAIN report[j] \/ report'[j][h] = Running
      BY <2>2, <2>3, <3>1
    <3> QED BY <3>2, <3>3
  <2>5. /\ Len(report'[j]) = Len(report[j]) + 1
        /\ \A k \in Jobs \ {j} : grants'[k] = grants[k]
        /\ Len(grants'[j]) = Len(grants[j]) + 1
    BY <1>1, <2>2, <2>3
       DEF Claim, ClaimJob, LogsInv, StoreInv, StoreTypeOK
  <2>6. LogsTypeOK' /\ Tables'
    BY <1>1, <2>1, <2>3, <2>4, <2>5
       DEF Claim, LogsInv, LogsTypeOK, Tables, StoreInv
  <2>7. artifacts' = artifacts /\ object' = object /\ finisher' = finisher
    BY <1>1 DEF Claim, ClaimJob
  <2>8. ListedLogsExist' /\ NoLinesOfLaterRuns'
    BY <2>7 DEF LogsInv, ListedLogsExist, NoLinesOfLaterRuns
  <2>9. ArtsRead'
    <3> SUFFICES ASSUME NEW k \in Jobs, NEW h \in DOMAIN report'[k]
                 PROVE  ArtRead(k, h)'
      BY DEF ArtsRead
    <3>1. jobs'[k].attempt >= jobs[k].attempt
          /\ jobs[k].attempt \in Nat /\ jobs'[k].attempt \in Nat
      BY <1>0, AttemptsGrow DEF LogsInv
    <3>2. CASE h \in DOMAIN report[k]
      <4>1. ArtRead(k, h) /\ report'[k][h] = report[k][h]
        BY <2>4, <3>2 DEF LogsInv, ArtsRead
      <4>2. report[k][h].art \in Nat
        BY <3>2, ReportOfGrant DEF Report
      <4> QED BY <2>7, <3>1, <4>1, <4>2 DEF ArtRead
    <3>3. CASE report'[k][h] = Running
      BY <3>1, <3>3 DEF ArtRead, Running
    <3> QED BY <2>4, <3>2, <3>3
  <2>10. \A k \in Jobs : jobs'[k].status = "COMPLETED" =>
           /\ jobs[k].status = "COMPLETED"
           /\ finisher[k][2] \in DOMAIN report[k]
    <3> SUFFICES ASSUME NEW k \in Jobs, jobs'[k].status = "COMPLETED"
                 PROVE  /\ jobs[k].status = "COMPLETED"
                        /\ finisher[k][2] \in DOMAIN report[k]
      OBVIOUS
    <3>1. jobs \in [Jobs -> JobRow] /\ jobs[k] \in JobRow
      BY DEF LogsInv, StoreInv, StoreTypeOK
    <3>2. k # j
      BY <1>1, <3>1, ClaimedFields DEF Claim, ClaimJob
    <3>3. jobs[k].status = "COMPLETED"
      BY <1>1, <3>1, <3>2 DEF Claim, ClaimJob
    <3>4. finisher[k][2] \in 1..Len(grants[k])
      BY <3>3 DEF LogsInv, StoreInv, FencedCompletion, Granted
    <3> QED BY <2>2, <3>3, <3>4 DEF LogsInv, LogsTypeOK
  <2>11. FinisherDone' /\ ResultIsListed'
    BY <2>4, <2>7, <2>10
       DEF LogsInv, FinisherDone, ResultIsListed
  <2>12. ObjectsAreReported'
    <3>1. \A k \in Jobs : DOMAIN report[k] \subseteq DOMAIN report'[k]
      <4>1. ASSUME NEW k \in Jobs, k # j
            PROVE  report'[k] = report[k]
        BY <2>3, <4>1
      <4>2. DOMAIN report[j] \subseteq DOMAIN report'[j]
        BY <2>2, <2>4, <2>5
      <4> QED BY <4>1, <4>2
    <3> QED BY <2>4, <2>7, <3>1 DEF LogsInv, ObjectsAreReported, StoredBy
  <2> QED BY <2>1, <2>6, <2>8, <2>9, <2>11, <2>12 DEF LogsInv
<1>2. ASSUME NEW j \in Jobs, NEW g \in DOMAIN report[j], ReportStep(j, g)
      PROVE  LogsInv'
  <2>0. /\ report[j][g] \in Report /\ g \in Nat \ {0}
        /\ g <= jobs[j].attempt /\ jobs[j].attempt \in Nat
        /\ ArtRead(j, g) /\ report[j][g].art \in Nat
    BY ReportOfGrant
       DEF LogsInv, ArtsRead, StoreInv, StoreTypeOK, JobRow, Report
  <2>1. ASSUME NEW success \in BOOLEAN, ReadAttempt(j, g, success)
        PROVE  LogsInv'
    <3> DEFINE rec == [pc |-> "upload", success |-> success,
                       art |-> jobs[j].attempt]
    <3>1. /\ rec \in Report /\ rec.pc = "upload"
          /\ rec.art = jobs[j].attempt /\ rec.art # 0
      BY <2>0 DEF Report
    <3> HIDE DEF rec
    <3>2. report' = [report EXCEPT ![j][g] = rec] /\ report[j][g].pc # "done"
      BY <2>1 DEF ReadAttempt, At, rec
    <3>3. /\ rec.art <= jobs[j].attempt /\ (rec.art # 0 => g <= rec.art)
          /\ rec.pc = "upload" => rec.art # 0
          /\ rec.pc = "finish" /\ rec.art # 0 => rec.art \in DOMAIN object[j]
      BY <2>0, <3>1
    <3>4. UNCHANGED <<storeVars, object, configured>>
      BY <2>1 DEF ReadAttempt
    <3>5. report[j][g].pc = "running"
      BY <2>1 DEF ReadAttempt, At
    <3> QED BY <3>1, <3>2, <3>3, <3>4, <3>5, QuietStep
  <2>2. ASSUME NEW success \in BOOLEAN,
               NotConfigured(j, g, success) \/ NoLines(j, g, success)
        PROVE  LogsInv'
    <3>1. PICK pc \in {"done", "finish"} :
            report' = [report EXCEPT ![j][g] =
                         [pc |-> pc, success |-> success, art |-> 0]]
      BY <2>2 DEF NotConfigured, NoLines
    <3> DEFINE rec == [pc |-> pc, success |-> success, art |-> 0]
    <3>2. /\ rec \in Report /\ rec.art = 0
          /\ rec.pc # "upload" /\ rec.pc # "running"
      BY DEF Report
    <3>3. report' = [report EXCEPT ![j][g] = rec]
      BY <3>1
    <3> HIDE DEF rec
    <3>4. /\ report[j][g].pc = "running"
          /\ UNCHANGED <<storeVars, object, configured>>
      BY <2>2 DEF NotConfigured, NoLines, At
    <3>5. /\ rec.art <= jobs[j].attempt /\ (rec.art # 0 => g <= rec.art)
          /\ rec.pc = "upload" => rec.art # 0
          /\ rec.pc = "finish" /\ rec.art # 0 => rec.art \in DOMAIN object[j]
      BY <2>0, <3>2
    <3> QED BY <3>2, <3>3, <3>4, <3>5, QuietStep
  <2>3. ASSUME NEW pc \in {"finish", "done"}, Goto(j, g, pc)
        PROVE  LET rec == [report[j][g] EXCEPT !.pc = pc]
               IN /\ rec \in Report /\ rec.pc = pc
                  /\ rec.art = report[j][g].art
                  /\ report' = [report EXCEPT ![j][g] = rec]
    <3>1. /\ report = [k \in Jobs |-> report[k]]
          /\ report[j] \in Seq(Report)
      BY DEF LogsInv, LogsTypeOK, Tables
    <3> QED BY <2>0, <2>3, <3>1 DEF Goto, Report
  <2>4. CASE Upload(j, g)
    <3> DEFINE a == report[j][g].art
               rec == [report[j][g] EXCEPT !.pc = "finish"]
    <3>1. /\ rec \in Report /\ rec.pc = "finish" /\ rec.art = a
          /\ report' = [report EXCEPT ![j][g] = rec]
      BY <2>3, <2>4 DEF Upload
    <3> HIDE DEF rec
    <3>2. report[j][g].pc = "upload" /\ a # 0 /\ g <= a
      BY <2>0, <2>4 DEF Upload, At, ArtRead
    <3>3. object = [k \in Jobs |-> object[k]]
      BY DEF LogsInv, Tables
    <3>4. /\ object' = [k \in Jobs |-> object'[k]]
          /\ \A k \in Jobs \ {j} : object'[k] = object[k]
          /\ object'[j] = [x \in DOMAIN object[j] \cup {a} |->
                             IF x = a THEN g ELSE object[j][x]]
      BY <2>4, <3>3 DEF Upload
    <3>5. \A k \in Jobs : /\ artifacts[k] \subseteq DOMAIN object[k]
                          /\ \A x \in DOMAIN object[k] :
                               /\ x \in Nat /\ object[k][x] \in Nat
                               /\ object[k][x] <= x
      BY DEF LogsInv, LogsTypeOK, ListedLogsExist, NoLinesOfLaterRuns
    <3>6. \A k \in Jobs : /\ DOMAIN object[k] \subseteq DOMAIN object'[k]
                          /\ \A x \in DOMAIN object'[k] :
                               /\ x \in Nat /\ object'[k][x] \in Nat
                               /\ object'[k][x] <= x
      BY <2>0, <3>2, <3>4, <3>5
    <3>7. UNCHANGED <<storeVars, configured>>
      BY <2>4 DEF Upload
    <3>8. a \in DOMAIN object'[j] /\ report'[j][g] = rec
      BY <3>1, <3>4, ReportSet
    <3>9. ArtRead(j, g)'
      BY <2>0, <3>1, <3>2, <3>7, <3>8 DEF ArtRead, storeVars
    <3>10. configured \in BOOLEAN
      BY DEF LogsInv, LogsTypeOK
    <3>11. Stores(j, g, rec) /\ rec.art = report[j][g].art
      BY <3>1, <3>2, <3>4 DEF Stores
    <3> HIDE DEF a
    <3> QED BY <1>0, <3>1, <3>2, <3>4, <3>5, <3>6, <3>7, <3>9, <3>10, <3>11,
               StepOfReport DEF storeVars
  <2>5. CASE UploadFails(j, g) \/ Refuse(j, g)
    <3> DEFINE rec == [report[j][g] EXCEPT !.pc = "done"]
    <3>1. /\ rec \in Report /\ rec.pc = "done"
          /\ rec.art = report[j][g].art
          /\ report' = [report EXCEPT ![j][g] = rec]
      BY <2>3, <2>5 DEF UploadFails, Refuse
    <3> HIDE DEF rec
    <3>2. /\ report[j][g].pc # "done"
          /\ UNCHANGED <<storeVars, object, configured>>
      BY <2>5 DEF UploadFails, Refuse, At
    <3> QED BY <2>0, <3>1, <3>2, QuietStep DEF ArtRead
  <2>6. CASE Accept(j, g)
    <3> DEFINE art == report[j][g].art
               rec == [report[j][g] EXCEPT !.pc = "done"]
    <3>1. /\ rec \in Report /\ rec.pc = "done" /\ rec.art = art
          /\ report' = [report EXCEPT ![j][g] = rec]
      BY <2>3, <2>6 DEF Accept
    <3> HIDE DEF rec
    <3>2. /\ art = 0 \/ art = jobs[j].attempt
          /\ grants' = grants /\ jobs'[j].attempt = jobs[j].attempt
          /\ \A k \in Jobs : artifacts'[k] = IF k = j /\ art # 0
                                             THEN artifacts[k] \cup {art}
                                             ELSE artifacts[k]
          /\ \A k \in Jobs : jobs'[k].status = "COMPLETED" =>
               \/ jobs[k].status = "COMPLETED" /\ finisher'[k] = finisher[k]
               \/ k = j /\ finisher'[j][2] = g /\ g = jobs[j].attempt
      BY <2>6, AcceptEffect
    <3>3. /\ report[j][g].pc = "finish" /\ object' = object
          /\ configured' = configured
      BY <2>6 DEF Accept, At
    <3>4. \A k \in Jobs : /\ artifacts[k] \subseteq DOMAIN object[k]
                          /\ \A x \in DOMAIN object[k] :
                               /\ x \in Nat /\ object[k][x] \in Nat
                               /\ object[k][x] <= x
      BY DEF LogsInv, LogsTypeOK, ListedLogsExist, NoLinesOfLaterRuns
    <3>5. art # 0 => art \in DOMAIN object[j]
      BY <2>0, <3>3 DEF ArtRead
    <3>6. \A k \in Jobs : /\ artifacts[k] \subseteq artifacts'[k]
                          /\ artifacts'[k] \subseteq DOMAIN object[k]
      BY <3>2, <3>4, <3>5
    <3>7. report'[j][g] = rec
      BY <3>1, ReportSet
    <3>8. ArtRead(j, g)'
      BY <2>0, <3>1, <3>2, <3>3, <3>7 DEF ArtRead
    <3>9. \A k \in Jobs : jobs'[k].status = "COMPLETED" =>
            \/ jobs[k].status = "COMPLETED" /\ finisher'[k] = finisher[k]
            \/ /\ k = j /\ finisher'[j][2] = g /\ rec.pc = "done"
               /\ rec.art # 0 => rec.art = g /\ g \in artifacts'[j]
      BY <3>1, <3>2
    <3>10. object = [k \in Jobs |-> object[k]] /\ configured \in BOOLEAN
      BY DEF LogsInv, LogsTypeOK, Tables
    <3>11. /\ report[j][g].pc # "done" /\ grants' = grants
           /\ configured' \in BOOLEAN
           /\ object' = [k \in Jobs |-> object'[k]]
           /\ \A k \in Jobs :
                /\ DOMAIN object[k] \subseteq DOMAIN object'[k]
                /\ \A x \in DOMAIN object'[k] :
                     /\ x \in Nat /\ object'[k][x] \in Nat
                     /\ object'[k][x] <= x
                /\ artifacts[k] \subseteq artifacts'[k]
                /\ artifacts'[k] \subseteq DOMAIN object'[k]
      BY <3>2, <3>3, <3>4, <3>6, <3>10
    <3>12. Stores(j, g, rec) /\ rec.art = report[j][g].art
      BY <3>1, <3>3 DEF Stores
    <3> HIDE DEF art
    <3> QED BY <1>0, <3>1, <3>8, <3>9, <3>11, <3>12, StepOfReport
  <2> QED BY <1>2, <2>1, <2>2, <2>4, <2>5, <2>6 DEF ReportStep
<1>3. ASSUME UNCHANGED <<grants, finisher, artifacts, object, report>>,
             configured' \in BOOLEAN,
             \A k \in Jobs : jobs'[k].status = "COMPLETED" =>
                             jobs[k].status = "COMPLETED"
      PROVE  LogsInv'
  <2>1. StoreInv'
    BY <1>0, NextInv DEF LogsInv
  <2>2. LogsTypeOK' /\ Tables'
    BY <1>3, <2>1 DEF LogsInv, LogsTypeOK, Tables, StoreInv
  <2>3. ListedLogsExist' /\ NoLinesOfLaterRuns'
    BY <1>3 DEF LogsInv, ListedLogsExist, NoLinesOfLaterRuns
  <2>4. ArtsRead'
    <3> SUFFICES ASSUME NEW k \in Jobs, NEW h \in DOMAIN report[k]
                 PROVE  ArtRead(k, h)'
      BY <1>3 DEF ArtsRead
    <3>1. jobs'[k].attempt >= jobs[k].attempt
          /\ jobs[k].attempt \in Nat /\ jobs'[k].attempt \in Nat
      BY <1>0, AttemptsGrow DEF LogsInv
    <3>2. ArtRead(k, h)
      BY DEF LogsInv, ArtsRead
    <3>3. report[k][h].art \in Nat
      BY ReportOfGrant DEF Report
    <3> QED BY <1>3, <3>1, <3>2, <3>3 DEF ArtRead
  <2>5. FinisherDone' /\ ResultIsListed' /\ ObjectsAreReported'
    BY <1>3 DEF LogsInv, FinisherDone, ResultIsListed, ObjectsAreReported,
                StoredBy
  <2> QED BY <2>1, <2>2, <2>3, <2>4, <2>5 DEF LogsInv
<1>4. CASE Others
  <2>1. jobs \in [Jobs -> JobRow] /\ configured \in BOOLEAN
    BY DEF LogsInv, LogsTypeOK, StoreInv, StoreTypeOK
  <2>2. UNCHANGED <<grants, finisher, artifacts, object, report, configured>>
    BY <1>4 DEF Others, logVars, CreateAndDispatch, LeaseExpires,
                RegisterWorker, ReapOrphanJobs
  <2>3. ASSUME NEW k \in Jobs, jobs'[k].status = "COMPLETED"
        PROVE  jobs[k].status = "COMPLETED"
    <3>1. ASSUME NEW j \in Jobs, NEW m \in MaxAttemptsInputs,
                 CreateAndDispatch(j, m)
          PROVE  jobs[k].status = "COMPLETED"
      <4>1. NewRow("DISPATCHED", m).status = "DISPATCHED"
        BY StoreAssumption, NewRowFields DEF JobStatus
      <4> QED BY <2>1, <2>3, <3>1, <4>1 DEF CreateAndDispatch
    <3>2. ASSUME NEW j \in Jobs, LeaseExpires(j)
          PROVE  jobs[k].status = "COMPLETED"
      <4>1. [jobs[j] EXCEPT !.lease = "expired"].status = jobs[j].status
        BY <2>1, EditedFields
      <4> QED BY <2>1, <2>3, <3>2, <4>1 DEF LeaseExpires
    <3>3. CASE \E w \in Workers : RegisterWorker(w)
      BY <2>3, <3>3 DEF RegisterWorker
    <3>4. CASE ReapOrphanJobs
      <4>1. FailedRow(jobs[k]).status # "COMPLETED"
        BY <2>1, FailedFields DEF JobRow
      <4> QED BY <2>1, <2>3, <3>4, <4>1 DEF ReapOrphanJobs
    <3> QED BY <1>4, <3>1, <3>2, <3>3, <3>4 DEF Others
  <2> QED BY <1>3, <2>1, <2>2, <2>3
<1>5. CASE UNCHANGED vars
  <2>1. configured \in BOOLEAN
    BY DEF LogsInv, LogsTypeOK
  <2> QED BY <1>3, <1>5, <2>1 DEF vars, storeVars, logVars
<1> QED BY <1>1, <1>2, <1>4, <1>5 DEF Next

(* In every behaviour of the handler and the tables.                       *)
THEOREM LogsCorrect == Spec => []LogsInv
BY LogsInit, LogsNext, PTL DEF Spec

(* The handler in three steps still drives the tables by transactions of   *)
(* the store only: what is proved of JobStore holds here.                  *)
THEOREM HandlerUsesTheStore == Spec => StoreSpec
<1>1. Init => StoreInit
  BY DEF Init
<1> QED BY <1>1, LogsStoreStep, LogsCorrect, PTL DEF Spec, StoreSpec

(* Every grant has one report, and objects are stored under attempts.      *)
THEOREM LogsTypeCorrect == Spec => []LogsTypeOK
<1>1. LogsInv => LogsTypeOK
  BY DEF LogsInv
<1> QED BY <1>1, LogsCorrect, PTL

(* POST /workers/job-result never lists an attempt in job_log_artifacts    *)
(* whose object it has not stored, whatever happens between its steps, so  *)
(* joblogs.LoadAll opens every object it is told of.                       *)
THEOREM ListedObjectsExist == Spec => []ListedLogsExist
<1>1. LogsInv => ListedLogsExist
  BY DEF LogsInv
<1> QED BY <1>1, LogsCorrect, PTL

(* The lines of a run are never filed under an attempt before it.          *)
THEOREM LinesAreNeverBackdated == Spec => []NoLinesOfLaterRuns
<1>1. LogsInv => NoLinesOfLaterRuns
  BY DEF LogsInv
<1> QED BY <1>1, LogsCorrect, PTL

(* The lines of the report that completed a job are listed and stored      *)
(* under the attempt it ran as, unless those of an earlier run whose       *)
(* report had read that attempt have replaced them.                        *)
THEOREM OnlyLateReportsReplaceTheResult == Spec => []ResultKeepsItsLogs
<1>1. LogsInv => ResultKeepsItsLogs
  <2> SUFFICES ASSUME LogsInv, NEW j \in Jobs, jobs[j].status = "COMPLETED",
                      NEW g, g = finisher[j][2], report[j][g].art # 0
               PROVE  /\ report[j][g].art = g /\ g \in artifacts[j]
                      /\ g \in DOMAIN object[j]
                      /\ object[j][g] = g \/ LateReport(j, object[j][g], g)
    BY DEF ResultKeepsItsLogs
  <2>1. report[j][g].art = g /\ g \in artifacts[j] /\ g \in DOMAIN object[j]
    BY DEF LogsInv, ResultIsListed, ListedLogsExist
  <2>2. /\ StoredBy(j, g) /\ object[j][g] <= g
        /\ object[j][g] \in Nat /\ g \in Nat
    BY <2>1 DEF LogsInv, LogsTypeOK, NoLinesOfLaterRuns, ObjectsAreReported
  <2> QED BY <2>1, <2>2 DEF StoredBy, LateReport
<1> QED BY <1>1, LogsCorrect, PTL
=============================================================================
