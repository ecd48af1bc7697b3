-------------------------- MODULE OutputFilesProofs ---------------------------
(***************************************************************************)
(* Proofs about OutputFiles, for any jobs, workers, paths, attempts and    *)
(* faults.                                                                 *)
(*                                                                         *)
(* Object and file need different arguments.  An object can only become    *)
(* whole, so every success that is reported stays true.  A file changes    *)
(* whenever a run writes it, and what is known of it rests on the run that *)
(* opened it last: all other writers clash with it, so a run that does not *)
(* clash is the only writer until another one opens the file.              *)
(***************************************************************************)
EXTENDS OutputFiles, JobStoreProofs

FileRec == [content : Content, job : Jobs \cup {NONE}, gen : Nat]

OutputTypes ==
  /\ storage \in [Jobs -> {"local", "r2"}]
  /\ path \in [Jobs -> Paths]
  /\ file \in [Paths -> FileRec]
  /\ object \in [Jobs -> {"none", "whole"}]
  /\ run = [j \in Jobs |-> run[j]]
  /\ faults \in Nat

(* A run has no outcome before its report; a job is completed by a success *)
(* of its newest run.                                                      *)
RunsSafe(j) ==
  /\ run[j] \in Seq(RunState) /\ Len(run[j]) = Len(grants[j])
  /\ \A g \in DOMAIN run[j] :
       run[j][g].pc \in {"check", "transcode", "upload"}
         => run[j][g].outcome = "none"
  /\ jobs[j].status = "COMPLETED" =>
       /\ Len(run[j]) \in DOMAIN run[j]
       /\ run[j][Len(run[j])].outcome \in Successes

ObjectSafe(j) ==
  \A g \in DOMAIN run[j] :
    (~Local(j) /\ run[j][g].outcome \in Successes) => object[j] = "whole"

(* Whoever writes a file has opened it last, or clashes with the run that  *)
(* has, and that one with it.                                              *)
WriterSafe(j, g) ==
  run[j][g].pc = "transcode" =>
    /\ ~OpenedLastBy(j, g, file[path[j]]) => run[j][g].clash
    /\ \A k \in Jobs : \A h \in DOMAIN run[k] :
         (OpenedLastBy(k, h, file[path[j]]) /\ ~(k = j /\ h = g))
           => run[k][h].clash

MadeSafe(j, g) ==
  (run[j][g].outcome = "made" /\ ~run[j][g].clash) =>
    OpenedLastBy(j, g, file[path[j]]) /\ file[path[j]].content = "whole"

SkipSafe(j, g) ==
  (run[j][g].outcome = "skipped" /\ ~run[j][g].clash) =>
    file[path[j]].content \in Valid /\ ~Mixed(path[j])

FileSafe(j) ==
  Local(j) =>
    \A g \in DOMAIN run[j] :
      /\ run[j][g].pc # "upload"
      /\ WriterSafe(j, g) /\ MadeSafe(j, g) /\ SkipSafe(j, g)

(* The run that has opened a file last is one that was told to.            *)
OwnerSafe(p) ==
  \/ file[p].gen = 0
  \/ LET k == file[p].job  h == file[p].gen
     IN /\ k \in Jobs /\ Local(k) /\ path[k] = p
        /\ h \in DOMAIN run[k] /\ run[k][h].pc # "check"

OutputInv ==
  /\ StoreInv /\ OutputTypes
  /\ \A j \in Jobs : RunsSafe(j) /\ ObjectSafe(j) /\ FileSafe(j)
  /\ \A p \in Paths : OwnerSafe(p)

(* The invariant implies the properties.                                   *)
LEMMA OutputInvImplies ==
  OutputInv => /\ OutputTypeOK
               /\ CompletedObjectIsWhole /\ CompletedFileIsWhole
<1> SUFFICES ASSUME OutputInv
             PROVE  /\ OutputTypeOK
                    /\ CompletedObjectIsWhole /\ CompletedFileIsWhole
  OBVIOUS
<1>1. OutputTypeOK
  BY DEF OutputInv, OutputTypeOK, OutputTypes, RunsSafe, StoreInv, FileRec
<1>2. CompletedObjectIsWhole
  BY DEF OutputInv, RunsSafe, ObjectSafe, CompletedObjectIsWhole
<1>3. ASSUME NEW j \in Jobs, jobs[j].status = "COMPLETED", Local(j),
             ~run[j][Len(run[j])].clash
      PROVE  /\ file[path[j]].content \in Valid
             /\ run[j][Len(run[j])].outcome = "made" =>
                  /\ OpenedLastBy(j, Len(run[j]), file[path[j]])
                  /\ file[path[j]].content = "whole"
  BY <1>3 DEF OutputInv, RunsSafe, FileSafe, MadeSafe, SkipSafe, Successes,
              Valid
<1>4. ASSUME NEW j \in Jobs, NEW k \in Jobs, NEW h \in DOMAIN run[k],
             OpenedLastBy(k, h, file[path[j]]), ~run[k][h].clash,
             run[k][h].outcome = "made"
      PROVE  file[path[j]].content = "whole"
  <2>1. path[j] \in Paths /\ h # 0
    BY DEF OutputInv, OutputTypes, RunsSafe
  <2>2. Local(k) /\ path[k] = path[j]
    BY <1>4, <2>1 DEF OutputInv, OwnerSafe, OpenedLastBy
  <2> QED BY <1>4, <2>2 DEF OutputInv, FileSafe, MadeSafe
<1>5. CompletedFileIsWhole
  BY <1>3, <1>4 DEF CompletedFileIsWhole
<1> QED BY <1>1, <1>2, <1>5

(* No runs, no objects, and files that no run has opened.                  *)
LEMMA OutputInit == Init => OutputInv
<1> HAVE Init
<1>1. StoreInv
  BY InitInv DEF Init
<1>2. \A j \in Jobs : /\ run[j] = <<>> /\ grants[j] = <<>>
                      /\ jobs[j].status = "ABSENT"
  BY DEF Init, StoreInit, NoRow
<1>3. OutputTypes
  BY DEF Init, OutputTypes, Content, FileRec
<1>4. ASSUME NEW j \in Jobs
      PROVE  RunsSafe(j) /\ ObjectSafe(j) /\ FileSafe(j)
  <2>1. <<>> \in Seq(RunState)
    OBVIOUS
  <2>2. DOMAIN run[j] = {}
    BY <1>2
  <2> QED BY <1>2, <2>1, <2>2 DEF RunsSafe, ObjectSafe, FileSafe
<1>5. \A p \in Paths : OwnerSafe(p)
  BY DEF Init, OwnerSafe
<1> QED BY <1>1, <1>3, <1>4, <1>5 DEF OutputInv

(* Each run belongs to a grant.                                            *)
LEMMA RunOfGrant ==
  ASSUME OutputInv, NEW j \in Jobs, NEW g \in DOMAIN run[j]
  PROVE  /\ run[j] \in Seq(RunState) /\ run[j][g] \in RunState
         /\ g \in 1..Len(grants[j]) /\ grants[j][g] \in Workers
         /\ Len(run[j]) = Len(grants[j]) /\ Len(grants[j]) \in Nat
         /\ Granted(j, grants[j][g], g)
         /\ jobs[j].attempt = Len(grants[j]) /\ jobs[j].gen = Len(grants[j])
<1>1. /\ run[j] \in Seq(RunState) /\ Len(run[j]) = Len(grants[j])
      /\ grants[j] \in Seq(Workers)
      /\ Len(grants[j]) = jobs[j].attempt /\ jobs[j].gen = jobs[j].attempt
  BY DEF OutputInv, RunsSafe, StoreInv, StoreTypeOK, AttemptsWithinLimit
<1> QED BY <1>1 DEF Granted

(* Every step of OutputFiles is a step of the store or leaves it alone.    *)
LEMMA OutputStoreStep == OutputInv /\ [Next]_vars => [StoreNext]_storeVars
<1> SUFFICES ASSUME OutputInv, [Next]_vars PROVE [StoreNext]_storeVars
  OBVIOUS
<1>1. ASSUME NEW j \in Jobs, NEW w \in Workers, Claim(j, w)
      PROVE  StoreNext
  BY <1>1 DEF Claim, StoreNext, JobStep, ServeStep
<1>2. ASSUME NEW j \in Jobs, NEW g \in DOMAIN run[j], Submit(j, g),
             ~UNCHANGED storeVars
      PROVE  StoreNext
  <2> DEFINE w == grants[j][g]
  <2>1. w \in Workers /\ g \in 1..Len(grants[j]) /\ Granted(j, w, g)
    BY RunOfGrant
  <2>2. 0 \in 0..jobs[j].attempt
    BY RunOfGrant
  <2>3. \/ FinishAgain(j, 0) \/ FinishSuccess(j, w, g, 0)
        \/ FinishFailure(j, w, g, 0)
    BY <1>2 DEF Submit
  <2> HIDE DEF w
  <2>4. ServeStep(j)
    BY <2>1, <2>2, <2>3 DEF ServeStep
  <2> QED BY <2>4 DEF StoreNext, JobStep
<1>3. ASSUME NEW j \in Jobs, NEW g \in DOMAIN run[j], RunStep(j, g),
             ~Submit(j, g)
      PROVE  UNCHANGED storeVars
  BY <1>3, Zenon DEF RunStep, SkipTranscode, InputFails, StartTranscode, Grows,
              TranscodeDone, TranscodeFails, Upload, UploadFails, Crash
<1>4. CASE Others
  BY <1>4 DEF Others, StoreNext, JobStep, CreateStep, ServeStep, TableStep,
              WorkerStep
<1>5. CASE UNCHANGED vars
  BY <1>5 DEF vars, storeVars
<1> QED BY <1>1, <1>2, <1>3, <1>4, <1>5 DEF Next

(* The run's record is replaced, and the others stay as they are.          *)
LEMMA RunSet ==
  ASSUME OutputInv, NEW j \in Jobs, NEW g \in DOMAIN run[j],
         NEW rec \in RunState, run' = [run EXCEPT ![j][g] = rec]
  PROVE  /\ run' = [k \in Jobs |-> run'[k]]
         /\ \A k \in Jobs \ {j} : run'[k] = run[k]
         /\ run'[j] \in Seq(RunState) /\ Len(run'[j]) = Len(run[j])
         /\ DOMAIN run'[j] = DOMAIN run[j]
         /\ run'[j][g] = rec
         /\ \A h \in DOMAIN run[j] \ {g} : run'[j][h] = run[j][h]
<1>1. run = [k \in Jobs |-> run[k]] /\ run[j] \in Seq(RunState)
  BY DEF OutputInv, OutputTypes, RunsSafe
<1>2. run'[j] = [run[j] EXCEPT ![g] = rec]
  BY <1>1
<1>3. run'[j] \in Seq(RunState) /\ Len(run'[j]) = Len(run[j])
  BY <1>1, <1>2
<1> QED BY <1>1, <1>2, <1>3

(* What the steps of a run after the first look have in common.            *)
RunFrame(j) ==
  /\ UNCHANGED <<storage, path, grants>>
  /\ faults' \in Nat
  /\ object' \in [Jobs -> {"none", "whole"}]
  /\ \A k \in Jobs : \/ object'[k] = object[k]
                     \/ k = j /\ object'[k] = "whole"
  /\ file' \in [Paths -> FileRec]
  /\ \A p \in Paths : /\ file'[p].job = file[p].job
                      /\ file'[p].gen = file[p].gen
                      /\ p # path[j] \/ ~Local(j) => file'[p] = file[p]

(* The record that a run has afterwards.                                   *)
RecStep(j, g, rec) ==
  /\ rec.pc # "check" \/ run[j][g].pc = "check"
  /\ rec.pc = "transcode" =>
       run[j][g].pc = "transcode" /\ rec.clash = run[j][g].clash
  /\ Local(j) => rec.pc # "upload"
  /\ rec.pc \in {"check", "transcode", "upload"} => rec.outcome = "none"
  /\ run[j][g].outcome \in Successes => rec.outcome \in Successes
  /\ rec.clash \/ ~run[j][g].clash \/ run[j][g].pc = "check"
  /\ (~Local(j) /\ rec.outcome \in Successes) => object'[j] = "whole"

(* A file is changed by a run that has it open; only a run that clashes    *)
(* may spoil it.  A success without a clash is a true one.                 *)
FileStep(j, g, rec) ==
  Local(j) =>
    LET f == file[path[j]].content  new == file'[path[j]].content
        r == run[j][g]
    IN /\ \/ new = f
          \/ r.pc = "transcode" /\ (r.clash \/ new \in Valid)
       /\ (rec.outcome = "made" /\ ~rec.clash) =>
            \/ r.outcome = "made" /\ ~r.clash /\ new = f
            \/ r.pc = "transcode" /\ ~r.clash /\ new = "whole"
       /\ (rec.outcome = "skipped" /\ ~rec.clash) =>
            /\ new = f
            /\ \/ r.outcome = "skipped" /\ ~r.clash
               \/ f \in Valid /\ ~Mixed(path[j])

(* The status of a job changes to COMPLETED by a success of its newest run *)
StatusStep(j, g) ==
  \A k \in Jobs :
    jobs'[k].status = "COMPLETED" =>
      \/ jobs[k].status = "COMPLETED"
      \/ k = j /\ g = Len(run[j]) /\ run[j][g].outcome \in Successes

LEMMA RunStepSafe ==
  ASSUME OutputInv, [StoreNext]_storeVars,
         NEW j \in Jobs, NEW g \in DOMAIN run[j], NEW rec \in RunState,
         run' = [run EXCEPT ![j][g] = rec],
         RunFrame(j), RecStep(j, g, rec), FileStep(j, g, rec),
         StatusStep(j, g)
  PROVE  OutputInv'
<1>1. StoreInv'
  BY NextInv DEF OutputInv
<1>2. /\ run' = [k \in Jobs |-> run'[k]]
      /\ \A k \in Jobs \ {j} : run'[k] = run[k]
      /\ run'[j] \in Seq(RunState) /\ Len(run'[j]) = Len(run[j])
      /\ DOMAIN run'[j] = DOMAIN run[j]
      /\ run'[j][g] = rec
      /\ \A h \in DOMAIN run[j] \ {g} : run'[j][h] = run[j][h]
  BY RunSet
<1>3. OutputTypes'
  BY <1>2 DEF OutputInv, OutputTypes, RunFrame
<1>4. /\ path \in [Jobs -> Paths] /\ path' = path /\ storage' = storage
      /\ \A k \in Jobs : Local(k)' = Local(k)
      /\ \A k \in Jobs : DOMAIN run'[k] = DOMAIN run[k]
      /\ \A k \in Jobs : \A h \in DOMAIN run[k] :
           ~(k = j /\ h = g) => run'[k][h] = run[k][h]
  BY <1>2 DEF OutputInv, OutputTypes, RunFrame, Local
<1>5. ASSUME NEW k \in Jobs
      PROVE  RunsSafe(k)' /\ ObjectSafe(k)'
  <2>1. RunsSafe(k) /\ ObjectSafe(k)
    BY DEF OutputInv
  <2>2. RunsSafe(k)'
    <3>1. CASE k = j
      BY <1>2, <2>1, <3>1 DEF RunsSafe, RunFrame, RecStep, StatusStep
    <3>2. CASE k # j
      BY <1>2, <2>1, <3>2 DEF RunsSafe, RunFrame, StatusStep
    <3> QED BY <3>1, <3>2
  <2>3. ObjectSafe(k)'
    BY <1>2, <1>4, <2>1 DEF ObjectSafe, RunFrame, RecStep
  <2> QED BY <2>2, <2>3
<1>6. ASSUME NEW p \in Paths
      PROVE  OwnerSafe(p)' /\ (Mixed(p)' => Mixed(p))
  <2>1. OwnerSafe(p)'
    <3>1. OwnerSafe(p)
      BY DEF OutputInv
    <3> QED BY <1>2, <1>4, <3>1 DEF OwnerSafe, RunFrame, RecStep
  <2>2. ASSUME NEW k \in Jobs, NEW h \in DOMAIN run[k],
               Writes(k, h, p)', run'[k][h].clash
        PROVE  Writes(k, h, p) /\ run[k][h].clash
    BY <1>2, <1>4, <2>2 DEF Writes, RecStep
  <2> QED BY <1>4, <2>1, <2>2 DEF Mixed
<1>7. ASSUME NEW k \in Jobs, Local(k), NEW h \in DOMAIN run[k]
      PROVE  /\ run'[k][h].pc # "upload"
             /\ WriterSafe(k, h)' /\ MadeSafe(k, h)' /\ SkipSafe(k, h)'
  <2>1. /\ run[k][h].pc # "upload" /\ WriterSafe(k, h) /\ MadeSafe(k, h)
        /\ SkipSafe(k, h) /\ path[k] \in Paths /\ path[j] \in Paths
    BY <1>4, <1>7 DEF OutputInv, FileSafe
  <2>2. run[j][g].outcome \notin Successes \/ run[j][g].pc # "transcode"
    BY DEF OutputInv, RunsSafe, Successes
  <2>3. Local(j) => WriterSafe(j, g)
    BY DEF OutputInv, FileSafe
  <2>4. run'[k][h].pc # "upload"
    BY <1>2, <1>4, <1>7, <2>1 DEF RecStep
  <2>5. \A l \in Jobs : \A m \in DOMAIN run[l] : \A p \in Paths :
          OpenedLastBy(l, m, file'[p]) = OpenedLastBy(l, m, file[p])
    BY DEF OpenedLastBy, RunFrame
  <2>6. ASSUME NEW l \in Jobs, NEW m \in DOMAIN run[l], NEW p \in Paths,
               OpenedLastBy(l, m, file[p]), run[l][m].clash
        PROVE  run'[l][m].clash
    <3>1. m # 0
      BY DEF OutputInv, RunsSafe
    <3>2. run[l][m].pc # "check"
      BY <2>6, <3>1 DEF OutputInv, OwnerSafe, OpenedLastBy
    <3> QED BY <1>2, <1>4, <2>6, <3>2 DEF RecStep
  <2>7. WriterSafe(k, h)'
    <3> SUFFICES ASSUME run'[k][h].pc = "transcode"
                 PROVE  WriterSafe(k, h)'
      BY DEF WriterSafe
    <3>1. run[k][h].pc = "transcode" /\ run'[k][h].clash = run[k][h].clash
      BY <1>2, <1>4 DEF RecStep
    <3>2. ~OpenedLastBy(k, h, file'[path[k]]) => run'[k][h].clash
      BY <2>1, <2>5, <3>1 DEF WriterSafe
    <3>3. ASSUME NEW l \in Jobs, NEW m \in DOMAIN run[l],
                 OpenedLastBy(l, m, file'[path[k]]), ~(l = k /\ m = h)
          PROVE  run'[l][m].clash
      <4>1. OpenedLastBy(l, m, file[path[k]])
        BY <2>1, <2>5, <3>3
      <4> QED BY <2>1, <2>6, <3>1, <3>3, <4>1 DEF WriterSafe
    <3> QED BY <1>4, <3>2, <3>3 DEF WriterSafe
  <2>8. MadeSafe(k, h)'
    <3> SUFFICES ASSUME run'[k][h].outcome = "made", ~run'[k][h].clash
                 PROVE  /\ OpenedLastBy(k, h, file'[path[k]])
                        /\ file'[path[k]].content = "whole"
      BY <1>4 DEF MadeSafe
    <3>1. CASE k = j /\ h = g
      BY <1>2, <1>7, <2>1, <2>3, <2>5, <3>1
         DEF FileStep, WriterSafe, MadeSafe
    <3>2. CASE ~(k = j /\ h = g)
      <4>1. /\ OpenedLastBy(k, h, file[path[k]]) /\ ~run[k][h].clash
            /\ file[path[k]].content = "whole"
        BY <1>4, <2>1, <3>2 DEF MadeSafe
      <4>2. file'[path[k]].content = file[path[k]].content
        <5>1. CASE Local(j) /\ path[j] = path[k]
          BY <2>3, <3>2, <4>1, <5>1 DEF FileStep, WriterSafe
        <5>2. CASE ~(Local(j) /\ path[j] = path[k])
          BY <2>1, <5>2 DEF RunFrame
        <5> QED BY <5>1, <5>2
      <4> QED BY <2>1, <2>5, <4>1, <4>2
    <3> QED BY <3>1, <3>2
  <2>9. SkipSafe(k, h)'
    <3> SUFFICES ASSUME run'[k][h].outcome = "skipped", ~run'[k][h].clash
                 PROVE  file'[path[k]].content \in Valid /\ ~Mixed(path[k])
      BY <1>4, <1>6, <2>1 DEF SkipSafe
    <3>1. CASE k = j /\ h = g
      BY <1>2, <1>7, <2>1, <3>1 DEF FileStep, SkipSafe
    <3>2. CASE ~(k = j /\ h = g)
      <4>1. file[path[k]].content \in Valid /\ ~Mixed(path[k])
        BY <1>4, <2>1, <3>2 DEF SkipSafe
      <4>2. CASE Local(j) /\ path[j] = path[k]
        <5>1. run[j][g].pc = "transcode" => ~run[j][g].clash
          BY <4>1, <4>2 DEF Mixed, Writes
        <5> QED BY <4>1, <4>2, <5>1 DEF FileStep
      <4>3. CASE ~(Local(j) /\ path[j] = path[k])
        BY <2>1, <4>1, <4>3 DEF RunFrame
      <4> QED BY <4>1, <4>2, <4>3
    <3> QED BY <3>1, <3>2
  <2> QED BY <2>4, <2>7, <2>8, <2>9
<1>8. \A k \in Jobs : FileSafe(k)'
  BY <1>4, <1>7 DEF FileSafe
<1> QED BY <1>1, <1>3, <1>5, <1>6, <1>8 DEF OutputInv

(* A run that goes on to another point.                                    *)
LEMMA GoesTo ==
  ASSUME OutputInv, NEW j \in Jobs, NEW g \in DOMAIN run[j],
         NEW pc \in {"upload", "done"}, run' = [run EXCEPT ![j][g].pc = pc]
  PROVE  \E rec \in RunState :
           /\ rec.pc = pc /\ rec.outcome = run[j][g].outcome
           /\ rec.clash = run[j][g].clash
           /\ run' = [run EXCEPT ![j][g] = rec]
<1>1. run = [k \in Jobs |-> run[k]] /\ run[j] \in Seq(RunState)
      /\ run[j][g] \in RunState
  BY RunOfGrant DEF OutputInv, OutputTypes
<1> DEFINE rec == [run[j][g] EXCEPT !.pc = pc]
<1>2. rec \in RunState /\ rec.pc = pc /\ rec.outcome = run[j][g].outcome
      /\ rec.clash = run[j][g].clash
  BY <1>1 DEF RunState
<1>3. run' = [run EXCEPT ![j][g] = rec]
  BY <1>1 DEF RunState
<1> QED BY <1>2, <1>3

(* A run that says what to report.                                         *)
LEMMA ReportsSets ==
  ASSUME OutputInv, NEW j \in Jobs, NEW g \in DOMAIN run[j],
         NEW outcome \in {"failed", "made"}, Reports(j, g, outcome)
  PROVE  \E rec \in RunState :
           /\ rec.pc = "report" /\ rec.outcome = outcome
           /\ rec.clash = run[j][g].clash
           /\ run' = [run EXCEPT ![j][g] = rec]
<1>1. run = [k \in Jobs |-> run[k]] /\ run[j] \in Seq(RunState)
      /\ run[j][g] \in RunState
  BY RunOfGrant DEF OutputInv, OutputTypes
<1> DEFINE rec == [run[j][g] EXCEPT !.pc = "report", !.outcome = outcome]
<1>2. rec \in RunState /\ rec.pc = "report" /\ rec.outcome = outcome
      /\ rec.clash = run[j][g].clash
  BY <1>1 DEF RunState, Successes
<1>3. run' = [run EXCEPT ![j][g] = rec]
  BY <1>1 DEF Reports, RunState
<1> QED BY <1>2, <1>3

(* What is known of a run, whatever it does next.                          *)
LEMMA RunFacts ==
  ASSUME OutputInv, NEW j \in Jobs, NEW g \in DOMAIN run[j]
  PROVE  /\ run[j][g] \in RunState /\ faults \in Nat
         /\ file \in [Paths -> FileRec] /\ path[j] \in Paths
         /\ object \in [Jobs -> {"none", "whole"}]
         /\ run[j][g].pc \in {"check", "transcode", "upload"}
              => run[j][g].outcome = "none"
         /\ Local(j) => run[j][g].pc # "upload"
BY RunOfGrant DEF OutputInv, OutputTypes, RunsSafe, FileSafe

(* A step that leaves file and object as they are.                         *)
LEMMA NothingWritten ==
  ASSUME OutputInv, [StoreNext]_storeVars,
         NEW j \in Jobs, NEW g \in DOMAIN run[j], NEW rec \in RunState,
         run' = [run EXCEPT ![j][g] = rec],
         UNCHANGED <<storage, path, grants, file, object>>, faults' \in Nat,
         rec.pc \in {"report", "done"}, rec.clash = run[j][g].clash,
         \/ rec.outcome = run[j][g].outcome
         \/ rec.outcome = "failed" /\ run[j][g].outcome = "none",
         StatusStep(j, g)
  PROVE  OutputInv'
<1>1. RunFrame(j)
  BY RunFacts DEF RunFrame
<1>2. (~Local(j) /\ rec.outcome \in Successes) => object[j] = "whole"
  BY DEF OutputInv, ObjectSafe, Successes
<1>3. RecStep(j, g, rec)
  BY <1>2, RunFacts DEF RecStep, Successes
<1>4. FileStep(j, g, rec)
  BY RunFacts DEF FileStep
<1> QED BY <1>1, <1>3, <1>4, RunStepSafe

(* A step that writes the local file or uploads the object.                *)
LEMMA OutputWritten ==
  ASSUME OutputInv, NEW j \in Jobs, NEW g \in DOMAIN run[j],
         Grows(j, g) \/ TranscodeDone(j, g) \/ Upload(j, g)
  PROVE  OutputInv'
<1>0. /\ run[j][g] \in RunState /\ faults \in Nat
      /\ file \in [Paths -> FileRec] /\ path[j] \in Paths
      /\ object \in [Jobs -> {"none", "whole"}]
      /\ run[j][g].pc \in {"check", "transcode", "upload"}
           => run[j][g].outcome = "none"
      /\ Local(j) => run[j][g].pc # "upload"
  BY RunFacts
<1>1. UNCHANGED storeVars
  BY Zenon DEF Grows, TranscodeDone, Upload
<1>2. UNCHANGED <<storage, path, grants, faults>> /\ StatusStep(j, g)
  BY <1>1, Zenon DEF Grows, TranscodeDone, Upload, StatusStep, storeVars
<1>3. ASSUME NEW c \in Content, file' = [file EXCEPT ![path[j]].content = c]
      PROVE  /\ file' \in [Paths -> FileRec]
             /\ file'[path[j]].content = c
             /\ \A p \in Paths : /\ file'[p].job = file[p].job
                                 /\ file'[p].gen = file[p].gen
                                 /\ p # path[j] => file'[p] = file[p]
  BY <1>0, <1>3 DEF FileRec
<1>4. CASE Grows(j, g)
  <2>1. PICK rec \in RunState : rec = run[j][g]
    BY <1>0
  <2>2. run' = [run EXCEPT ![j][g] = rec]
    <3>1. run = [k \in Jobs |-> run[k]] /\ run[j] \in Seq(RunState)
      BY DEF OutputInv, OutputTypes, RunsSafe
    <3>2. run' = run
      BY <1>4 DEF Grows
    <3>3. run[j] = [run[j] EXCEPT ![g] = rec]
      BY <2>1, <3>1
    <3> QED BY <3>1, <3>2, <3>3
  <2>3. /\ Local(j) /\ run[j][g].pc = "transcode" /\ object' = object
        /\ file' = [file EXCEPT ![path[j]].content = "readable"]
        /\ "readable" \in Content
    BY <1>4 DEF Grows, At, Content
  <2>4. RunFrame(j)
    BY <1>0, <1>2, <1>3, <2>2, <2>3 DEF RunFrame
  <2>5. RecStep(j, g, rec) /\ FileStep(j, g, rec)
    BY <1>0, <1>3, <2>1, <2>3 DEF RecStep, FileStep, Valid
  <2> QED BY <1>1, <1>2, <2>2, <2>4, <2>5, RunStepSafe
<1>5. CASE TranscodeDone(j, g)
  <2>0. run[j][g].pc = "transcode" /\ object' = object
    BY <1>5 DEF TranscodeDone, At
  <2>1. CASE Local(j)
    <3>1. PICK rec \in RunState :
            /\ rec.pc = "report" /\ rec.outcome = "made"
            /\ rec.clash = run[j][g].clash
            /\ run' = [run EXCEPT ![j][g] = rec]
      <4>1. Reports(j, g, "made")
        BY <1>5, <2>1 DEF TranscodeDone
      <4> QED BY <4>1, ReportsSets
    <3>2. PICK c \in Content : /\ file' = [file EXCEPT ![path[j]].content = c]
                               /\ ~run[j][g].clash => c = "whole"
      BY <1>0, <1>5, <2>1 DEF TranscodeDone, Content
    <3>3. RunFrame(j)
      BY <1>0, <1>2, <1>3, <2>0, <2>1, <3>1, <3>2 DEF RunFrame
    <3>4. RecStep(j, g, rec) /\ FileStep(j, g, rec)
      BY <1>0, <1>3, <2>0, <2>1, <3>1, <3>2
         DEF RecStep, FileStep, Successes, Valid
    <3> QED BY <1>1, <1>2, <3>1, <3>3, <3>4, RunStepSafe
  <2>2. CASE ~Local(j)
    <3>1. PICK rec \in RunState :
            /\ rec.pc = "upload" /\ rec.outcome = run[j][g].outcome
            /\ rec.clash = run[j][g].clash
            /\ run' = [run EXCEPT ![j][g] = rec]
      BY <1>5, <2>2, GoesTo DEF TranscodeDone
    <3>2. file' = file
      BY <1>5, <2>2 DEF TranscodeDone
    <3>3. RunFrame(j)
      BY <1>0, <1>2, <2>0, <3>1, <3>2 DEF RunFrame
    <3>4. RecStep(j, g, rec) /\ FileStep(j, g, rec)
      BY <1>0, <2>0, <2>2, <3>1 DEF RecStep, FileStep, Successes
    <3> QED BY <1>1, <1>2, <3>1, <3>3, <3>4, RunStepSafe
  <2> QED BY <2>1, <2>2
<1>6. CASE Upload(j, g)
  <2>1. PICK rec \in RunState :
          /\ rec.pc = "report" /\ rec.outcome = "made"
          /\ rec.clash = run[j][g].clash
          /\ run' = [run EXCEPT ![j][g] = rec]
    BY <1>6, ReportsSets DEF Upload
  <2>2. /\ run[j][g].pc = "upload" /\ file' = file
        /\ object' = [object EXCEPT ![j] = "whole"]
    BY <1>6 DEF Upload, At
  <2>3. RunFrame(j)
    BY <1>0, <1>2, <2>1, <2>2 DEF RunFrame
  <2>4. RecStep(j, g, rec) /\ FileStep(j, g, rec)
    BY <1>0, <2>1, <2>2 DEF RecStep, FileStep, Successes
  <2> QED BY <1>1, <1>2, <2>1, <2>3, <2>4, RunStepSafe
<1> QED BY <1>4, <1>5, <1>6

(* A run that skips the transcode: it found an object, which is whole, or  *)
(* a file that looks valid; if two runs still write that, it clashes.      *)
LEMMA SkipStep ==
  ASSUME OutputInv, NEW j \in Jobs, NEW g \in DOMAIN run[j],
         SkipTranscode(j, g)
  PROVE  OutputInv'
<1>0. /\ run[j][g] \in RunState /\ faults \in Nat
      /\ file \in [Paths -> FileRec] /\ path[j] \in Paths
      /\ object \in [Jobs -> {"none", "whole"}]
      /\ run[j][g].pc \in {"check", "transcode", "upload"}
           => run[j][g].outcome = "none"
  BY RunFacts
<1>1. /\ UNCHANGED <<storeVars, storage, path, file, object, faults>>
      /\ run[j][g].pc = "check" /\ OutputLooksValid(j)
  BY DEF SkipTranscode, At
<1>2. PICK rec \in RunState :
        /\ rec.pc = "report" /\ rec.outcome = "skipped"
        /\ rec.clash = (Local(j) /\ Mixed(path[j]))
        /\ run' = [run EXCEPT ![j][g] = rec]
  <2> DEFINE new == [pc |-> "report", outcome |-> "skipped",
                     clash |-> Local(j) /\ Mixed(path[j])]
  <2>1. (Local(j) /\ Mixed(path[j])) \in BOOLEAN
    BY DEF Local, Mixed
  <2>2. new \in RunState
    BY <2>1 DEF RunState, Successes
  <2>3. run' = [run EXCEPT ![j][g] = new]
    BY DEF SkipTranscode
  <2> QED BY <2>2, <2>3
<1>3. RunFrame(j) /\ StatusStep(j, g)
  BY <1>0, <1>1, <1>2 DEF RunFrame, StatusStep, storeVars
<1>4. RecStep(j, g, rec)
  BY <1>0, <1>1, <1>2
     DEF RecStep, OutputLooksValid, Output, Valid, Successes
<1>5. FileStep(j, g, rec)
  BY <1>0, <1>1, <1>2 DEF FileStep, OutputLooksValid, Output, Valid
<1> QED BY <1>1, <1>2, <1>3, <1>4, <1>5, RunStepSafe

(* A run that fails, or dies with its worker.                              *)
LEMMA FailStep ==
  ASSUME OutputInv, NEW j \in Jobs, NEW g \in DOMAIN run[j],
         \/ InputFails(j, g) \/ TranscodeFails(j, g)
         \/ UploadFails(j, g) \/ Crash(j, g)
  PROVE  OutputInv'
<1>1. /\ UNCHANGED <<storeVars, storage, path, file, object>>
      /\ faults' \in Nat
  <2>1. UNCHANGED <<storeVars, storage, path, file, object>> /\ Fault
    BY Zenon DEF InputFails, TranscodeFails, UploadFails, Crash
  <2> QED BY <2>1, RunFacts DEF Fault
<1>2. StatusStep(j, g) /\ grants' = grants
  BY <1>1 DEF StatusStep, storeVars
<1>3. CASE InputFails(j, g) \/ TranscodeFails(j, g) \/ UploadFails(j, g)
  <2>1. Reports(j, g, "failed") /\ run[j][g].outcome = "none"
    BY <1>3, RunFacts DEF InputFails, TranscodeFails, UploadFails, At
  <2>2. PICK rec \in RunState :
          /\ rec.pc = "report" /\ rec.outcome = "failed"
          /\ rec.clash = run[j][g].clash
          /\ run' = [run EXCEPT ![j][g] = rec]
    BY <2>1, ReportsSets
  <2> QED BY <1>1, <1>2, <2>1, <2>2, NothingWritten
<1>4. CASE Crash(j, g)
  <2>1. PICK rec \in RunState :
          /\ rec.pc = "done" /\ rec.outcome = run[j][g].outcome
          /\ rec.clash = run[j][g].clash
          /\ run' = [run EXCEPT ![j][g] = rec]
    BY <1>4, GoesTo DEF Crash
  <2> QED BY <1>1, <1>2, <2>1, NothingWritten
<1> QED BY <1>3, <1>4

(* A run that starts to transcode.  A local run becomes the one that has   *)
(* opened the file last; every run that writes the file clashes with it,   *)
(* and so does every run that had made or skipped it.                      *)
LEMMA StartStep ==
  ASSUME OutputInv, NEW j \in Jobs, NEW g \in DOMAIN run[j],
         StartTranscode(j, g)
  PROVE  OutputInv'
<1>0. PICK p \in Paths : p = path[j]
  BY DEF OutputInv, OutputTypes
<1> DEFINE Opened(k, h) ==
             IF k = j /\ h = g
             THEN [pc |-> "transcode", outcome |-> "none",
                   clash |-> Local(j) /\ Written(p)]
             ELSE [run[k][h] EXCEPT
                     !.clash = @ \/ (Local(j) /\ Disturbed(k, h, p))]
<1>1. /\ UNCHANGED <<storeVars, storage, path, object>>
      /\ run[j][g].pc = "check"
      /\ run' = [k \in Jobs |-> [h \in DOMAIN run[k] |-> Opened(k, h)]]
      /\ faults' = faults \/ faults' = faults + 1
      /\ Local(j) => file' = [file EXCEPT ![p] =
           [content |-> "short", job |-> j, gen |-> g]]
      /\ ~Local(j) => file' = file
  BY <1>0, Zenon DEF StartTranscode, At, Fault
<1>2. /\ OutputTypes /\ path[j] \in Paths
      /\ \A k \in Jobs : /\ run[k] \in Seq(RunState)
                         /\ Len(run[k]) = Len(grants[k])
                         /\ DOMAIN run[k] = 1..Len(run[k])
                         /\ Len(run[k]) \in Nat
                         /\ \A h \in DOMAIN run[k] : run[k][h] \in RunState
  BY DEF OutputInv, OutputTypes, RunsSafe
<1>3. ASSUME NEW k \in Jobs, NEW h \in DOMAIN run[k]
      PROVE  /\ Opened(k, h) \in RunState
             /\ (k = j /\ h = g) =>
                  /\ Opened(k, h).pc = "transcode"
                  /\ Opened(k, h).outcome = "none"
                  /\ Opened(k, h).clash <=> (Local(j) /\ Written(p))
             /\ ~(k = j /\ h = g) =>
                  /\ Opened(k, h).pc = run[k][h].pc
                  /\ Opened(k, h).outcome = run[k][h].outcome
                  /\ Opened(k, h).clash <=>
                       (run[k][h].clash \/ (Local(j) /\ Disturbed(k, h, p)))
  <2>1. CASE k = j /\ h = g
    <3>1. (Local(j) /\ Written(p)) \in BOOLEAN
      BY DEF Local, Written
    <3> QED BY <2>1, <3>1 DEF RunState, Successes
  <2>2. CASE ~(k = j /\ h = g)
    <3>1. (Local(j) /\ Disturbed(k, h, p)) \in BOOLEAN
      BY DEF Local, Disturbed
    <3>2. run[k][h] \in RunState
      BY <1>2
    <3> QED BY <2>2, <3>1, <3>2 DEF RunState
  <2> QED BY <2>1, <2>2
<1>4. ASSUME NEW k \in Jobs
      PROVE  /\ run'[k] = [h \in 1..Len(run[k]) |-> Opened(k, h)]
             /\ run'[k] \in Seq(RunState) /\ Len(run'[k]) = Len(run[k])
             /\ DOMAIN run'[k] = DOMAIN run[k]
             /\ \A h \in DOMAIN run[k] : run'[k][h] = Opened(k, h)
  <2> HIDE DEF Opened
  <2>1. run'[k] = [h \in 1..Len(run[k]) |-> Opened(k, h)]
    BY <1>1, <1>2
  <2>2. \A h \in 1..Len(run[k]) : Opened(k, h) \in RunState
    BY <1>2, <1>3
  <2> QED BY <1>2, <2>1, <2>2
<1>5. run' = [k \in Jobs |-> run'[k]]
  BY <1>1
<1> HIDE DEF Opened
<1>6. ASSUME NEW k \in Jobs, NEW h \in DOMAIN run[k]
       PROVE  run'[k][h] = Opened(k, h)
  BY <1>4
<1>7. run'[j][g].pc = "transcode" /\ run'[j][g].outcome = "none"
  <2>1. Opened(j, g).pc = "transcode" /\ Opened(j, g).outcome = "none"
    BY <1>3
  <2> QED BY <1>6, <2>1
<1>8. ASSUME NEW k \in Jobs, NEW h \in DOMAIN run[k], ~(k = j /\ h = g)
       PROVE  /\ run'[k][h].pc = run[k][h].pc
              /\ run'[k][h].outcome = run[k][h].outcome
  <2>1. /\ Opened(k, h).pc = run[k][h].pc
        /\ Opened(k, h).outcome = run[k][h].outcome
    BY <1>3, <1>8
  <2> QED BY <1>6, <2>1
<1>9. ASSUME NEW k \in Jobs, NEW h \in DOMAIN run[k]
       PROVE  run'[k][h].clash <=>
                IF k = j /\ h = g
                THEN Local(j) /\ Written(p)
                ELSE run[k][h].clash \/ (Local(j) /\ Disturbed(k, h, p))
  <2>1. Opened(k, h).clash <=>
          IF k = j /\ h = g
          THEN Local(j) /\ Written(p)
          ELSE run[k][h].clash \/ (Local(j) /\ Disturbed(k, h, p))
    BY <1>3
  <2> QED BY <1>6, <2>1
<1>10. /\ jobs' = jobs /\ grants' = grants /\ path' = path
       /\ object' = object /\ run[j][g].pc = "check"
       /\ \A k \in Jobs : /\ run'[k] \in Seq(RunState)
                          /\ Len(run'[k]) = Len(run[k])
                          /\ DOMAIN run'[k] = DOMAIN run[k]
  BY <1>1, <1>4 DEF storeVars
<1>11. StoreInv'
  BY <1>1, NextInv DEF OutputInv
<1>12. OutputTypes'
  <2>1. [content |-> "short", job |-> j, gen |-> g] \in FileRec
    BY <1>2 DEF FileRec, Content
  <2>2. file' \in [Paths -> FileRec]
    BY <1>1, <1>2, <2>1 DEF OutputTypes
  <2>3. faults' \in Nat
    BY <1>1, <1>2 DEF OutputTypes
  <2> QED BY <1>1, <1>2, <1>5, <2>2, <2>3 DEF OutputTypes
<1>13. /\ \A k \in Jobs : Local(k)' = Local(k)
       /\ \A q \in Paths : ~Local(j) \/ q # p => file'[q] = file[q]
       /\ Local(j) => /\ file'[p].content = "short"
                      /\ file'[p].job = j /\ file'[p].gen = g
  BY <1>1, <1>2 DEF Local, OutputTypes
<1>14. ASSUME NEW k \in Jobs
       PROVE  RunsSafe(k)' /\ ObjectSafe(k)'
  <2>1. RunsSafe(k) /\ ObjectSafe(k) /\ RunsSafe(j)
    BY DEF OutputInv
  <2>2. run[j][g].outcome = "none"
    BY <1>1, <2>1 DEF RunsSafe
  <2>3. RunsSafe(k)'
    <3>1. ASSUME NEW h \in DOMAIN run[k],
                 run'[k][h].pc \in {"check", "transcode", "upload"}
          PROVE  run'[k][h].outcome = "none"
      <4>1. CASE k = j /\ h = g
        BY <1>7, <4>1
      <4>2. CASE ~(k = j /\ h = g)
        BY <1>8, <2>1, <3>1, <4>2 DEF RunsSafe
      <4> QED BY <4>1, <4>2
    <3>2. ASSUME jobs[k].status = "COMPLETED"
          PROVE  /\ Len(run[k]) \in DOMAIN run[k]
                 /\ run'[k][Len(run[k])].outcome \in Successes
      <4>1. /\ Len(run[k]) \in DOMAIN run[k]
            /\ run[k][Len(run[k])].outcome \in Successes
        BY <2>1, <3>2 DEF RunsSafe
      <4>2. ~(k = j /\ Len(run[k]) = g)
        BY <2>2, <4>1 DEF Successes
      <4> QED BY <1>8, <4>1, <4>2
    <3>3. /\ run'[k] \in Seq(RunState) /\ Len(run'[k]) = Len(run[k])
          /\ Len(run[k]) = Len(grants[k]) /\ DOMAIN run'[k] = DOMAIN run[k]
          /\ grants' = grants /\ jobs' = jobs
      BY <1>10, <2>1 DEF RunsSafe
    <3> QED BY <3>1, <3>2, <3>3 DEF RunsSafe
  <2>4. ObjectSafe(k)'
    BY <1>7, <1>8, <1>10, <1>13, <2>1 DEF ObjectSafe, Successes
  <2> QED BY <2>3, <2>4
<1>15. ASSUME NEW q \in Paths
       PROVE  OwnerSafe(q)'
  <2>1. OwnerSafe(q)
    BY DEF OutputInv
  <2>2. CASE Local(j) /\ q = p
    BY <1>0, <1>7, <1>10, <1>13, <2>2 DEF OwnerSafe
  <2>3. CASE ~(Local(j) /\ q = p)
    BY <1>7, <1>8, <1>10, <1>13, <2>1, <2>3 DEF OwnerSafe
  <2> QED BY <2>2, <2>3
<1>16. ASSUME NEW q \in Paths, ~(Local(j) /\ q = p), Mixed(q)'
       PROVE  Mixed(q)
  <2>1. ASSUME NEW k \in Jobs, NEW h \in DOMAIN run[k],
               Writes(k, h, q)', run'[k][h].clash
        PROVE  Writes(k, h, q) /\ run[k][h].clash
    BY <1>0, <1>1, <1>4, <1>7, <1>8, <1>9, <1>13, <1>16, <2>1
       DEF Writes, Disturbed
  <2> QED BY <1>4, <1>16, <2>1 DEF Mixed
<1>17. ASSUME NEW k \in Jobs, Local(k), NEW h \in DOMAIN run[k]
       PROVE  /\ run'[k][h].pc # "upload"
              /\ WriterSafe(k, h)' /\ MadeSafe(k, h)' /\ SkipSafe(k, h)'
  <2>1. /\ run[k][h].pc # "upload" /\ WriterSafe(k, h) /\ MadeSafe(k, h)
        /\ SkipSafe(k, h) /\ path[k] \in Paths
    BY <1>2, <1>17 DEF OutputInv, FileSafe, OutputTypes
  <2>2. run'[k][h].pc # "upload"
    BY <1>7, <1>8, <1>9, <2>1
  <2>3. CASE Local(j) /\ path[k] = p
    <3>1. \A l \in Jobs : \A m \in DOMAIN run[l] :
            OpenedLastBy(l, m, file'[p]) <=> l = j /\ m = g
      BY <1>13, <2>3 DEF OpenedLastBy
    <3>2. ASSUME ~(k = j /\ h = g),
                 \/ run[k][h].pc = "transcode"
                 \/ run[k][h].outcome \in Successes
          PROVE  run'[k][h].clash
      BY <1>7, <1>8, <1>9, <1>17, <2>3, <3>2 DEF Disturbed
    <3>3. WriterSafe(k, h)'
      <4> SUFFICES ASSUME run'[k][h].pc = "transcode"
                   PROVE  /\ ~OpenedLastBy(k, h, file'[p])
                               => run'[k][h].clash
                          /\ \A l \in Jobs : \A m \in DOMAIN run[l] :
                               (OpenedLastBy(l, m, file'[p])
                                 /\ ~(l = k /\ m = h)) => run'[l][m].clash
        BY <1>1, <1>4, <2>3 DEF WriterSafe
      <4>1. ~(k = j /\ h = g) => run[k][h].pc = "transcode"
        BY <1>7, <1>8
      <4>2. ~(k = j /\ h = g) => Written(p)
        BY <1>17, <2>3, <4>1 DEF Written, Writes
      <4>3. ~(k = j /\ h = g) => run'[j][g].clash
        BY <1>7, <1>8, <1>9, <2>3, <4>2
      <4> QED BY <3>1, <3>2, <4>1, <4>3
    <3>4. MadeSafe(k, h)' /\ SkipSafe(k, h)'
      BY <1>7, <1>8, <1>9, <3>2 DEF MadeSafe, SkipSafe, Successes
    <3> QED BY <2>2, <3>3, <3>4
  <2>4. CASE ~(Local(j) /\ path[k] = p)
    <3>1. /\ ~(k = j /\ h = g) /\ file'[path[k]] = file[path[k]]
          /\ run'[k][h].pc = run[k][h].pc
          /\ run'[k][h].outcome = run[k][h].outcome
          /\ run'[k][h].clash <=> run[k][h].clash
      BY <1>0, <1>8, <1>9, <1>13, <1>17, <2>1, <2>4 DEF Disturbed
    <3>2. WriterSafe(k, h)'
      <4>1. ASSUME NEW l \in Jobs, NEW m \in DOMAIN run[l],
                   OpenedLastBy(l, m, file[path[k]]), run[l][m].clash
            PROVE  run'[l][m].clash
        <5>1. m # 0
          BY <1>2
        <5>2. run[l][m].pc # "check"
          BY <2>1, <4>1, <5>1 DEF OutputInv, OwnerSafe, OpenedLastBy
        <5> QED BY <1>1, <1>7, <1>8, <1>9, <4>1, <5>2
      <4> QED BY <1>1, <1>4, <2>1, <3>1, <4>1 DEF WriterSafe
    <3>3. MadeSafe(k, h)' /\ SkipSafe(k, h)'
      BY <1>1, <1>16, <2>1, <2>4, <3>1 DEF MadeSafe, SkipSafe, OpenedLastBy
    <3> QED BY <2>2, <3>2, <3>3
  <2> QED BY <2>3, <2>4
<1>18. \A k \in Jobs : FileSafe(k)'
  BY <1>4, <1>13, <1>17 DEF FileSafe
<1> QED BY <1>11, <1>12, <1>14, <1>15, <1>18 DEF OutputInv

(* The results of FinishJob, as far as the outputs depend on them: a job   *)
(* is completed by a success of the newest run only.                       *)
LEMMA SubmitEffect ==
  ASSUME OutputInv, NEW j \in Jobs, NEW g \in DOMAIN run[j], Submit(j, g)
  PROVE  grants' = grants /\ StatusStep(j, g)
<1> DEFINE w == grants[j][g]
<1>0. /\ jobs \in [Jobs -> JobRow] /\ jobs[j] \in JobRow
      /\ jobs[j].gen = Len(run[j])
  BY RunOfGrant DEF OutputInv, StoreInv, StoreTypeOK
<1>1. CASE FinishAgain(j, 0) \/ UNCHANGED storeVars
  BY <1>1 DEF FinishAgain, storeVars, StatusStep
<1>2. CASE run[j][g].outcome \in Successes /\ FinishSuccess(j, w, g, 0)
  <2>1. g = jobs[j].gen
    BY <1>2 DEF FinishSuccess, FinishAccepted, ActiveFinish, HoldsLease,
                LateFinish
  <2>2. /\ grants' = grants /\ jobs' = [jobs EXCEPT ![j] = CompletedRow(@)]
    BY <1>2 DEF FinishSuccess
  <2> QED BY <1>0, <1>2, <2>1, <2>2 DEF StatusStep
<1>3. CASE FinishFailure(j, w, g, 0)
  <2>1. FailedRow(jobs[j]).status # "COMPLETED"
    BY <1>0, FailedFields DEF JobRow
  <2>2. /\ grants' = grants /\ jobs' = [jobs EXCEPT ![j] = FailedRow(@)]
    BY <1>3 DEF FinishFailure
  <2> QED BY <1>0, <2>1, <2>2 DEF StatusStep
<1> QED BY <1>1, <1>2, <1>3 DEF Submit

(* A report ends its run.                                                  *)
LEMMA SubmitStep ==
  ASSUME OutputInv, [StoreNext]_storeVars,
         NEW j \in Jobs, NEW g \in DOMAIN run[j], Submit(j, g)
  PROVE  OutputInv'
<1>1. /\ UNCHANGED <<storage, path, file, object, faults>>
      /\ run' = [run EXCEPT ![j][g].pc = "done"]
  BY DEF Submit
<1>2. PICK rec \in RunState :
        /\ rec.pc = "done" /\ rec.outcome = run[j][g].outcome
        /\ rec.clash = run[j][g].clash
        /\ run' = [run EXCEPT ![j][g] = rec]
  BY <1>1, GoesTo
<1> QED BY <1>1, <1>2, SubmitEffect, RunFacts, NothingWritten

(* A change of the tables that starts no run and completes no job.         *)
LEMMA TablesStep ==
  ASSUME OutputInv, [StoreNext]_storeVars, UNCHANGED outputVars,
         grants' = grants,
         \A k \in Jobs :
           jobs'[k].status = "COMPLETED" => jobs[k].status = "COMPLETED"
  PROVE  OutputInv'
<1>1. StoreInv'
  BY NextInv DEF OutputInv
<1>2. /\ storage' = storage /\ path' = path /\ file' = file
      /\ object' = object /\ run' = run /\ faults' = faults
  BY DEF outputVars
<1>3. OutputTypes' /\ \A p \in Paths : OwnerSafe(p)'
  BY <1>2 DEF OutputInv, OutputTypes, OwnerSafe, Local
<1>4. ASSUME NEW k \in Jobs
      PROVE  RunsSafe(k)' /\ ObjectSafe(k)' /\ FileSafe(k)'
  <2>1. RunsSafe(k)' /\ ObjectSafe(k)'
    BY <1>2 DEF OutputInv, RunsSafe, ObjectSafe, Local
  <2>2. FileSafe(k)'
    BY <1>2 DEF OutputInv, FileSafe, WriterSafe, MadeSafe, SkipSafe, Mixed,
                Writes, Local, OpenedLastBy
  <2> QED BY <2>1, <2>2
<1> QED BY <1>1, <1>3, <1>4 DEF OutputInv

(* A claim starts a run.                                                   *)
LEMMA ClaimStep ==
  ASSUME OutputInv, [StoreNext]_storeVars, NEW j \in Jobs, NEW w \in Workers,
         Claim(j, w)
  PROVE  OutputInv'
<1>1. StoreInv'
  BY NextInv DEF OutputInv
<1>2. /\ jobs \in [Jobs -> JobRow] /\ grants \in [Jobs -> Seq(Workers)]
      /\ run = [k \in Jobs |-> run[k]]
      /\ run[j] \in Seq(RunState) /\ Len(run[j]) = Len(grants[j])
  BY DEF OutputInv, OutputTypes, RunsSafe, StoreInv, StoreTypeOK
<1>3. /\ UNCHANGED <<storage, path, file, object, faults>>
      /\ jobs' = [jobs EXCEPT ![j] = ClaimedRow(@, w)]
      /\ grants' = [grants EXCEPT ![j] = Append(@, w)]
      /\ run' = [run EXCEPT ![j] = Append(@, NewRun)]
  BY DEF Claim, ClaimJob
<1>4. /\ NewRun \in RunState /\ NewRun.pc = "check" /\ ~NewRun.clash
      /\ NewRun.outcome = "none"
  BY DEF NewRun, RunState
<1>5. jobs'[j].status = "RUNNING"
  <2>1. ClaimedRow(jobs[j], w).status = "RUNNING"
    BY <1>2, ClaimedFields
  <2> QED BY <1>2, <1>3, <2>1
<1>6. /\ run' = [k \in Jobs |-> run'[k]]
      /\ run'[j] = Append(run[j], NewRun) /\ grants'[j] = Append(grants[j], w)
      /\ \A k \in Jobs \ {j} : /\ run'[k] = run[k] /\ grants'[k] = grants[k]
                               /\ jobs'[k] = jobs[k]
  BY <1>2, <1>3
<1>7. /\ run'[j] \in Seq(RunState) /\ Len(run'[j]) = Len(grants'[j])
      /\ \A g \in DOMAIN run[j] : g \in DOMAIN run'[j]
                                  /\ run'[j][g] = run[j][g]
      /\ \A g \in DOMAIN run'[j] : g \in DOMAIN run[j]
                                   \/ run'[j][g] = NewRun
      /\ DOMAIN run'[j] = 1..(Len(run[j]) + 1) /\ Len(run[j]) \in Nat
      /\ DOMAIN run[j] = 1..Len(run[j])
  BY <1>2, <1>4, <1>6
<1>8. OutputTypes'
  BY <1>3, <1>6 DEF OutputInv, OutputTypes
<1>9. /\ \A k \in Jobs : Local(k)' = Local(k)
      /\ \A k \in Jobs : \A h \in DOMAIN run'[k] :
           \/ h \in DOMAIN run[k] /\ run'[k][h] = run[k][h]
           \/ k = j /\ h = Len(run[j]) + 1 /\ run'[k][h] = NewRun
      /\ \A k \in Jobs : \A h \in DOMAIN run[k] :
           h \in DOMAIN run'[k] /\ run'[k][h] = run[k][h]
  BY <1>3, <1>6, <1>7 DEF Local
<1>10. ASSUME NEW k \in Jobs
       PROVE  RunsSafe(k)' /\ ObjectSafe(k)'
  <2>1. RunsSafe(k) /\ ObjectSafe(k)
    BY DEF OutputInv
  <2>2. RunsSafe(k)'
    BY <1>4, <1>5, <1>6, <1>7, <1>9, <2>1 DEF RunsSafe
  <2>3. ObjectSafe(k)'
    BY <1>3, <1>4, <1>9, <2>1 DEF ObjectSafe, Successes
  <2> QED BY <2>2, <2>3
<1>11. ASSUME NEW p \in Paths
       PROVE  /\ OwnerSafe(p)' /\ (Mixed(p)' => Mixed(p))
              /\ ~OpenedLastBy(j, Len(run[j]) + 1, file[p])
  <2>1. OwnerSafe(p)
    BY DEF OutputInv
  <2>2. OwnerSafe(p)'
    BY <1>3, <1>9, <2>1 DEF OwnerSafe
  <2>3. Mixed(p)' => Mixed(p)
    BY <1>3, <1>4, <1>9 DEF Mixed, Writes
  <2>4. ~OpenedLastBy(j, Len(run[j]) + 1, file[p])
    BY <1>7, <2>1 DEF OwnerSafe, OpenedLastBy
  <2> QED BY <2>2, <2>3, <2>4
<1>12. ASSUME NEW k \in Jobs, Local(k), NEW h \in DOMAIN run[k]
       PROVE  WriterSafe(k, h)' /\ MadeSafe(k, h)' /\ SkipSafe(k, h)'
  <2>1. /\ WriterSafe(k, h) /\ MadeSafe(k, h) /\ SkipSafe(k, h)
        /\ path[k] \in Paths /\ run'[k][h] = run[k][h]
    BY <1>9, <1>12 DEF OutputInv, FileSafe, OutputTypes
  <2>2. WriterSafe(k, h)'
    BY <1>3, <1>9, <1>11, <2>1 DEF WriterSafe
  <2>3. MadeSafe(k, h)' /\ SkipSafe(k, h)'
    BY <1>3, <1>11, <2>1 DEF MadeSafe, SkipSafe, OpenedLastBy
  <2> QED BY <2>2, <2>3
<1>13. ASSUME NEW k \in Jobs
       PROVE  FileSafe(k)'
  <2>1. ASSUME Local(k), NEW h \in DOMAIN run'[k]
        PROVE  /\ run'[k][h].pc # "upload"
               /\ WriterSafe(k, h)' /\ MadeSafe(k, h)' /\ SkipSafe(k, h)'
    <3>1. CASE h \in DOMAIN run[k] /\ run'[k][h] = run[k][h]
      BY <1>12, <2>1, <3>1 DEF OutputInv, FileSafe
    <3>2. CASE run'[k][h] = NewRun
      BY <1>4, <3>2 DEF WriterSafe, MadeSafe, SkipSafe
    <3> QED BY <1>9, <2>1, <3>1, <3>2
  <2> QED BY <1>9, <2>1 DEF FileSafe
<1> QED BY <1>1, <1>8, <1>10, <1>11, <1>13 DEF OutputInv

(* Every step keeps the invariant.                                         *)
LEMMA OutputNext == OutputInv /\ [Next]_vars => OutputInv'
<1> SUFFICES ASSUME OutputInv, [Next]_vars PROVE OutputInv'
  OBVIOUS
<1>0. [StoreNext]_storeVars
  BY OutputStoreStep
<1>1. jobs \in [Jobs -> JobRow]
  BY DEF OutputInv, StoreInv, StoreTypeOK
<1>2. CASE Others
  <2>1. UNCHANGED outputVars /\ grants' = grants
    BY <1>2 DEF Others, CreateAndDispatch, LeaseExpires, RegisterWorker,
                ReapOrphanJobs
  <2>2. ASSUME NEW k \in Jobs, jobs'[k].status = "COMPLETED"
        PROVE  jobs[k].status = "COMPLETED"
    <3>1. ASSUME NEW j \in Jobs, NEW m \in MaxAttemptsInputs,
                 CreateAndDispatch(j, m)
          PROVE  jobs[k].status = "COMPLETED"
      <4>1. NewRow("DISPATCHED", m).status = "DISPATCHED"
        BY StoreAssumption, NewRowFields DEF JobStatus
      <4> QED BY <1>1, <2>2, <3>1, <4>1 DEF CreateAndDispatch
    <3>2. ASSUME NEW j \in Jobs, LeaseExpires(j)
          PROVE  jobs[k].status = "COMPLETED"
      <4>1. [jobs[j] EXCEPT !.lease = "expired"].status = jobs[j].status
        BY <1>1, EditedFields
      <4> QED BY <1>1, <2>2, <3>2, <4>1 DEF LeaseExpires
    <3>3. CASE \E w \in Workers : RegisterWorker(w)
      BY <2>2, <3>3 DEF RegisterWorker
    <3>4. CASE ReapOrphanJobs
      <4>1. FailedRow(jobs[k]).status # "COMPLETED"
        BY <1>1, FailedFields DEF JobRow
      <4> QED BY <2>2, <3>4, <4>1 DEF ReapOrphanJobs
    <3> QED BY <1>2, <3>1, <3>2, <3>3, <3>4 DEF Others
  <2> QED BY <1>0, <2>1, <2>2, TablesStep
<1>3. CASE UNCHANGED vars
  BY <1>0, <1>3, TablesStep DEF vars, outputVars, storeVars
<1>4. ASSUME NEW j \in Jobs, NEW g \in DOMAIN run[j], RunStep(j, g)
      PROVE  OutputInv'
  BY <1>0, <1>4, SkipStep, FailStep, StartStep, OutputWritten, SubmitStep
     DEF RunStep
<1> QED BY <1>0, <1>2, <1>3, <1>4, ClaimStep DEF Next

(* In every behaviour of the runs and the tables.                          *)
THEOREM OutputsCorrect == Spec => []OutputInv
BY OutputInit, OutputNext, PTL DEF Spec

(* The runs and their results use the tables as the store specifies: every *)
(* theorem about JobStore holds while files are written.                   *)
THEOREM RunsUseTheStore == Spec => StoreSpec
<1>1. Init => StoreInit
  BY DEF Init
<1> QED BY <1>1, OutputStoreStep, OutputsCorrect, PTL DEF Spec, StoreSpec

(* Every grant has a run, and an object is never half written.             *)
THEOREM OutputTypeCorrect == Spec => []OutputTypeOK
BY OutputInvImplies, OutputsCorrect, PTL

(* The output object of a COMPLETED R2 job is whole, however many runs     *)
(* upload under its key: runJobR2 uploads finished files only.             *)
THEOREM ObjectsAreWhole == Spec => []CompletedObjectIsWhole
BY OutputInvImplies, OutputsCorrect, PTL

(* Whatever was at the path before and however many jobs share it, the     *)
(* file of a COMPLETED local job is what the run that completed it made or *)
(* skipped, until another run opens it; and a run that makes its output    *)
(* with no other run writing leaves a whole file, also one that is late.   *)
THEOREM FilesChangeByReopening == Spec => []CompletedFileIsWhole
BY OutputInvImplies, OutputsCorrect, PTL
=============================================================================
