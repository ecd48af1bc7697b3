----------------------------- MODULE OutputFiles -----------------------------
(***************************************************************************)
(* The result of a job: what a worker's run does to the output file of a   *)
(* local job and to the output object of an object-storage (R2) job,       *)
(* composed with the tables that decide whose result counts.               *)
(*                                                                         *)
(* A run first looks whether the output is already there and then reports  *)
(* success without transcoding.  For a local job ffmpeg writes to the      *)
(* output path itself, on a volume that all workers share; what it has     *)
(* written so far stays there when it is stopped.  The client chooses the  *)
(* path: a file may be there before the job, and several jobs may name it. *)
(* For an R2 job ffmpeg writes to a directory of its own and the finished  *)
(* file is uploaded, under a key made of the job's own id.                 *)
(*                                                                         *)
(* There is a run for each grant.  A run goes on after its lease was lost  *)
(* until a renewal is refused, which may come at any later moment.         *)
(***************************************************************************)
EXTENDS JobStore

CONSTANTS
  Paths,     \* the paths that clients name
  MaxFaults  \* bound on stopped transcodes, failed calls and crashes

ASSUME OutputAssumption == MaxFaults \in Nat

VARIABLES
  storage, \* jobs.storage
  path,    \* jobs.output_path of the local jobs
  file,    \* file[p]: what is at path p, and history: the run that opened it
           \* last, generation 0 when none has
  object,  \* what is at the key of an R2 job
  run,     \* run[j][g]: the run that generation g was handed to
  faults   \* faults so far

outputVars == <<storage, path, file, object, run, faults>>
vars == <<storeVars, outputVars>>

(* OutputLooksValid asks for 256 bytes and a header that ffprobe can read. *)
(* "short" fails that test; "readable" passes it and is not finished.      *)
Content == {"none", "short", "readable", "whole"}

Valid == {"readable", "whole"}

(* How a run comes to report success: it made the output or it skipped.    *)
Successes == {"made", "skipped"}

(* clash: the file was written by another run at the same time (what it    *)
(* then holds is open, see TranscodeDone), or, as history, was opened by   *)
(* another one after this run had made or skipped it.                      *)
RunState == [pc : {"check", "transcode", "upload", "report", "done"},
             outcome : {"none", "failed"} \cup Successes, clash : BOOLEAN]

NewRun == [pc |-> "check", outcome |-> "none", clash |-> FALSE]

(* Any file may be at a path before the first job is created.              *)
Init ==
  /\ StoreInit
  /\ storage \in [Jobs -> {"local", "r2"}]
  /\ path \in [Jobs -> Paths]
  /\ file \in [Paths -> [content : Content, job : {NONE}, gen : {0}]]
  /\ object = [j \in Jobs |-> "none"]
  /\ run = [j \in Jobs |-> <<>>]
  /\ faults = 0

At(j, g, pc) == g \in DOMAIN run[j] /\ run[j][g].pc = pc

Local(j) == storage[j] = "local"

Reports(j, g, outcome) ==
  run' = [run EXCEPT ![j][g].pc = "report", ![j][g].outcome = outcome]

Fault == faults < MaxFaults /\ faults' = faults + 1

(***************************************************************************)
(* A run                                                                   *)
(***************************************************************************)

Claim(j, w) ==
  /\ ClaimJob(j, w)
  /\ run' = [run EXCEPT ![j] = Append(@, NewRun)]
  /\ UNCHANGED <<storage, path, file, object, faults>>

Output(j) == IF Local(j) THEN file[path[j]].content ELSE object[j]

OutputLooksValid_AnyFile(j) == Output(j) # "none"

OutputLooksValid(j) == Output(j) \in Valid

(* The runs of local jobs that have the file at p open.                    *)
Writes(k, h, p) ==
  Local(k) /\ path[k] = p /\ h \in DOMAIN run[k] /\ run[k][h].pc = "transcode"

Written(p) == \E k \in Jobs : \E h \in DOMAIN run[k] : Writes(k, h, p)

(* Two runs have written to the file at p, and one of them still does.     *)
Mixed(p) ==
  \E k \in Jobs : \E h \in DOMAIN run[k] :
    Writes(k, h, p) /\ run[k][h].clash

SkipTranscode(j, g) ==
  /\ At(j, g, "check") /\ OutputLooksValid(j)
  /\ run' = [run EXCEPT ![j][g] =
       [pc |-> "report", outcome |-> "skipped",
        clash |-> Local(j) /\ Mixed(path[j])]]
  /\ UNCHANGED <<storeVars, storage, path, file, object, faults>>

(* The input is missing, or cannot be downloaded.                          *)
InputFails(j, g) ==
  /\ At(j, g, "check") /\ Fault
  /\ Reports(j, g, "failed")
  /\ UNCHANGED <<storeVars, storage, path, file, object>>

(* A run that another one disturbs when it opens the file at p: it writes  *)
(* to that file, or has made or skipped it.                                *)
Disturbed(k, h, p) ==
  /\ Local(k) /\ path[k] = p
  /\ run[k][h].pc = "transcode" \/ run[k][h].outcome \in Successes

(* A probe or a stat that fails counts as "no output": that is a fault.    *)
(* ffmpeg -y truncates the file that it opens.                             *)
StartTranscode(j, g) ==
  LET p == path[j]
      Opened(k, h) ==
        IF k = j /\ h = g
        THEN [pc |-> "transcode", outcome |-> "none",
              clash |-> Local(j) /\ Written(p)]
        ELSE [run[k][h] EXCEPT
                !.clash = @ \/ (Local(j) /\ Disturbed(k, h, p))]
  IN /\ At(j, g, "check")
     /\ IF OutputLooksValid(j) THEN Fault ELSE UNCHANGED faults
     /\ run' = [k \in Jobs |-> [h \in DOMAIN run[k] |-> Opened(k, h)]]
     /\ IF Local(j)
        THEN file' = [file EXCEPT ![p] =
               [content |-> "short", job |-> j, gen |-> g]]
        ELSE UNCHANGED file
     /\ UNCHANGED <<storeVars, storage, path, object>>

(* The file has grown beyond its header.                                   *)
Grows(j, g) ==
  /\ At(j, g, "transcode") /\ Local(j) /\ file[path[j]].content = "short"
  /\ file' = [file EXCEPT ![path[j]].content = "readable"]
  /\ UNCHANGED <<storeVars, storage, path, object, run, faults>>

(* Two ffmpeg that wrote one file leave any mixture of their outputs.      *)
TranscodeDone(j, g) ==
  /\ At(j, g, "transcode")
  /\ IF Local(j)
     THEN /\ Reports(j, g, "made")
          /\ \E c \in IF run[j][g].clash THEN Content \ {"none"}
                                     ELSE {"whole"} :
               file' = [file EXCEPT ![path[j]].content = c]
     ELSE /\ run' = [run EXCEPT ![j][g].pc = "upload"]
          /\ UNCHANGED file
  /\ UNCHANGED <<storeVars, storage, path, object, faults>>

(* ffmpeg exits with an error, or is killed: the lease is lost, the time   *)
(* is up, or the worker shuts down.  A local file stays as it is.          *)
TranscodeFails(j, g) ==
  /\ At(j, g, "transcode") /\ Fault
  /\ Reports(j, g, "failed")
  /\ UNCHANGED <<storeVars, storage, path, file, object>>

(* An upload is one PutObject: the key has the whole object or the old one *)
Upload_Streams(j, g) ==
  /\ At(j, g, "upload")
  /\ Reports(j, g, "made")
  /\ object' = [object EXCEPT ![j] = "readable"]
  /\ UNCHANGED <<storeVars, storage, path, file, faults>>

Upload(j, g) ==
  /\ At(j, g, "upload")
  /\ Reports(j, g, "made")
  /\ object' = [object EXCEPT ![j] = "whole"]
  /\ UNCHANGED <<storeVars, storage, path, file, faults>>

UploadFails_Ignored(j, g) ==
  /\ At(j, g, "upload") /\ Fault
  /\ Reports(j, g, "made")
  /\ UNCHANGED <<storeVars, storage, path, file, object>>

UploadFails(j, g) ==
  /\ At(j, g, "upload") /\ Fault
  /\ Reports(j, g, "failed")
  /\ UNCHANGED <<storeVars, storage, path, file, object>>

(* The worker dies with its container, or its report does not arrive.      *)
Crash(j, g) ==
  /\ g \in DOMAIN run[j] /\ run[j][g].pc # "done" /\ Fault
  /\ run' = [run EXCEPT ![j][g].pc = "done"]
  /\ UNCHANGED <<storeVars, storage, path, file, object>>

(* FinishJob takes the report or refuses it.                               *)
Submit(j, g) ==
  LET w == grants[j][g]  success == run[j][g].outcome \in Successes
  IN /\ At(j, g, "report")
     /\ \/ FinishAgain(j, 0)
        \/ success /\ FinishSuccess(j, w, g, 0)
        \/ ~success /\ FinishFailure(j, w, g, 0)
        \/ /\ jobs[j].status # "COMPLETED"
           /\ ~FinishAccepted(j, w, g, success)
           /\ UNCHANGED storeVars
     /\ run' = [run EXCEPT ![j][g].pc = "done"]
     /\ UNCHANGED <<storage, path, file, object, faults>>

RunStep(j, g) ==
  \/ SkipTranscode(j, g) \/ InputFails(j, g) \/ StartTranscode(j, g)
  \/ Grows(j, g) \/ TranscodeDone(j, g) \/ TranscodeFails(j, g)
  \/ Upload(j, g) \/ UploadFails(j, g) \/ Crash(j, g) \/ Submit(j, g)

(* The rest of the platform.  The two ways of creating a job lead to the   *)
(* same queue.                                                             *)
Others ==
  /\ \/ \E j \in Jobs, m \in MaxAttemptsInputs : CreateAndDispatch(j, m)
     \/ \E j \in Jobs : LeaseExpires(j)
     \/ \E w \in Workers : workers[w] = "ABSENT" /\ RegisterWorker(w)
     \/ Orphans # {} /\ ReapOrphanJobs
  /\ UNCHANGED outputVars

Next ==
  \/ \E j \in Jobs : \/ \E w \in Workers : Claim(j, w)
                     \/ \E g \in DOMAIN run[j] : RunStep(j, g)
  \/ Others

Spec == Init /\ [][Next]_vars

(***************************************************************************)
(* Properties                                                              *)
(***************************************************************************)

(* Every grant has a run, and only local files are ever half written.      *)
OutputTypeOK ==
  /\ StoreTypeOK
  /\ storage \in [Jobs -> {"local", "r2"}]
  /\ path \in [Jobs -> Paths]
  /\ file \in [Paths -> [content : Content,
                         job : Jobs \cup {NONE}, gen : Nat]]
  /\ object \in [Jobs -> {"none", "whole"}]
  /\ faults \in Nat
  /\ \A j \in Jobs :
       run[j] \in Seq(RunState) /\ Len(run[j]) = Len(grants[j])

(* The output object of a COMPLETED R2 job is whole and stays whole:       *)
(* whatever runs were killed, reaped or late, and although a run that has  *)
(* lost its lease may still upload under the same key.                     *)
CompletedObjectIsWhole ==
  \A j \in Jobs :
    (jobs[j].status = "COMPLETED" /\ ~Local(j)) => object[j] = "whole"

OpenedLastBy(j, g, f) == f.job = j /\ f.gen = g

(* What a COMPLETED local job leaves at its path.  As long as no other run *)
(* has opened the file since (a late run of this job, or a run of another  *)
(* job with the same path), it is the whole output of the run that         *)
(* completed the job, or, when that run skipped the transcode, a file that *)
(* looks valid.  And whoever has opened the file since, once the run that  *)
(* opened it last has made its output with no other run writing, the file  *)
(* is whole again, as that run's output.                                   *)
CompletedFileIsWhole ==
  \A j \in Jobs :
    (jobs[j].status = "COMPLETED" /\ Local(j)) =>
      LET f == file[path[j]]
          g == Len(run[j])
          Alone(k, h) == ~run[k][h].clash
      IN /\ Alone(j, g) =>
              /\ f.content \in Valid
              /\ run[j][g].outcome = "made" =>
                   OpenedLastBy(j, g, f) /\ f.content = "whole"
         /\ \A k \in Jobs : \A h \in DOMAIN run[k] :
              (/\ OpenedLastBy(k, h, f) /\ Alone(k, h)
               /\ run[k][h].outcome = "made") => f.content = "whole"
=============================================================================
