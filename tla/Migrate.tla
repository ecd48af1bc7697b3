------------------------------- MODULE Migrate -------------------------------
(***************************************************************************)
(* cmd/migrate: runs of the migration tool against one database.           *)
(*                                                                         *)
(* internal/migrate wraps the library golang-migrate.  The library keeps   *)
(* one version number with a dirty mark in schema_migrations, marks the    *)
(* version dirty before it runs a file and clean after it, and refuses to  *)
(* work on a dirty version.  "up" first compares that number with the      *)
(* tables that exist and overwrites it when they differ                    *)
(* (reconcileLegacySchema): that repairs what an interrupted run left.     *)
(*                                                                         *)
(* Several runs may overlap and each may die between any two steps.  The   *)
(* library's advisory lock covers its own operations only: the comparison  *)
(* and the overwriting are separate steps outside it.                      *)
(*                                                                         *)
(* A file is one implicit transaction: it takes effect or it does not.     *)
(* The optional pg_dump before "up" changes nothing and is left out.       *)
(*                                                                         *)
(* A definition whose name ends in _Something is the one it is named after *)
(* with a plausible mistake, as in JobStore.                               *)
(***************************************************************************)
EXTENDS Integers, FiniteSets, FiniteSetsExt

CONSTANTS Procs,         \* processes that run the tool, one run after another
          NONE,          \* nobody holds the advisory lock
          DownSteps,     \* arguments of "down" that are tried
          ForceVersions, \* arguments of "force" that are tried
          FaultKinds,    \* "crash", "lookupError"
          MaxFaults,     \* bound on faults
          MaxManual      \* bound on "down" and "force" runs

ASSUME MigrateAssumption ==
  /\ NONE \notin Procs
  /\ DownSteps \subseteq Nat \ {0} /\ ForceVersions \subseteq Nat
  /\ MaxFaults \in Nat /\ MaxManual \in Nat

VARIABLES
  schema,  \* the files whose effect is in the database
  version, \* schema_migrations.version, nilVersion when there is no row
  dirty,   \* schema_migrations.dirty
  waiting, \* the status of the jobs that wait for a worker, "none" if no such
  lock,    \* the process that holds the advisory lock
  proc,    \* per process: where its run is, and what it remembers
  faults,  \* history: faults so far
  manual,  \* history: "down" and "force" runs so far
  trouble  \* history: a fault, an overlap or a wrong "force" has happened

vars == <<schema, version, dirty, waiting, lock, proc, faults, manual, trouble>>

Files == 1..6
nilVersion == -1

(***************************************************************************)
(* The SQL files                                                           *)
(***************************************************************************)

(* 1 creates jobs and workers, 2 to 4 add columns to jobs, 5 creates       *)
(* job_outbox and 6 replaces job_logs by job_log_artifacts.  1 to 4 and 6  *)
(* create without IF NOT EXISTS.  5 rewrites QUEUED and RETRY to           *)
(* DISPATCHED while the old check, which knows no DISPATCHED, still holds. *)
UpSucceeds(v) ==
  /\ v = 1 <=> 1 \notin schema
  /\ v # 5 => v \notin schema
  /\ v = 5 => waiting # "queued"

(* 5 rewrites DISPATCHED to QUEUED under the new check; job_outbox and     *)
(* job_log_artifacts reference jobs, so 1 cannot drop it before them.      *)
DownSucceeds(v) ==
  /\ v # 1 => 1 \in schema
  /\ v = 6 => 6 \in schema
  /\ v = 5 => waiting # "dispatched"
  /\ v = 1 => {5, 6} \cap schema = {}

(***************************************************************************)
(* golang-migrate                                                          *)
(***************************************************************************)

SetVersion(v, d) == version' = v /\ dirty' = d

Step(p, at) == proc' = [proc EXCEPT ![p].at = at]

Running(p) == proc[p].at \notin {"ok", "failed"}

Run(at, cmd, arg) == [at |-> at, cmd |-> cmd, arg |-> arg, file |-> 0]

Finish_FreesAnyLock(p, result) ==
  /\ proc' = [proc EXCEPT ![p] = Run(result, "up", 0)]
  /\ lock' = NONE

(* The run ends; a session that ends gives the advisory lock back.         *)
Finish(p, result) ==
  /\ proc' = [proc EXCEPT ![p] = Run(result, "up", 0)]
  /\ lock' = IF lock = p THEN NONE ELSE lock

history == <<faults, manual, trouble>>

(* Up and Steps take the lock, and give up on a dirty version and on one   *)
(* that no file has, such as 0.                                            *)
OpenRefuses_IgnoresDirty == version \notin Files \cup {nilVersion}

OpenRefuses == dirty \/ version \notin Files \cup {nilVersion}

Open(p) ==
  /\ proc[p].at = "open" /\ lock = NONE
  /\ IF OpenRefuses THEN Finish(p, "failed")
     ELSE lock' = p /\ Step(p, "next")
  /\ UNCHANGED <<schema, version, dirty, waiting, history>>

(* The lock is waited for only 15 s.                                       *)
LockTimeout(p) ==
  /\ proc[p].at \in {"open", "force"} /\ lock \notin {NONE, p}
  /\ Finish(p, "failed")
  /\ UNCHANGED <<schema, version, dirty, waiting, history>>

(* The next file, with the version it leads to marked dirty; or the end,   *)
(* which is an error when "down" has run out of files before its steps.    *)
LastFile(p) ==
  IF proc[p].cmd = "up" THEN version = Max(Files)
  ELSE version = nilVersion \/ proc[p].arg = 0

NextFile(p) ==
  /\ proc[p].at = "next"
  /\ IF LastFile(p)
     THEN /\ Finish(p, IF proc[p].arg = 0 THEN "ok" ELSE "failed")
          /\ UNCHANGED <<version, dirty>>
     ELSE /\ LET up   == proc[p].cmd = "up"
                 file == IF ~up THEN version
                         ELSE IF version = nilVersion THEN 1 ELSE version + 1
                 target == IF up THEN file
                           ELSE IF file = 1 THEN nilVersion ELSE file - 1
             IN /\ SetVersion(target, TRUE)
                /\ proc' = [proc EXCEPT ![p].at = "apply", ![p].file = file,
                                        ![p].arg = IF up THEN @ ELSE @ - 1]
          /\ UNCHANGED lock
  /\ UNCHANGED <<schema, waiting, history>>

ApplyFile(p) ==
  /\ proc[p].at = "apply"
  /\ LET v == proc[p].file
         up == proc[p].cmd = "up"
     IN IF up /\ UpSucceeds(v)
        THEN /\ schema' = schema \cup {v}
             /\ Step(p, "clean") /\ UNCHANGED <<lock, waiting>>
        ELSE IF ~up /\ DownSucceeds(v)
        THEN /\ schema' = IF v = 1 THEN {} ELSE schema \ {v}
             /\ waiting' = IF v = 1 THEN "none" ELSE waiting
             /\ Step(p, "clean") /\ UNCHANGED lock
        ELSE Finish(p, "failed") /\ UNCHANGED <<schema, waiting>>
  /\ UNCHANGED <<version, dirty, history>>

MarkClean(p) ==
  /\ proc[p].at = "clean"
  /\ SetVersion(version, FALSE)
  /\ proc' = [proc EXCEPT ![p].at = "next", ![p].file = 0]
  /\ UNCHANGED <<schema, waiting, lock, history>>

(* Force takes the lock for its own statement only.                        *)
MigratorForce(p) ==
  /\ proc[p].at = "force" /\ lock = NONE
  /\ SetVersion(proc[p].arg, FALSE)
  /\ IF proc[p].cmd = "up"
     THEN proc' = [proc EXCEPT ![p] = Run("open", "up", 0)] /\ UNCHANGED lock
     ELSE Finish(p, "ok")
  /\ UNCHANGED <<schema, waiting, history>>

(***************************************************************************)
(* internal/migrate and cmd/migrate                                        *)
(***************************************************************************)

(* The newest file whose tables or columns exist; 0 without the tables of  *)
(* the first.  job_logs or job_log_artifacts is there since the first.     *)
SchemaVersion_SkipsLogs(s) ==
  IF 1 \notin s THEN 0 ELSE IF 5 \in s THEN Max(Files) ELSE Max(s)

SchemaVersion(s) == IF 1 \in s THEN Max(s) ELSE 0

(* A lookup that fails counts as "absent": any older version may be seen.  *)
(* The swap of file 6 is looked up before the others and overrides them.   *)
Misread(s) ==
  {0} \cup (IF 1 \in s /\ 6 \notin s THEN 1..SchemaVersion(s) ELSE {})

AfterDetect(p, seen) ==
  proc' = [proc EXCEPT ![p].at = IF seen = 0 THEN "open" ELSE "status",
                       ![p].arg = seen]

detectSchemaVersion(p) ==
  /\ proc[p].at = "detect"
  /\ AfterDetect(p, SchemaVersion(schema))
  /\ UNCHANGED <<schema, version, dirty, waiting, lock, history>>

(* Status reads an absent row, and the row of nilVersion, as 0 and clean.  *)
Agrees_AnyDirt(seen) == version = seen

Agrees(seen) == version = seen /\ ~dirty

reconcileLegacySchema(p) ==
  /\ proc[p].at = "status"
  /\ IF Agrees(proc[p].arg)
     THEN proc' = [proc EXCEPT ![p] = Run("open", "up", 0)]
     ELSE Step(p, "force")
  /\ UNCHANGED <<schema, version, dirty, waiting, lock, history>>

Overlap(p) == \E q \in Procs \ {p} : Running(q)

(* "up" reconciles first; "down" and "force" do not.                       *)
RunUp(p) ==
  /\ ~Running(p)
  /\ proc' = [proc EXCEPT ![p] = Run("detect", "up", 0)]
  /\ trouble' = (trouble \/ Overlap(p))
  /\ UNCHANGED <<schema, version, dirty, waiting, lock, faults, manual>>

Manual(p, at, cmd, arg, wrong) ==
  /\ ~Running(p) /\ manual < MaxManual
  /\ proc' = [proc EXCEPT ![p] = Run(at, cmd, arg)]
  /\ manual' = manual + 1
  /\ trouble' = (trouble \/ wrong \/ Overlap(p))
  /\ UNCHANGED <<schema, version, dirty, waiting, lock, faults>>

RunDown(p, n) == Manual(p, "open", "down", n, FALSE)

RunForce(p, v) ==
  Manual(p, "force", "force", v, v # SchemaVersion(schema) \/ schema = {})

(***************************************************************************)
(* Faults, and the scheduler that uses the tables meanwhile                *)
(***************************************************************************)

Fault(kind) ==
  /\ kind \in FaultKinds /\ faults < MaxFaults
  /\ faults' = faults + 1 /\ trouble' = TRUE
  /\ UNCHANGED manual

LookupError(p, seen) ==
  /\ Fault("lookupError")
  /\ proc[p].at = "detect" /\ seen \in Misread(schema)
  /\ AfterDetect(p, seen)
  /\ UNCHANGED <<schema, version, dirty, waiting, lock>>

(* The process dies, or the connection to the database does.               *)
Crash(p) ==
  /\ Fault("crash")
  /\ Running(p)
  /\ Finish(p, "failed")
  /\ UNCHANGED <<schema, version, dirty, waiting>>

(* Before file 5 waiting jobs are QUEUED or RETRY, after it DISPATCHED.    *)
JobWaits ==
  /\ 1 \in schema /\ waiting = "none"
  /\ waiting' = IF 5 \in schema THEN "dispatched" ELSE "queued"
  /\ UNCHANGED <<schema, version, dirty, lock, proc, history>>

JobsDone ==
  /\ waiting # "none"
  /\ waiting' = "none"
  /\ UNCHANGED <<schema, version, dirty, lock, proc, history>>

(***************************************************************************)

(* An empty database, or one the entrypoint scripts of the first releases  *)
(* set up, which has no schema_migrations.                                 *)
Init ==
  /\ schema \in {{}, {1}, {1, 2}}
  /\ version = nilVersion /\ dirty = FALSE
  /\ waiting = "none" /\ lock = NONE
  /\ proc = [p \in Procs |-> Run("failed", "up", 0)]
  /\ faults = 0 /\ manual = 0 /\ trouble = FALSE

ProcStep(p) ==
  \/ detectSchemaVersion(p) \/ reconcileLegacySchema(p) \/ MigratorForce(p)
  \/ Open(p) \/ LockTimeout(p) \/ NextFile(p) \/ ApplyFile(p) \/ MarkClean(p)

Next ==
  \/ \E p \in Procs :
       \/ ProcStep(p) \/ RunUp(p) \/ Crash(p)
       \/ \E n \in DownSteps : RunDown(p, n)
       \/ \E v \in ForceVersions : RunForce(p, v)
       \/ \E seen \in 0..Max(Files) : LookupError(p, seen)
  \/ JobWaits \/ JobsDone

Spec == Init /\ [][Next]_vars

(* A run goes on until it ends, and "up" is tried again.                   *)
FairSpec ==
  /\ Spec
  /\ \A p \in Procs : WF_vars(ProcStep(p)) /\ WF_vars(RunUp(p))

(***************************************************************************)
(* Properties                                                              *)
(***************************************************************************)

At == {"ok", "failed", "detect", "status", "force", "open", "next",
       "apply", "clean"}

(* Every variable has values of its kind, and whoever is inside the        *)
(* library's loop holds the advisory lock, so at most one run is.          *)
MigrateTypeOK ==
  /\ schema \subseteq Files
  /\ version \in {nilVersion} \cup Nat /\ dirty \in BOOLEAN
  /\ waiting \in {"none", "queued", "dispatched"}
  /\ lock \in Procs \cup {NONE}
  /\ proc \in [Procs -> [at : At, cmd : {"up", "down", "force"},
                         arg : Nat, file : Files \cup {0}]]
  /\ faults \in Nat /\ manual \in Nat /\ trouble \in BOOLEAN
  /\ \A p \in Procs : proc[p].at \in {"next", "apply", "clean"} <=> lock = p

Prefix(s) == \E n \in 0..Max(Files) : s = 1..n

(* Either nobody has run anything but "up", whatever crashed or            *)
(* overlapped; or the commands ran one at a time and none failed half-way. *)
Orderly == manual = 0 \/ ~trouble

(* The database is always at one version, never a mixture of files: a      *)
(* version that was overwritten with a stale or misread one does not make  *)
(* a file run out of order.                                                *)
FilesInOrder == Orderly => Prefix(schema)

Current == schema = Files /\ version = Max(Files) /\ ~dirty

(* When "up" reports success the schema is the newest and its version is   *)
(* recorded clean, however the run overlapped with others and whatever     *)
(* earlier runs had left.  The scheduler of the compose file starts on it. *)
SuccessMeansCurrent ==
  [][\A p \in Procs :
       (Orderly /\ proc[p].cmd = "up" /\ Running(p) /\ proc'[p].at = "ok")
         => Current']_vars

(* A first migration that was interrupted before its tables existed: there *)
(* is a dirty version and nothing to compare it with.                      *)
FirstRunInterrupted == schema = {} /\ dirty

(* "up" tried again and again ends with the current schema, after crashes, *)
(* failed lookups and stale versions.  Two things stop it: a first         *)
(* migration that died before it created its tables, for good, and jobs    *)
(* that wait in the old queue, as long as there are any.                   *)
UpHeals ==
  []Orderly => (\/ <>[]Current
                \/ <>[]FirstRunInterrupted
                \/ []<>(waiting = "queued"))
=============================================================================
