---------------------------- MODULE MigrateProofs -----------------------------
(***************************************************************************)
(* Proofs about Migrate, for any number of overlapping runs, faults and    *)
(* manual commands with any arguments.                                     *)
(*                                                                         *)
(* A version row that disagrees with the tables is harmless as long as it  *)
(* is dirty, because no run goes on from a dirty version, or too old,      *)
(* because the files fail on a schema that they have already changed.      *)
(***************************************************************************)
EXTENDS Migrate, TLAPS

ProcState == [at : At, cmd : {"up", "down", "force"},
              arg : Nat, file : Files \cup {0}]

Inside == {"next", "apply", "clean"}

(* Whoever works on the files has a version that a file leads to, and the  *)
(* file that is due.                                                       *)
FileInHand ==
  \A p \in Procs : proc[p].at \in {"apply", "clean"} => proc[p].file \in Files

TypeInv ==
  /\ MigrateTypeOK /\ FileInHand
  /\ lock # NONE => version \in Files \cup {nilVersion}

(* The newest file.                                                        *)
LEMMA MaxFile == Max(Files) = 6
<1>1. \E x \in Files : \A y \in Files : x >= y
  <2>1. 6 \in Files /\ \A y \in Files : 6 >= y
    BY DEF Files
  <2> QED BY <2>1
<1>2. Max(Files) \in Files /\ \A y \in Files : Max(Files) >= y
  BY <1>1 DEF Max
<1> QED BY <1>2 DEF Files

(* A schema that consists of the first n files is seen as version n.       *)
LEMMA SchemaVersionOf ==
  ASSUME NEW n \in 0..6
  PROVE  SchemaVersion(1..n) = n
<1>1. CASE n = 0
  BY <1>1 DEF SchemaVersion
<1>2. CASE n # 0
  <2>1. n \in 1..n /\ \A y \in 1..n : n >= y
    BY <1>2
  <2>2. Max(1..n) \in 1..n /\ \A y \in 1..n : Max(1..n) >= y
    BY <2>1 DEF Max
  <2>3. Max(1..n) = n
    BY <2>1, <2>2
  <2> QED BY <1>2, <2>3 DEF SchemaVersion
<1> QED BY <1>1, <1>2

(* A run that ends gives up the lock, if it has it.                        *)
LEMMA FinishTypes ==
  ASSUME MigrateTypeOK, FileInHand,
         NEW p \in Procs, NEW result \in {"ok", "failed"},
         Finish(p, result)
  PROVE  /\ proc' \in [Procs -> ProcState]
         /\ lock' \in {lock, NONE} /\ lock' \in Procs \cup {NONE}
         /\ \A q \in Procs : proc'[q].at \in Inside <=> lock' = q
         /\ FileInHand'
<1>1. Run(result, "up", 0) \in ProcState
  BY DEF Run, ProcState, At
<1>2. proc \in [Procs -> ProcState]
  BY DEF MigrateTypeOK, ProcState
<1>3. proc'[p].at \notin Inside /\ \A q \in Procs \ {p} : proc'[q] = proc[q]
  BY <1>2 DEF Finish, Run, Inside
<1>4. proc' \in [Procs -> ProcState]
  BY <1>1, <1>2 DEF Finish
<1> QED BY <1>3, <1>4, MigrateAssumption
        DEF Finish, MigrateTypeOK, Inside, FileInHand

(* A run that goes to a step of the same kind, inside the lock or outside, *)
(* changes nothing of it.                                                  *)
LEMMA MoveTypes ==
  ASSUME MigrateTypeOK, FileInHand, NEW p \in Procs, NEW r \in ProcState,
         proc' = [proc EXCEPT ![p] = r], lock' = lock,
         r.at \in Inside <=> proc[p].at \in Inside,
         r.at \in {"apply", "clean"} => r.file \in Files
  PROVE  /\ proc' \in [Procs -> ProcState]
         /\ \A q \in Procs : proc'[q].at \in Inside <=> lock' = q
         /\ FileInHand'
<1>1. proc \in [Procs -> ProcState]
  BY DEF MigrateTypeOK, ProcState
<1>2. proc'[p] = r /\ \A q \in Procs \ {p} : proc'[q] = proc[q]
  BY <1>1
<1> QED BY <1>1, <1>2 DEF MigrateTypeOK, Inside, FileInHand

(* Nobody works on the files at first.                                     *)
LEMMA TypeInit == Init => TypeInv
<1> HAVE Init
<1>1. Run("failed", "up", 0) \in ProcState
  BY DEF Run, ProcState, At
<1>2. \A p \in Procs : proc[p].at \notin Inside
  BY DEF Init, Run, Inside
<1>3. schema \subseteq Files
  BY DEF Init, Files
<1> QED BY <1>1, <1>2, <1>3, MigrateAssumption
        DEF Init, TypeInv, MigrateTypeOK, ProcState, Inside, nilVersion,
            FileInHand

(* Each step keeps the types, and a run is inside the loop while it has    *)
(* the lock.                                                               *)
LEMMA TypeNext == TypeInv /\ [Next]_vars => TypeInv'
<1> SUFFICES ASSUME TypeInv, [Next]_vars PROVE TypeInv'
  OBVIOUS
<1>P. proc \in [Procs -> ProcState] /\ MigrateTypeOK /\ FileInHand
  BY DEF TypeInv, MigrateTypeOK, ProcState
<1>T. ASSUME NEW p \in Procs
      PROVE  /\ proc[p] \in ProcState
             /\ proc[p].at \in Inside <=> lock = p
  BY <1>P DEF MigrateTypeOK, Inside
<1> USE DEF TypeInv
<1>1. ASSUME NEW p \in Procs, NEW seen \in Nat,
             proc[p].at = "detect", AfterDetect(p, seen),
             UNCHANGED <<schema, version, dirty, waiting, lock>>,
             faults' \in Nat, manual' \in Nat, trouble' \in BOOLEAN
      PROVE  TypeInv'
  <2> DEFINE r == [proc[p] EXCEPT !.at = IF seen = 0 THEN "open" ELSE "status",
                                  !.arg = seen]
  <2>1. r \in ProcState /\ r.at \notin Inside /\ proc[p].at \notin Inside
    BY <1>1, <1>T DEF ProcState, At, Inside
  <2>2. proc' = [proc EXCEPT ![p] = r]
    BY <1>1, <1>T, <1>P DEF AfterDetect, ProcState
  <2> HIDE DEF r
  <2> QED BY <1>1, <1>P, <2>1, <2>2, MoveTypes
          DEF MigrateTypeOK, ProcState, Inside
<1>2. ASSUME NEW p \in Procs, detectSchemaVersion(p)
      PROVE  TypeInv'
  <2>1. SchemaVersion(schema) \in Nat
    <3>1. CASE 1 \in schema
      <4>1. \E x \in schema : \A y \in schema : x >= y
        <5>1. schema \subseteq Files
          BY <1>P DEF MigrateTypeOK
        <5> QED BY <3>1, <5>1 DEF Files
      <4>2. Max(schema) \in schema
        BY <4>1 DEF Max
      <4>3. Max(schema) \in Nat
        <5> HIDE DEF TypeInv
        <5>1. schema \subseteq Nat
          BY <1>P DEF MigrateTypeOK, Files
        <5> QED BY <4>2, <5>1
      <4> HIDE DEF TypeInv
      <4> QED BY <3>1, <4>3 DEF SchemaVersion
    <3>2. CASE 1 \notin schema
      BY <3>2 DEF SchemaVersion
    <3> QED BY <3>1, <3>2
  <2> QED BY <1>1, <1>2, <1>P, <2>1
          DEF detectSchemaVersion, history, MigrateTypeOK
<1>3. ASSUME NEW p \in Procs, NEW seen \in 0..Max(Files), LookupError(p, seen)
      PROVE  TypeInv'
  BY <1>1, <1>3, <1>P, MaxFile DEF LookupError, Fault, MigrateTypeOK
<1>4. ASSUME NEW p \in Procs, reconcileLegacySchema(p)
      PROVE  TypeInv'
  <2>1. CASE Agrees(proc[p].arg)
    <3>1. Run("open", "up", 0) \in ProcState
      BY DEF Run, ProcState, At
    <3>2. Run("open", "up", 0).at \notin Inside /\ proc[p].at \notin Inside
      BY <1>4 DEF reconcileLegacySchema, Run, Inside
    <3> QED BY <1>4, <1>P, <2>1, <3>1, <3>2, MoveTypes
            DEF reconcileLegacySchema, history, MigrateTypeOK, ProcState,
                Inside
  <2>2. CASE ~Agrees(proc[p].arg)
    <3> DEFINE r == [proc[p] EXCEPT !.at = "force"]
    <3>1. r \in ProcState /\ r.at \notin Inside /\ proc[p].at \notin Inside
      BY <1>4, <1>T DEF reconcileLegacySchema, ProcState, At, Inside
    <3>2. proc' = [proc EXCEPT ![p] = r]
      BY <1>4, <1>T, <1>P, <2>2 DEF reconcileLegacySchema, Step, ProcState
    <3> HIDE DEF r
    <3> QED BY <1>4, <1>P, <2>2, <3>1, <3>2, MoveTypes
            DEF reconcileLegacySchema, history, MigrateTypeOK, ProcState,
                Inside
  <2> QED BY <2>1, <2>2
<1>5. ASSUME NEW p \in Procs, MigratorForce(p)
      PROVE  TypeInv'
  <2>1. version' \in Nat /\ dirty' = FALSE
    BY <1>5, <1>T DEF MigratorForce, SetVersion, ProcState
  <2>2. lock = NONE /\ lock' = NONE /\ proc[p].at \notin Inside
    BY <1>5, <1>P, FinishTypes DEF MigratorForce, Inside
  <2>3. /\ proc' \in [Procs -> ProcState]
        /\ \A q \in Procs : proc'[q].at \in Inside <=> lock' = q
        /\ FileInHand'
    <3>1. CASE proc[p].cmd = "up"
      <4>1. Run("open", "up", 0) \in ProcState
        BY DEF Run, ProcState, At
      <4>2. Run("open", "up", 0).at = "open"
        BY DEF Run
      <4> QED BY <1>5, <1>P, <2>2, <3>1, <4>1, <4>2, MoveTypes
              DEF MigratorForce, Inside
    <3>2. CASE proc[p].cmd # "up"
      BY <1>5, <1>P, <3>2, FinishTypes DEF MigratorForce
    <3> QED BY <3>1, <3>2
  <2> QED BY <1>5, <1>P, <2>1, <2>2, <2>3
          DEF MigratorForce, history, MigrateTypeOK, ProcState, Inside
<1>6. ASSUME NEW p \in Procs, Open(p)
      PROVE  TypeInv'
  <2>1. CASE OpenRefuses
    BY <1>6, <1>P, <2>1, FinishTypes
       DEF Open, history, MigrateTypeOK, ProcState, Inside
  <2>2. CASE ~OpenRefuses
    <3> DEFINE r == [proc[p] EXCEPT !.at = "next"]
    <3>1. r \in ProcState /\ r.at = "next"
      BY <1>T DEF ProcState, At
    <3>2. proc' = [proc EXCEPT ![p] = r] /\ lock' = p /\ lock = NONE
      BY <1>6, <1>T, <1>P, <2>2 DEF Open, Step, ProcState
    <3>3. version \in Files \cup {nilVersion}
      BY <2>2 DEF OpenRefuses
    <3>4. \A q \in Procs \ {p} : proc'[q] = proc[q] /\ proc[q].at \notin Inside
      BY <1>T, <1>P, <3>2, MigrateAssumption
    <3>5. proc' \in [Procs -> ProcState] /\ proc'[p].at = "next"
      BY <1>P, <3>1, <3>2
    <3> QED BY <1>6, <1>P, <3>2, <3>3, <3>4, <3>5
            DEF Open, history, MigrateTypeOK, ProcState, Inside, FileInHand
  <2> QED BY <2>1, <2>2
<1>7. ASSUME NEW p \in Procs, LockTimeout(p)
      PROVE  TypeInv'
  BY <1>7, <1>P, FinishTypes
     DEF LockTimeout, history, MigrateTypeOK, ProcState, Inside
<1>8. ASSUME NEW p \in Procs, NextFile(p)
      PROVE  TypeInv'
  <2>1. CASE LastFile(p)
    BY <1>8, <1>P, <2>1, FinishTypes
       DEF NextFile, history, MigrateTypeOK, ProcState, Inside
  <2>2. CASE ~LastFile(p)
    <3> DEFINE file   == IF proc[p].cmd # "up" THEN version
                         ELSE IF version = nilVersion THEN 1 ELSE version + 1
               target == IF proc[p].cmd = "up" THEN file
                         ELSE IF file = 1 THEN nilVersion ELSE file - 1
               r == [proc[p] EXCEPT !.at = "apply", !.file = file,
                       !.arg = IF proc[p].cmd = "up" THEN @ ELSE @ - 1]
    <3>1. lock = p /\ version \in Files \cup {nilVersion}
      BY <1>8, <1>T, MigrateAssumption DEF NextFile, Inside
    <3>2. file \in Files /\ target \in Files \cup {nilVersion}
      BY <2>2, <3>1, MaxFile DEF LastFile, Files, nilVersion
    <3>3. r \in ProcState /\ r.at = "apply" /\ r.file = file
      <4>1. (IF proc[p].cmd = "up" THEN proc[p].arg ELSE proc[p].arg - 1)
              \in Nat
        BY <1>T, <2>2 DEF LastFile, ProcState
      <4> HIDE DEF file, target
      <4> QED BY <1>T, <3>2, <4>1 DEF ProcState, At
    <3>4. /\ proc' = [proc EXCEPT ![p] = r]
          /\ version' = target /\ dirty' = TRUE /\ lock' = lock
      <4>1. proc[p].cmd # "up" <=> ~(proc[p].cmd = "up")
        OBVIOUS
      <4> QED BY <1>8, <1>T, <1>P, <2>2 DEF NextFile, SetVersion, ProcState
    <3> HIDE DEF r, file, target
    <3>5. /\ proc' \in [Procs -> ProcState] /\ FileInHand'
          /\ \A q \in Procs : proc'[q].at \in Inside <=> lock' = q
      <4>1. proc[p].at = "next"
        BY <1>8 DEF NextFile
      <4> QED BY <1>P, <3>2, <3>3, <3>4, <4>1, MoveTypes DEF Inside
    <3>6. /\ version' \in {nilVersion} \cup Nat
          /\ version' \in Files \cup {nilVersion}
      BY <3>2, <3>4 DEF Files
    <3> QED BY <1>8, <1>P, <3>4, <3>5, <3>6
            DEF NextFile, history, MigrateTypeOK, ProcState, Inside
  <2> QED BY <2>1, <2>2
<1>9. ASSUME NEW p \in Procs, ApplyFile(p)
      PROVE  TypeInv'
  <2>0. proc[p].file \in Files
    BY <1>9, <1>P DEF ApplyFile, FileInHand
  <2>1. CASE Finish(p, "failed") /\ UNCHANGED <<schema, waiting>>
    BY <1>9, <1>P, <2>1, FinishTypes
       DEF ApplyFile, history, MigrateTypeOK, ProcState, Inside
  <2>2. CASE Step(p, "clean") /\ lock' = lock
    <3> DEFINE r == [proc[p] EXCEPT !.at = "clean"]
    <3>1. /\ r \in ProcState /\ r.file \in Files
          /\ r.at \in Inside /\ proc[p].at \in Inside
      BY <1>9, <1>T, <2>0 DEF ApplyFile, ProcState, At, Inside
    <3>2. proc' = [proc EXCEPT ![p] = r]
      BY <1>T, <1>P, <2>2 DEF Step, ProcState
    <3>3. schema' \subseteq Files /\ waiting' \in {waiting, "none"}
      BY <1>9, <1>P, <2>0 DEF ApplyFile, MigrateTypeOK
    <3> HIDE DEF r
    <3> QED BY <1>9, <1>P, <2>2, <3>1, <3>2, <3>3, MoveTypes
            DEF ApplyFile, history, MigrateTypeOK, ProcState, Inside
  <2> QED BY <1>9, <2>1, <2>2 DEF ApplyFile
<1>10. ASSUME NEW p \in Procs, MarkClean(p)
       PROVE  TypeInv'
  <2> DEFINE r == [proc[p] EXCEPT !.at = "next", !.file = 0]
  <2>1. r \in ProcState /\ r.at = "next" /\ proc[p].at \in Inside
    BY <1>10, <1>T DEF MarkClean, ProcState, At, Inside
  <2>2. proc' = [proc EXCEPT ![p] = r]
    BY <1>10, <1>T, <1>P DEF MarkClean, ProcState
  <2> HIDE DEF r
  <2> QED BY <1>10, <1>P, <2>1, <2>2, MoveTypes
          DEF MarkClean, SetVersion, history, MigrateTypeOK, ProcState, Inside
<1>11. ASSUME NEW p \in Procs, NEW at \in {"detect", "open", "force"},
              NEW cmd \in {"up", "down", "force"}, NEW arg \in Nat,
              ~Running(p), proc' = [proc EXCEPT ![p] = Run(at, cmd, arg)],
              UNCHANGED <<schema, version, dirty, waiting, lock, faults>>,
              manual' \in Nat, trouble' \in BOOLEAN
       PROVE  TypeInv'
  <2>1. Run(at, cmd, arg) \in ProcState
    BY DEF Run, ProcState, At
  <2>2. Run(at, cmd, arg).at \notin Inside /\ proc[p].at \notin Inside
    BY <1>11 DEF Run, Running, Inside
  <2> QED BY <1>11, <1>P, <2>1, <2>2, MoveTypes
          DEF MigrateTypeOK, ProcState, Inside
<1>12. ASSUME NEW p \in Procs, RunUp(p)
       PROVE  TypeInv'
  <2>1. trouble' \in BOOLEAN /\ manual' \in Nat
    BY <1>12, <1>P DEF RunUp, MigrateTypeOK
  <2> QED BY <1>11, <1>12, <2>1 DEF RunUp
<1>13. ASSUME NEW p \in Procs, NEW at \in {"open", "force"},
              NEW cmd \in {"down", "force"}, NEW arg \in Nat,
              NEW wrong \in BOOLEAN, Manual(p, at, cmd, arg, wrong)
       PROVE  TypeInv'
  <2>1. trouble' \in BOOLEAN /\ manual' \in Nat
    BY <1>13, <1>P DEF Manual, MigrateTypeOK
  <2> QED BY <1>11, <1>13, <2>1 DEF Manual
<1>14. ASSUME NEW p \in Procs, NEW n \in DownSteps, RunDown(p, n)
       PROVE  TypeInv'
  BY <1>13, <1>14, MigrateAssumption DEF RunDown
<1>15. ASSUME NEW p \in Procs, NEW v \in ForceVersions, RunForce(p, v)
       PROVE  TypeInv'
  <2>1. (v # SchemaVersion(schema) \/ schema = {}) \in BOOLEAN
    OBVIOUS
  <2> QED BY <1>13, <1>15, <2>1, MigrateAssumption DEF RunForce
<1>16. ASSUME NEW p \in Procs, Crash(p)
       PROVE  TypeInv'
  BY <1>16, <1>P, FinishTypes
     DEF Crash, Fault, MigrateTypeOK, ProcState, Inside
<1>17. ASSUME JobWaits \/ JobsDone
       PROVE  TypeInv'
  BY <1>17 DEF JobWaits, JobsDone, history, MigrateTypeOK, FileInHand
<1>18. CASE UNCHANGED vars
  BY <1>18 DEF vars, MigrateTypeOK, FileInHand
<1> QED BY <1>2, <1>3, <1>4, <1>5, <1>6, <1>7, <1>8, <1>9, <1>10, <1>12,
           <1>14, <1>15, <1>16, <1>17, <1>18 DEF Next, ProcStep

(***************************************************************************)
(* Versions and files while nothing but "up" is run                        *)
(***************************************************************************)

(* What a run of "up" has read is not newer than the tables, and what it   *)
(* applies is at most the next file.                                       *)
UpRun(p, n) ==
  /\ Running(p) => proc[p].cmd = "up"
  /\ proc[p].at \in {"status", "force"} => 1 <= proc[p].arg /\ proc[p].arg <= n
  /\ proc[p].at = "next" => ~dirty
  /\ proc[p].at = "apply" => version = proc[p].file /\ version <= n + 1
  /\ proc[p].at = "clean" => version <= n

UpsOnly(n) ==
  /\ schema = 1..n
  /\ dirty \/ version <= n
  /\ \A p \in Procs : UpRun(p, n)

(* A step of one run that leaves the database alone.                       *)
LEMMA UpsOnlyMove ==
  ASSUME NEW n \in 0..6, UpsOnly(n), NEW p \in Procs, UpRun(p, n)',
         \A q \in Procs \ {p} : proc'[q] = proc[q],
         UNCHANGED <<schema, version, dirty>>
  PROVE  UpsOnly(n)'
BY DEF UpsOnly, UpRun, Running

(* The types of the runs, in the form the steps use.                       *)
LEMMA ProcTypes ==
  ASSUME TypeInv
  PROVE  /\ proc \in [Procs -> ProcState]
         /\ \A p \in Procs : /\ proc[p] \in ProcState
                             /\ proc[p].at \in Inside <=> lock = p
BY DEF TypeInv, MigrateTypeOK, ProcState, Inside

(* A run that ends knows nothing any more.                                 *)
LEMMA UpsOnlyFinish ==
  ASSUME TypeInv, NEW n \in 0..6, UpsOnly(n), NEW p \in Procs,
         NEW result \in {"ok", "failed"}, Finish(p, result),
         UNCHANGED <<schema, version, dirty>>
  PROVE  UpsOnly(n)'
<1>1. /\ proc'[p].at = result
      /\ \A q \in Procs \ {p} : proc'[q] = proc[q]
  BY ProcTypes DEF Finish, Run
<1>2. UpRun(p, n)'
  BY <1>1 DEF UpRun, Running
<1> QED BY <1>1, <1>2, UpsOnlyMove

(* However runs of "up" overlap, crash and misread, what they know stays   *)
(* old enough.                                                             *)
LEMMA UpsOnlyNext ==
  ASSUME TypeInv, NEW n \in 0..6, UpsOnly(n), Next, manual' = 0
  PROVE  \E m \in 0..6 : UpsOnly(m)'
<1>S. schema = 1..n /\ SchemaVersion(schema) = n
  BY SchemaVersionOf DEF UpsOnly
<1>P. \A p \in Procs : proc[p] \in ProcState /\ UpRun(p, n)
  BY ProcTypes DEF UpsOnly
<1>1. ASSUME NEW p \in Procs, NEW seen \in 0..n,
             proc[p].at = "detect", AfterDetect(p, seen),
             UNCHANGED <<schema, version, dirty>>
      PROVE  UpsOnly(n)'
  <2>1. /\ proc'[p].at = IF seen = 0 THEN "open" ELSE "status"
        /\ proc'[p].arg = seen /\ proc'[p].cmd = proc[p].cmd
        /\ \A q \in Procs \ {p} : proc'[q] = proc[q]
    BY <1>1, ProcTypes DEF AfterDetect, ProcState
  <2>2. UpRun(p, n)'
    BY <1>1, <1>P, <2>1 DEF UpRun, Running
  <2> QED BY <1>1, <2>1, <2>2, UpsOnlyMove
<1>2. ASSUME NEW p \in Procs, detectSchemaVersion(p)
      PROVE  UpsOnly(n)'
  BY <1>1, <1>2, <1>S DEF detectSchemaVersion
<1>3. ASSUME NEW p \in Procs, NEW seen \in 0..Max(Files), LookupError(p, seen)
      PROVE  UpsOnly(n)'
  <2>1. Misread(schema) \subseteq 0..n
    BY <1>S DEF Misread
  <2> QED BY <1>1, <1>3, <2>1 DEF LookupError
<1>4. ASSUME NEW p \in Procs, reconcileLegacySchema(p)
      PROVE  UpsOnly(n)'
  <2>1. /\ \/ proc'[p] = Run("open", "up", 0)
           \/ /\ proc'[p].at = "force"
              /\ proc'[p].arg = proc[p].arg /\ proc'[p].cmd = proc[p].cmd
        /\ \A q \in Procs \ {p} : proc'[q] = proc[q]
    BY <1>4, ProcTypes DEF reconcileLegacySchema, Step, ProcState
  <2>2. UpRun(p, n)'
    BY <1>4, <1>P, <2>1 DEF UpRun, Running, Run, reconcileLegacySchema
  <2> QED BY <1>4, <2>1, <2>2, UpsOnlyMove DEF reconcileLegacySchema
<1>5. ASSUME NEW p \in Procs, MigratorForce(p)
      PROVE  UpsOnly(n)'
  <2>1. /\ version' = proc[p].arg /\ dirty' = FALSE /\ schema' = schema
        /\ lock = NONE /\ proc[p].at = "force"
    BY <1>5 DEF MigratorForce, SetVersion
  <2>2. 1 <= proc[p].arg /\ proc[p].arg <= n /\ proc[p].cmd = "up"
    BY <1>P, <2>1 DEF UpRun, Running
  <2>3. proc'[p] = Run("open", "up", 0)
    BY <1>5, <2>2, ProcTypes DEF MigratorForce
  <2>4. \A q \in Procs \ {p} : proc'[q] = proc[q]
    BY <1>5, <2>2, ProcTypes DEF MigratorForce
  <2>5. \A q \in Procs : proc[q].at \notin Inside
    BY <2>1, ProcTypes, MigrateAssumption
  <2> QED BY <1>P, <1>S, <2>1, <2>2, <2>3, <2>4, <2>5
          DEF UpsOnly, UpRun, Running, Run, Inside
<1>6. ASSUME NEW p \in Procs, Open(p)
      PROVE  UpsOnly(n)'
  <2>1. CASE OpenRefuses
    BY <1>6, <2>1, UpsOnlyFinish DEF Open
  <2>2. CASE ~OpenRefuses
    <3>1. /\ proc'[p].at = "next" /\ proc'[p].cmd = proc[p].cmd
          /\ \A q \in Procs \ {p} : proc'[q] = proc[q]
      BY <1>6, <2>2, ProcTypes DEF Open, Step, ProcState
    <3>2. UpRun(p, n)'
      BY <1>6, <1>P, <2>2, <3>1 DEF Open, OpenRefuses, UpRun, Running
    <3> QED BY <1>6, <3>1, <3>2, UpsOnlyMove DEF Open
  <2> QED BY <2>1, <2>2
<1>7. ASSUME NEW p \in Procs, LockTimeout(p)
      PROVE  UpsOnly(n)'
  BY <1>7, UpsOnlyFinish DEF LockTimeout
<1>8. ASSUME NEW p \in Procs, NextFile(p)
      PROVE  UpsOnly(n)'
  <2>0. /\ proc[p].at = "next" /\ proc[p].cmd = "up" /\ ~dirty
        /\ lock = p /\ version \in Files \cup {nilVersion} /\ version <= n
    BY <1>8, <1>P, ProcTypes, MigrateAssumption
       DEF NextFile, UpRun, Running, Inside, TypeInv, UpsOnly
  <2>1. CASE LastFile(p)
    BY <1>8, <2>1, UpsOnlyFinish DEF NextFile
  <2>2. CASE ~LastFile(p)
    <3> DEFINE file == IF version = nilVersion THEN 1 ELSE version + 1
    <3>1. /\ version' = file /\ schema' = schema /\ dirty'
          /\ proc'[p].at = "apply" /\ proc'[p].file = file
          /\ proc'[p].cmd = "up"
          /\ \A q \in Procs \ {p} : proc'[q] = proc[q]
      BY <1>8, <2>0, <2>2, ProcTypes DEF NextFile, SetVersion, ProcState
    <3>2. file <= n + 1
      BY <2>0 DEF Files
    <3>3. \A q \in Procs \ {p} : proc[q].at \notin Inside
      BY <2>0, ProcTypes
    <3> HIDE DEF file
    <3> QED BY <1>P, <1>S, <3>1, <3>2, <3>3
            DEF UpsOnly, UpRun, Running, Inside
  <2> QED BY <2>1, <2>2
<1>9. ASSUME NEW p \in Procs, ApplyFile(p)
      PROVE  \E m \in 0..6 : UpsOnly(m)'
  <2> DEFINE v == proc[p].file
  <2>0. /\ proc[p].at = "apply" /\ proc[p].cmd = "up" /\ lock = p
        /\ v \in 1..6 /\ version = v /\ v <= n + 1
        /\ UNCHANGED <<version, dirty>>
    BY <1>9, <1>P, ProcTypes
       DEF ApplyFile, UpRun, Running, Inside, TypeInv, FileInHand, Files
  <2>1. CASE ~UpSucceeds(v)
    <3>1. Finish(p, "failed") /\ schema' = schema
      BY <1>9, <2>0, <2>1 DEF ApplyFile
    <3> QED BY <2>0, <3>1, UpsOnlyFinish
  <2>2. CASE UpSucceeds(v)
    <3>1. /\ schema' = schema \cup {v}
          /\ proc'[p].at = "clean" /\ proc'[p].cmd = "up"
          /\ \A q \in Procs \ {p} : proc'[q] = proc[q]
      BY <1>9, <2>0, <2>2, ProcTypes DEF ApplyFile, Step, ProcState
    <3>2. PICK m \in 0..6 : schema' = 1..m /\ n <= m /\ v <= m
      <4>1. CASE v <= n
        BY <1>S, <2>0, <3>1, <4>1
      <4>2. CASE v = n + 1
        <5>1. schema' = 1..(n + 1)
          BY <1>S, <3>1, <4>2
        <5> QED BY <2>0, <4>2, <5>1
      <4> QED BY <2>0, <4>1, <4>2
    <3>3. \A q \in Procs \ {p} : proc[q].at \notin Inside
      BY <2>0, ProcTypes
    <3>4. UpRun(p, m)'
      BY <2>0, <3>1, <3>2 DEF UpRun, Running
    <3>5. \A q \in Procs \ {p} : UpRun(q, m)'
      BY <1>P, <2>0, <3>1, <3>2, <3>3
         DEF UpRun, Running, Inside, ProcState
    <3>6. dirty' \/ version' <= m
      BY <2>0, <3>2
    <3> HIDE DEF v
    <3> QED BY <3>2, <3>4, <3>5, <3>6 DEF UpsOnly
  <2> QED BY <2>1, <2>2
<1>10. ASSUME NEW p \in Procs, MarkClean(p)
       PROVE  UpsOnly(n)'
  <2>1. /\ proc[p].at = "clean" /\ proc[p].cmd = "up" /\ lock = p
        /\ version <= n
    BY <1>10, <1>P, ProcTypes DEF MarkClean, UpRun, Running, Inside
  <2>2. /\ version' = version /\ dirty' = FALSE /\ schema' = schema
        /\ proc'[p].at = "next" /\ proc'[p].cmd = "up"
        /\ \A q \in Procs \ {p} : proc'[q] = proc[q]
    BY <1>10, <2>1, ProcTypes DEF MarkClean, SetVersion, ProcState
  <2>3. \A q \in Procs \ {p} : proc[q].at \notin Inside
    BY <2>1, ProcTypes
  <2> QED BY <1>P, <1>S, <2>1, <2>2, <2>3
          DEF UpsOnly, UpRun, Running, Inside
<1>11. ASSUME NEW p \in Procs, RunUp(p)
       PROVE  UpsOnly(n)'
  <2>1. /\ proc'[p] = Run("detect", "up", 0)
        /\ \A q \in Procs \ {p} : proc'[q] = proc[q]
    BY <1>11, ProcTypes DEF RunUp
  <2>2. UpRun(p, n)'
    BY <2>1 DEF UpRun, Running, Run
  <2> QED BY <1>11, <2>1, <2>2, UpsOnlyMove DEF RunUp
<1>12. ASSUME NEW p \in Procs, Crash(p)
       PROVE  UpsOnly(n)'
  BY <1>12, UpsOnlyFinish DEF Crash
<1>13. ASSUME JobWaits \/ JobsDone
       PROVE  UpsOnly(n)'
  BY <1>13 DEF JobWaits, JobsDone, UpsOnly, UpRun, Running
<1>14. ASSUME NEW p \in Procs,
              \/ \E k \in DownSteps : RunDown(p, k)
              \/ \E v \in ForceVersions : RunForce(p, v)
       PROVE  FALSE
  BY <1>14 DEF RunDown, RunForce, Manual, TypeInv, MigrateTypeOK
<1> QED BY <1>2, <1>3, <1>4, <1>5, <1>6, <1>7, <1>8, <1>9, <1>10, <1>11,
           <1>12, <1>13, <1>14 DEF Next, ProcStep

(***************************************************************************)
(* Versions and files while commands are run one at a time                 *)
(***************************************************************************)

CleanVersion(n) == IF n = 0 THEN nilVersion ELSE n

(* The one run that there may be knows the version of the tables, and a    *)
(* clean version is that of the tables or has not been recorded yet.       *)
SoloRun(p, n) ==
  /\ proc[p].at \in {"status", "force"} => proc[p].arg = n /\ n >= 1
  /\ proc[p].at = "open" /\ proc[p].cmd = "up"
       => dirty \/ n = 0 \/ version = n
  /\ proc[p].at = "next"
       => ~dirty /\ (proc[p].cmd = "up" => n = 0 \/ version = n)
  /\ proc[p].at = "apply"
       => /\ dirty
          /\ IF proc[p].cmd = "up"
             THEN proc[p].file = n + 1 /\ version = n + 1
             ELSE proc[p].file = n /\ version = CleanVersion(n - 1)
  /\ proc[p].at = "clean" => version = CleanVersion(n)

Solo(n) ==
  /\ schema = 1..n
  /\ dirty \/ version \in {nilVersion, n}
  /\ \A p, q \in Procs : Running(p) /\ Running(q) => p = q
  /\ \A p \in Procs : SoloRun(p, n)

(* While one run works, the others have ended and know nothing.            *)
LEMMA SoloMove ==
  ASSUME NEW n \in 0..6, Solo(n), NEW m \in 0..6, NEW p \in Procs, Running(p),
         \A q \in Procs \ {p} : proc'[q] = proc[q],
         schema' = 1..m, dirty' \/ version' \in {nilVersion, m}, SoloRun(p, m)'
  PROVE  Solo(m)'
<1>1. \A q \in Procs \ {p} : ~Running(q) /\ ~Running(q)'
  BY DEF Solo, Running
<1>2. \A q \in Procs \ {p} : SoloRun(q, m)'
  BY <1>1 DEF SoloRun, Running
<1> QED BY <1>1, <1>2 DEF Solo

(* The run ends, and no other goes on.                                     *)
LEMMA SoloFinish ==
  ASSUME TypeInv, NEW n \in 0..6, Solo(n), NEW p \in Procs, Running(p),
         NEW result \in {"ok", "failed"}, Finish(p, result),
         UNCHANGED <<schema, version, dirty>>
  PROVE  Solo(n)'
<1>1. /\ proc'[p].at = result
      /\ \A q \in Procs \ {p} : proc'[q] = proc[q]
  BY ProcTypes DEF Finish, Run
<1>2. SoloRun(p, n)'
  BY <1>1 DEF SoloRun
<1> QED BY <1>1, <1>2, SoloMove DEF Solo

(* A command that is started while none runs.                              *)
LEMMA SoloStart ==
  ASSUME TypeInv, NEW n \in 0..6, Solo(n), NEW p \in Procs,
         ~Running(p), ~Overlap(p),
         NEW at \in {"detect", "open", "force"}, NEW cmd, NEW arg,
         proc' = [proc EXCEPT ![p] = Run(at, cmd, arg)],
         at = "open" => cmd # "up", at = "force" => arg = n /\ n >= 1,
         UNCHANGED <<schema, version, dirty>>
  PROVE  Solo(n)'
<1>1. /\ proc'[p].at = at /\ proc'[p].cmd = cmd /\ proc'[p].arg = arg
      /\ \A q \in Procs \ {p} : proc'[q] = proc[q]
  BY ProcTypes DEF Run
<1>2. \A q \in Procs \ {p} : ~Running(q) /\ ~Running(q)'
  BY <1>1 DEF Overlap, Running
<1>3. SoloRun(p, n)' /\ \A q \in Procs \ {p} : SoloRun(q, n)'
  BY <1>1, <1>2 DEF SoloRun, Running
<1> QED BY <1>2, <1>3 DEF Solo

(* Commands run one at a time keep version and tables together, up to the  *)
(* dirty mark.                                                             *)
LEMMA SoloNext ==
  ASSUME TypeInv, NEW n \in 0..6, Solo(n), Next, ~trouble'
  PROVE  \E m \in 0..6 : Solo(m)'
<1>S. /\ schema = 1..n /\ SchemaVersion(schema) = n
      /\ dirty \/ version \in {nilVersion, n}
  BY SchemaVersionOf DEF Solo
<1>P. \A p \in Procs : proc[p] \in ProcState /\ SoloRun(p, n)
  BY ProcTypes DEF Solo
<1>1. ASSUME NEW p \in Procs, detectSchemaVersion(p)
      PROVE  Solo(n)'
  <2>1. /\ proc'[p].at = IF n = 0 THEN "open" ELSE "status"
        /\ proc'[p].arg = n /\ proc'[p].cmd = proc[p].cmd
        /\ \A q \in Procs \ {p} : proc'[q] = proc[q]
    BY <1>1, <1>S, ProcTypes DEF detectSchemaVersion, AfterDetect, ProcState
  <2>2. SoloRun(p, n)' /\ Running(p)
    BY <1>1, <2>1 DEF SoloRun, Running, detectSchemaVersion
  <2> QED BY <1>1, <1>S, <2>1, <2>2, SoloMove DEF detectSchemaVersion
<1>2. ASSUME NEW p \in Procs, reconcileLegacySchema(p)
      PROVE  Solo(n)'
  <2>1. \A q \in Procs \ {p} : proc'[q] = proc[q]
    BY <1>2, ProcTypes DEF reconcileLegacySchema, Step
  <2>2. proc[p].arg = n /\ n >= 1 /\ Running(p)
    BY <1>2, <1>P DEF reconcileLegacySchema, SoloRun, Running
  <2>3. CASE Agrees(proc[p].arg)
    <3>1. proc'[p] = Run("open", "up", 0)
      BY <1>2, <2>3, ProcTypes DEF reconcileLegacySchema
    <3>2. SoloRun(p, n)'
      BY <1>2, <2>2, <2>3, <3>1
         DEF SoloRun, Run, Agrees, reconcileLegacySchema
    <3> QED BY <1>2, <1>S, <2>1, <2>2, <3>2, SoloMove
            DEF reconcileLegacySchema
  <2>4. CASE ~Agrees(proc[p].arg)
    <3>1. proc'[p].at = "force" /\ proc'[p].arg = proc[p].arg
      BY <1>2, <2>4, ProcTypes DEF reconcileLegacySchema, Step, ProcState
    <3>2. SoloRun(p, n)'
      BY <2>2, <3>1 DEF SoloRun
    <3> QED BY <1>2, <1>S, <2>1, <2>2, <3>2, SoloMove
            DEF reconcileLegacySchema
  <2> QED BY <2>3, <2>4
<1>3. ASSUME NEW p \in Procs, MigratorForce(p)
      PROVE  Solo(n)'
  <2>1. /\ version' = n /\ n >= 1 /\ dirty' = FALSE /\ schema' = schema
        /\ Running(p)
    BY <1>3, <1>P DEF MigratorForce, SetVersion, SoloRun, Running
  <2>2. /\ \/ proc'[p] = Run("open", "up", 0)
           \/ proc'[p] = Run("ok", "up", 0)
        /\ \A q \in Procs \ {p} : proc'[q] = proc[q]
    BY <1>3, ProcTypes DEF MigratorForce, Finish
  <2>3. SoloRun(p, n)'
    BY <2>1, <2>2 DEF SoloRun, Run
  <2> QED BY <1>S, <2>1, <2>2, <2>3, SoloMove
<1>4. ASSUME NEW p \in Procs, Open(p)
      PROVE  Solo(n)'
  <2>0. /\ proc[p].at = "open" /\ Running(p)
        /\ UNCHANGED <<schema, version, dirty>>
    BY <1>4 DEF Open, Running
  <2>1. CASE OpenRefuses
    BY <1>4, <2>0, <2>1, SoloFinish DEF Open
  <2>2. CASE ~OpenRefuses
    <3>1. /\ proc'[p].at = "next" /\ proc'[p].cmd = proc[p].cmd
          /\ \A q \in Procs \ {p} : proc'[q] = proc[q]
      BY <1>4, <2>2, ProcTypes DEF Open, Step, ProcState
    <3>2. SoloRun(p, n)'
      BY <1>P, <2>0, <2>2, <3>1 DEF OpenRefuses, SoloRun
    <3> QED BY <1>S, <2>0, <3>1, <3>2, SoloMove
  <2> QED BY <2>1, <2>2
<1>5. ASSUME NEW p \in Procs, LockTimeout(p)
      PROVE  Solo(n)'
  BY <1>5, SoloFinish DEF LockTimeout, Running
<1>6. ASSUME NEW p \in Procs, NextFile(p)
      PROVE  Solo(n)'
  <2>0. /\ proc[p].at = "next" /\ Running(p) /\ ~dirty
        /\ version \in (1..6) \cup {nilVersion}
        /\ version = nilVersion \/ version = n
        /\ proc[p].cmd = "up" => n = 0 \/ version = n
    BY <1>6, <1>P, <1>S, ProcTypes, MigrateAssumption
       DEF NextFile, SoloRun, Running, Inside, TypeInv, Files
  <2>1. CASE LastFile(p)
    BY <1>6, <2>0, <2>1, SoloFinish DEF NextFile
  <2>2. CASE ~LastFile(p)
    <3> DEFINE file   == IF proc[p].cmd # "up" THEN version
                         ELSE IF version = nilVersion THEN 1 ELSE version + 1
               target == IF proc[p].cmd = "up" THEN file
                         ELSE IF file = 1 THEN nilVersion ELSE file - 1
    <3>1. /\ version' = target /\ schema' = schema /\ dirty'
          /\ proc'[p].at = "apply" /\ proc'[p].file = file
          /\ proc'[p].cmd = proc[p].cmd
          /\ \A q \in Procs \ {p} : proc'[q] = proc[q]
      BY <1>6, <2>2, ProcTypes DEF NextFile, SetVersion, ProcState
    <3>2. CASE proc[p].cmd = "up"
      <4>1. file = n + 1 /\ target = n + 1
        BY <2>0, <3>2 DEF nilVersion
      <4>2. SoloRun(p, n)'
        BY <3>1, <3>2, <4>1 DEF SoloRun
      <4> QED BY <1>S, <2>0, <3>1, <4>2, SoloMove
    <3>3. CASE proc[p].cmd # "up"
      <4>1. file = n /\ target = CleanVersion(n - 1)
        BY <2>0, <2>2, <3>3 DEF LastFile, CleanVersion
      <4>2. SoloRun(p, n)'
        BY <3>1, <3>3, <4>1 DEF SoloRun
      <4> QED BY <1>S, <2>0, <3>1, <4>2, SoloMove
    <3> QED BY <3>2, <3>3
  <2> QED BY <2>1, <2>2
<1>7. ASSUME NEW p \in Procs, ApplyFile(p)
      PROVE  \E m \in 0..6 : Solo(m)'
  <2> DEFINE v == proc[p].file
  <2>0. /\ proc[p].at = "apply" /\ Running(p) /\ v \in 1..6
        /\ dirty /\ UNCHANGED <<version, dirty>>
    BY <1>7, <1>P
       DEF ApplyFile, SoloRun, Running, TypeInv, FileInHand, Files
  <2>1. CASE Finish(p, "failed") /\ schema' = schema
    BY <2>0, <2>1, SoloFinish
  <2>2. CASE proc[p].cmd = "up" /\ UpSucceeds(v)
    <3>1. /\ schema' = schema \cup {v} /\ proc'[p].at = "clean"
          /\ \A q \in Procs \ {p} : proc'[q] = proc[q]
      BY <1>7, <2>2, ProcTypes DEF ApplyFile, Step, ProcState
    <3>2. v = n + 1 /\ version = n + 1
      BY <1>P, <2>0, <2>2 DEF SoloRun
    <3>3. schema' = 1..(n + 1) /\ n + 1 \in 0..6
      BY <1>S, <2>0, <3>1, <3>2
    <3>4. SoloRun(p, n + 1)'
      BY <2>0, <3>1, <3>2 DEF SoloRun, CleanVersion
    <3>5. Solo(n + 1)'
      BY <2>0, <3>1, <3>3, <3>4, SoloMove
    <3> QED BY <3>3, <3>5
  <2>3. CASE proc[p].cmd # "up" /\ DownSucceeds(v)
    <3>1. /\ schema' = (IF v = 1 THEN {} ELSE schema \ {v})
          /\ proc'[p].at = "clean"
          /\ \A q \in Procs \ {p} : proc'[q] = proc[q]
      BY <1>7, <2>3, ProcTypes DEF ApplyFile, Step, ProcState
    <3>2. v = n /\ version = CleanVersion(n - 1)
      BY <1>P, <2>0, <2>3 DEF SoloRun
    <3>3. schema' = 1..(n - 1) /\ n - 1 \in 0..6
      <4>1. CASE n = 1
        BY <3>1, <3>2, <4>1
      <4>2. CASE n # 1
        <5>1. schema' = (1..n) \ {n}
          BY <1>S, <3>1, <3>2, <4>2
        <5>2. (1..n) \ {n} = 1..(n - 1)
          OBVIOUS
        <5> QED BY <2>0, <3>2, <5>1, <5>2
      <4> QED BY <4>1, <4>2
    <3>4. SoloRun(p, n - 1)'
      BY <2>0, <3>1, <3>2 DEF SoloRun
    <3>5. Solo(n - 1)'
      BY <2>0, <3>1, <3>3, <3>4, SoloMove
    <3> QED BY <3>3, <3>5
  <2> QED BY <1>7, <2>1, <2>2, <2>3 DEF ApplyFile
<1>8. ASSUME NEW p \in Procs, MarkClean(p)
      PROVE  Solo(n)'
  <2>1. proc[p].at = "clean" /\ Running(p) /\ version = CleanVersion(n)
    BY <1>8, <1>P DEF MarkClean, SoloRun, Running
  <2>2. /\ version' = version /\ dirty' = FALSE /\ schema' = schema
        /\ proc'[p].at = "next" /\ \A q \in Procs \ {p} : proc'[q] = proc[q]
    BY <1>8, ProcTypes DEF MarkClean, SetVersion, ProcState
  <2>3. version' \in {nilVersion, n} /\ SoloRun(p, n)'
    BY <2>1, <2>2 DEF SoloRun, CleanVersion
  <2> QED BY <1>S, <2>1, <2>2, <2>3, SoloMove
<1>9. ASSUME NEW p \in Procs, RunUp(p)
      PROVE  Solo(n)'
  <2>1. ~Overlap(p)
    BY <1>9 DEF RunUp
  <2> QED BY <1>9, <2>1, SoloStart DEF RunUp
<1>10. ASSUME NEW p \in Procs, NEW k \in DownSteps, RunDown(p, k)
       PROVE  Solo(n)'
  BY <1>10, SoloStart DEF RunDown, Manual
<1>11. ASSUME NEW p \in Procs, NEW v \in ForceVersions, RunForce(p, v)
       PROVE  Solo(n)'
  <2>1. v = n /\ schema # {} /\ ~Overlap(p)
    BY <1>11, <1>S DEF RunForce, Manual
  <2>2. n >= 1
    BY <1>S, <2>1
  <2> QED BY <1>11, <2>1, <2>2, SoloStart DEF RunForce, Manual
<1>12. ASSUME NEW p \in Procs,
              Crash(p) \/ \E seen \in 0..Max(Files) : LookupError(p, seen)
       PROVE  FALSE
  BY <1>12 DEF Crash, LookupError, Fault
<1>13. ASSUME JobWaits \/ JobsDone
       PROVE  Solo(n)'
  BY <1>13 DEF JobWaits, JobsDone, Solo, SoloRun, Running
<1> QED BY <1>1, <1>2, <1>3, <1>4, <1>5, <1>6, <1>7, <1>8, <1>9, <1>10,
           <1>11, <1>12, <1>13 DEF Next, ProcStep

(***************************************************************************)
(* The theorems                                                            *)
(***************************************************************************)

MigrateInv ==
  /\ TypeInv
  /\ manual = 0 => \E n \in 0..6 : UpsOnly(n)
  /\ ~trouble => \E n \in 0..6 : Solo(n)

(* The databases that the tool is first run on.                            *)
LEMMA MigrateInit == Init => MigrateInv
<1> HAVE Init
<1>1. \A p \in Procs : proc[p].at = "failed"
  BY DEF Init, Run
<1>2. PICK n \in 0..6 : schema = 1..n
  <2>1. {} = 1..0 /\ {1} = 1..1 /\ {1, 2} = 1..2
    OBVIOUS
  <2> QED BY <2>1 DEF Init
<1>3. version = nilVersion /\ nilVersion <= n
  BY DEF Init, nilVersion
<1>4. UpsOnly(n)
  BY <1>1, <1>2, <1>3 DEF UpsOnly, UpRun, Running
<1>5. Solo(n)
  BY <1>1, <1>2, <1>3 DEF Solo, SoloRun, Running
<1> QED BY <1>4, <1>5, TypeInit DEF MigrateInv

(* Commands and trouble are never forgotten.                               *)
LEMMA HistoryGrows ==
  ASSUME TypeInv, Next
  PROVE  (manual' = 0 => manual = 0) /\ (~trouble' => ~trouble)
<1> manual \in Nat
  BY DEF TypeInv, MigrateTypeOK
<1>1. ASSUME NEW p \in Procs, ProcStep(p)
      PROVE  UNCHANGED <<manual, trouble>>
  BY <1>1
     DEF ProcStep, detectSchemaVersion, reconcileLegacySchema, MigratorForce,
         Open, LockTimeout, NextFile, ApplyFile, MarkClean, history
<1>2. ASSUME JobWaits \/ JobsDone
      PROVE  UNCHANGED <<manual, trouble>>
  BY <1>2 DEF JobWaits, JobsDone, history
<1>3. ASSUME NEW p \in Procs, RunUp(p)
      PROVE  manual' = manual /\ (trouble => trouble')
  BY <1>3 DEF RunUp
<1>4. ASSUME NEW p \in Procs, NEW at, NEW cmd, NEW arg, NEW wrong,
             Manual(p, at, cmd, arg, wrong)
      PROVE  manual' = manual + 1 /\ (trouble => trouble')
  BY <1>4 DEF Manual
<1>5. ASSUME NEW p \in Procs,
             Crash(p) \/ \E seen \in 0..Max(Files) : LookupError(p, seen)
      PROVE  manual' = manual /\ trouble'
  BY <1>5 DEF Crash, LookupError, Fault
<1>6. ASSUME NEW p \in Procs,
             \/ \E n \in DownSteps : RunDown(p, n)
             \/ \E v \in ForceVersions : RunForce(p, v)
      PROVE  manual' = manual + 1 /\ (trouble => trouble')
  BY <1>4, <1>6 DEF RunDown, RunForce
<1> QED BY <1>1, <1>2, <1>3, <1>5, <1>6 DEF Next

(* Both arguments hold side by side, each as long as its case does.        *)
LEMMA MigrateNext == MigrateInv /\ [Next]_vars => MigrateInv'
<1> SUFFICES ASSUME MigrateInv, [Next]_vars PROVE MigrateInv'
  OBVIOUS
<1>1. TypeInv /\ TypeInv'
  BY TypeNext DEF MigrateInv
<1>2. CASE Next
  BY <1>1, <1>2, HistoryGrows, UpsOnlyNext, SoloNext DEF MigrateInv
<1>3. CASE UNCHANGED vars
  BY <1>1, <1>3
     DEF MigrateInv, vars, UpsOnly, UpRun, Solo, SoloRun, Running
<1> QED BY <1>2, <1>3

(* With nothing but "up", or one command at a time without a failure       *)
(* half-way, the tables are at one version.                                *)
LEMMA OrderlySchema ==
  ASSUME MigrateInv, Orderly
  PROVE  \E n \in 0..6 : /\ schema = 1..n
                         /\ dirty \/ version = nilVersion \/ version <= n
                         /\ \A p \in Procs : proc[p].at = "next" => ~dirty
<1>1. CASE manual = 0
  BY <1>1 DEF MigrateInv, UpsOnly, UpRun
<1>2. CASE ~trouble
  BY <1>2 DEF MigrateInv, Solo, SoloRun
<1> QED BY <1>1, <1>2 DEF Orderly

(* Where a run is after a step, and that a step moves one run only.        *)
LEMMA StepAt ==
  ASSUME TypeInv, NEW p \in Procs, NEW at, Step(p, at)
  PROVE  proc'[p].at = at /\ \A q \in Procs \ {p} : proc'[q] = proc[q]
BY ProcTypes DEF Step, ProcState

(* The same of a run that starts over or ends.                             *)
LEMMA RunAt ==
  ASSUME TypeInv, NEW p \in Procs, NEW at, NEW cmd, NEW arg,
         proc' = [proc EXCEPT ![p] = Run(at, cmd, arg)]
  PROVE  proc'[p].at = at /\ \A q \in Procs \ {p} : proc'[q] = proc[q]
BY ProcTypes DEF Run

(* The same of a run that has looked at the tables.                        *)
LEMMA AfterDetectAt ==
  ASSUME TypeInv, NEW p \in Procs, NEW seen, AfterDetect(p, seen)
  PROVE  /\ proc'[p].at \in {"open", "status"}
         /\ \A q \in Procs \ {p} : proc'[q] = proc[q]
BY ProcTypes DEF AfterDetect, ProcState

(* "up" ends with success only in the library's loop, after the last file. *)
LEMMA SuccessOfUp ==
  ASSUME TypeInv, Next, NEW p \in Procs,
         proc[p].cmd = "up", Running(p), proc'[p].at = "ok"
  PROVE  NextFile(p) /\ LastFile(p) /\ UNCHANGED <<schema, version, dirty>>
<1> DEFINE Fails(q) == /\ q = p => proc'[p].at # "ok"
                       /\ q # p => proc'[p] = proc[p]
<1>0. proc[p].at # "ok"
  BY DEF Running
<1>1. ASSUME NEW q \in Procs,
             detectSchemaVersion(q)
               \/ \E seen \in 0..Max(Files) : LookupError(q, seen)
      PROVE  Fails(q)
  BY <1>1, AfterDetectAt DEF detectSchemaVersion, LookupError
<1>2. ASSUME NEW q \in Procs, reconcileLegacySchema(q)
      PROVE  Fails(q)
  BY <1>2, StepAt, RunAt DEF reconcileLegacySchema
<1>3. ASSUME NEW q \in Procs, MigratorForce(q)
      PROVE  Fails(q)
  <2>1. CASE proc[q].cmd = "up"
    BY <1>3, <2>1, RunAt DEF MigratorForce
  <2>2. CASE proc[q].cmd # "up"
    BY <1>3, <2>2, RunAt DEF MigratorForce, Finish
  <2> QED BY <2>1, <2>2
<1>4. ASSUME NEW q \in Procs, Open(q)
      PROVE  Fails(q)
  BY <1>4, StepAt, RunAt DEF Open, Finish
<1>5. ASSUME NEW q \in Procs, LockTimeout(q) \/ Crash(q)
      PROVE  Fails(q)
  BY <1>5, RunAt DEF LockTimeout, Crash, Finish
<1>6. ASSUME NEW q \in Procs, ApplyFile(q)
      PROVE  Fails(q)
  <2>1. Step(q, "clean") \/ Finish(q, "failed")
    BY <1>6 DEF ApplyFile
  <2> QED BY <2>1, StepAt, RunAt DEF Finish
<1>7. ASSUME NEW q \in Procs, MarkClean(q)
      PROVE  Fails(q)
  BY <1>7, ProcTypes DEF MarkClean, ProcState
<1>8. ASSUME NEW q \in Procs, RunUp(q)
      PROVE  Fails(q)
  BY <1>8, RunAt DEF RunUp
<1>9. ASSUME NEW q \in Procs,
             \/ \E n \in DownSteps : RunDown(q, n)
             \/ \E v \in ForceVersions : RunForce(q, v)
      PROVE  Fails(q)
  BY <1>9, RunAt DEF RunDown, RunForce, Manual
<1>10. ASSUME NEW q \in Procs, NextFile(q), q # p \/ ~LastFile(q)
       PROVE  Fails(q)
  <2>1. CASE LastFile(q)
    <3>1. \/ Finish(q, "ok")
          \/ Finish(q, "failed")
      BY <1>10, <2>1 DEF NextFile
    <3> QED BY <1>10, <2>1, <3>1, RunAt DEF Finish
  <2>2. CASE ~LastFile(q)
    BY <1>10, <2>2, ProcTypes DEF NextFile, ProcState
  <2> QED BY <2>1, <2>2
<1>11. NextFile(p) /\ LastFile(p)
  BY <1>0, <1>1, <1>2, <1>3, <1>4, <1>5, <1>6, <1>7, <1>8, <1>9, <1>10
     DEF Next, ProcStep, JobWaits, JobsDone
<1> QED BY <1>11 DEF NextFile

(* The inductive invariant holds.                                          *)
THEOREM MigrateCorrect == Spec => []MigrateInv
BY MigrateInit, MigrateNext, PTL DEF Spec

(* The variables have values of their kind, and only the holder of the     *)
(* advisory lock works on the files.                                       *)
THEOREM MigrateTypeCorrect == Spec => []MigrateTypeOK
<1>1. MigrateInv => MigrateTypeOK
  BY DEF MigrateInv, TypeInv
<1> QED BY MigrateCorrect, <1>1, PTL

(* However many runs of "up" overlap, die or misread the tables, no file   *)
(* takes effect before its predecessors; nor with any commands that are    *)
(* run one at a time without failing half-way.                             *)
THEOREM FilesApplyInOrder == Spec => []FilesInOrder
<1>1. MigrateInv => FilesInOrder
  BY OrderlySchema, MaxFile DEF FilesInOrder, Prefix
<1> QED BY MigrateCorrect, <1>1, PTL

(* A run of "up" that reports success leaves the newest schema with its    *)
(* version recorded clean.                                                 *)
THEOREM SuccessIsCurrent == Spec => SuccessMeansCurrent
<1> DEFINE Success ==
      \A p \in Procs :
        (Orderly /\ proc[p].cmd = "up" /\ Running(p) /\ proc'[p].at = "ok")
          => Current'
<1>1. MigrateInv /\ [Next]_vars => [Success]_vars
  <2> SUFFICES ASSUME MigrateInv, Next, NEW p \in Procs, Orderly,
                      proc[p].cmd = "up", Running(p), proc'[p].at = "ok"
               PROVE  Current'
    OBVIOUS
  <2>1. NextFile(p) /\ LastFile(p) /\ UNCHANGED <<schema, version, dirty>>
    BY SuccessOfUp DEF MigrateInv
  <2>2. proc[p].at = "next" /\ version = 6
    BY <2>1, MaxFile DEF NextFile, LastFile
  <2>3. schema = 1..6 /\ ~dirty
    BY <2>2, OrderlySchema DEF nilVersion
  <2> QED BY <2>1, <2>2, <2>3, MaxFile DEF Current, Files
<1> QED BY MigrateCorrect, <1>1, PTL DEF Spec, SuccessMeansCurrent
=============================================================================
