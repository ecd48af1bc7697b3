----------------------------- MODULE MCJobStore -----------------------------
(* Model values for the store: its callers are JobStore's most general     *)
(* ones, and an administrator looks at what they do (AdminViews).          *)
EXTENDS AdminViews, TLC

(* Bound: once the administrator has looked, one worker is registered and  *)
(* jobs have one attempt; until then there may be more.  Of the lists only *)
(* the lasting ones are opened.                                            *)
Small ==
  /\ Cardinality(Registered) <= 1
  /\ \A j \in Jobs : jobs[j].max <= 1

MCNext ==
  \/ TablesChange /\ (view.at = "idle" \/ Small')
  \/ Small /\ \E f \in Filter, n \in Limits : Lasting(f) /\ OpenList(f, n)
  \/ Small /\ OpenStats
  \/ CountJobs \/ ListJobs \/ CountByStatus \/ CountWorkers

MCSpec == Init /\ [][MCNext]_vars

Symm == Permutations(Jobs) \cup Permutations(Workers)
=============================================================================
