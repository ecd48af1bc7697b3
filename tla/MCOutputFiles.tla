--------------------------- MODULE MCOutputFiles ----------------------------
(* Model values for OutputFiles.                                           *)
EXTENDS OutputFiles, TLC

(* Bound: an R2 job, whose key no other job uses, is on its own.           *)
Apart ==
  \A j, k \in Jobs :
    (~Local(j) /\ jobs[j].status # "ABSENT" /\ k # j)
      => jobs[k].status = "ABSENT"

MCNext == Next /\ Apart'

MCSpec == Init /\ [][MCNext]_vars

Symm == Permutations(Jobs) \cup Permutations(Workers)
=============================================================================
