------------------------------ MODULE MCJobLogs ------------------------------
(* Model values for JobLogs.                                               *)
EXTENDS JobLogs, TLC

Symm == Permutations(Workers)
=============================================================================
