----------------------------- MODULE MCMigrate ------------------------------
(* Model values for Migrate.                                               *)
EXTENDS Migrate, TLC

Symm == Permutations(Procs)
=============================================================================
