----------------------------- MODULE MCPlatform -----------------------------
(* Model values for Platform.                                              *)
EXTENDS Platform, TLC

Symm == Permutations(Jobs) \cup Permutations(Workers)
=============================================================================
