--------------------------- MODULE MCJobRequests ----------------------------
(* Model values for JobRequests.                                           *)
EXTENDS JobRequests, TLC

Symm == Permutations(Jobs) \cup Permutations(Workers)
          \cup Permutations(Requests)
=============================================================================
