----------------------------- MODULE MCTopology -----------------------------
(* Model values for Topology.                                              *)
EXTENDS Topology, TLC
=============================================================================
