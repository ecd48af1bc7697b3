--------------------------- MODULE MCOutboxRelay ----------------------------
(* Model values for OutboxRelay.                                           *)
EXTENDS OutboxRelay, TLC

Symm == Permutations(Relays)
=============================================================================
