------------------------------- MODULE Outbox --------------------------------
(***************************************************************************)
(* What schedulers promise about the rows of job_outbox, however many of   *)
(* them there are and whatever happens to them: the abstract specification *)
(* that OutboxRelay implements in detail, and that Platform is built on.   *)
(*                                                                         *)
(* The message of a row is handed to the broker by one open transaction at *)
(* a time, after the row was inserted and before the row is published.     *)
(* That transaction commits, which publishes its rows for good, or is lost *)
(* and leaves them to another one, which will hand the message over again. *)
(***************************************************************************)
CONSTANT Rows

VARIABLES
  inserted,  \* rows a store transaction has committed
  published, \* rows whose published_at is set
  taken      \* rows whose message was handed over in an open transaction

vars == <<inserted, published, taken>>

Init == inserted = {} /\ published = {} /\ taken = {}

(* One transaction may insert several rows (a reaper pass does).           *)
Insert(S) ==
  /\ inserted' = inserted \cup S
  /\ UNCHANGED <<published, taken>>

Publish(i) ==
  /\ i \in inserted \ (published \cup taken)
  /\ taken' = taken \cup {i}
  /\ UNCHANGED <<inserted, published>>

Commit(S) ==
  /\ published' = published \cup S
  /\ taken' = taken \ S
  /\ UNCHANGED inserted

Rollback(S) ==
  /\ taken' = taken \ S
  /\ UNCHANGED <<inserted, published>>

Next ==
  \/ inserted' \subseteq Rows /\ Insert(inserted' \ inserted)
  \/ \E i \in inserted : Publish(i)
  \/ \E S \in SUBSET taken : Commit(S) \/ Rollback(S)

Spec == Init /\ [][Next]_vars
=============================================================================
